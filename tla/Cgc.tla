-------------------------------- MODULE Cgc ---------------------------------
(***************************************************************************)
(* Removal of clauses: the clause garbage collector xo.Cgc, the compaction *)
(* of the clause memory (CDat.Compact) with the relocation of every clause *)
(* location the solver keeps, and the recyclable activation literals of    *)
(* xo.Active, whose Deactivate removes clauses too.                        *)
(*                                                                         *)
(* A clause location is an index of cls as in Trail, so compaction shifts  *)
(* locations.  Removal has two stages: the clause is unlinked from the     *)
(* watch lists and queued in rmq, and its memory is freed, and locations   *)
(* move, when enough of it is queued.                                      *)
(***************************************************************************)
EXTENDS Trail, FiniteSets

CONSTANTS
  AddSpace,  \* the clauses a client may add or activate
  ActVars,   \* the variables S.Lit makes for activation literals
  Factor,    \* Cgc.factor, learned clauses per unit of the Luby sequence
  Discipline \* what the client takes care of, see Deactivate

ASSUME ActVarsAssumption == ActVars \subseteq VarSet
ASSUME FactorAssumption == Factor \in Nat \ {0}
(* Activation literals are in no clause but those they activate, and those *)
(* learned from these (inter/s.go:180).  That Add makes the literals of a  *)
(* clause unique is in module Solver.                                      *)
ASSUME AddSpaceAssumption ==
  \A ms \in AddSpace : /\ ms \in Seq(LitSet) /\ DistinctVars(ms)
                       /\ \A k \in 1 .. Len(ms) : Var(ms[k]) \notin ActVars

VARIABLES
  learnts,   \* Cdb.Learnts
  rmq,       \* Cgc.rmq, the clauses removed and not yet freed
  rmd,       \* Cgc.rmd, how many clauses were queued since the last freeing
  rmLits,    \* Cgc.rmLits, and their size
  stopWatch, \* Cgc.stopWatch
  isActive,  \* Active.IsActive, as a set of variables
  occs,      \* Active.Occs, the clauses in which an active literal occurs
  free,      \* Active.Free
  made,      \* the activation variables made so far
  act,       \* whether s.Active is there
  panicked   \* what an activation panicked with

gcVars  == <<learnts, rmq, rmd, rmLits, stopWatch>>
actVars == <<isActive, occs, free, made, act, panicked>>
cgcVars == <<trailVars, gcVars, actVars>>

CgcInit ==
  /\ TrailInit
  /\ learnts = {} /\ rmq = <<>> /\ rmd = 0 /\ rmLits = 0
  /\ stopWatch = Factor
  /\ isActive = {} /\ occs = [v \in VarSet |-> <<>>] /\ free = <<>>
  /\ made = {} /\ act = FALSE /\ panicked = "no"

(* The clauses which are not removed. *)
Live == Clauses \ ToSet(rmq)

-----------------------------------------------------------------------------
(***************************************************************************)
(* CDat: two words for each clause besides its literals.                   *)
(***************************************************************************)
Size(c) == Len(cls[c]) + 2

SumSizes(s) == FoldLeft(LAMBDA n, c : n + Size(c), 0, s)

CDatLen == SumSizes([c \in Clauses |-> c])

CompactReady(nc, nl) == CDatLen \div 2 < 2 * nc + nl

(* The rank of i in I, and what is left of s if only places I are kept.    *)
Rank(I, i) == Cardinality({j \in I : j <= i})

Sub(s, I) == [k \in 1 .. Cardinality(I) |-> s[CHOOSE i \in I : Rank(I, i) = k]]

(* CDat.Compact walks the memory next to the sorted queue, and goes to the *)
(* next of the queue when it meets it: it stops removing at a duplicate.   *)
Met(q) ==
  {c \in ToSet(q) : \A d \in ToSet(q) : d < c => \E k \in DOMAIN q : \A i \in DOMAIN q : q[i] = d <=> i = k}

(* The clauses that are freed: with activation literals the sorted queue   *)
(* is made unique (uniq).                                                  *)
Freed(q) == IF act THEN ToSet(q) ELSE Met(q)

(* Where a kept clause moves: the entry of the returned location map. *)
Moved(c, R) == Rank(Clauses \ R, c)

Relocate(S, R) == {Moved(c, R) : c \in S \ R}

(* relocateSlice drops the removed locations from a slice. *)
RelocateSlice(s, R) ==
  LET kept == Sub(s, {i \in DOMAIN s : s[i] \notin R})
  IN  [i \in DOMAIN kept |-> IF kept[i] = CNull THEN CNull ELSE Moved(kept[i], R)]

(* Vars.Reasons is such a slice, indexed by variable: a removed reason     *)
(* moves the reasons of all higher variables.  The slice is longer than    *)
(* the variables in use, so what moves in at its end is CNull.             *)
RelocateReasons(R) ==
  LET s == RelocateSlice([i \in 1 .. (NVars + 1) |-> reasons[i - 1]], R)
  IN  [v \in VarIndex |-> IF v < Len(s) THEN s[v + 1] ELSE CNull]

(* What a watch list keeps when the clauses R are removed from it. *)
Without(m, R) == Sub(watches[m], {i \in DOMAIN watches[m] : watches[m][i].c \notin R})

RelocateWatches(R) ==
  [m \in LitIndex |->
     LET ws == Without(m, R) IN [i \in DOMAIN ws |-> [ws[i] EXCEPT !.c = Moved(@, R)]]]

(* Cgc.CompactCDat on queue q, with learned clauses L and occurrences O.   *)
(* Cdb.Bot and the conflict S.x are not relocated.                         *)
CompactCDat(q, L, O) ==
  LET R == Freed(q)
  IN  /\ cls' = Sub(cls, Clauses \ R)
      /\ learnts' = Relocate(L, R) /\ added' = Relocate(added, R)
      /\ reasons' = RelocateReasons(R) /\ watches' = RelocateWatches(R)
      /\ occs' = IF act THEN [v \in VarSet |-> RelocateSlice(O[v], R)] ELSE O
      /\ rmq' = <<>> /\ rmd' = 0 /\ rmLits' = 0
      /\ UNCHANGED <<D, head, Level, vals, levels, bot, heap, loopVars>>

(* Mutant: only the first watched literal's list is cleaned. *)
UnlinkFirst(rms) ==
  watches' = [m \in LitIndex |->
                IF \E c \in ToSet(rms) : cls[c] # <<>> /\ cls[c][1] = m
                THEN Without(m, ToSet(rms)) ELSE watches[m]]

(* Cdb.Unlink cleans the lists of the first two literals of the removed. *)
Unlink(rms) ==
  watches' = [m \in LitIndex |->
                IF \E c \in ToSet(rms) : \E k \in {1, 2} \cap DOMAIN cls[c] : cls[c][k] = m
                THEN Without(m, ToSet(rms)) ELSE watches[m]]

(* What Cgc.Remove and Cgc.Compact do with the clauses rms they remove. *)
Enqueue(rms, L, O) ==
  LET nd == rmd + Len(rms)
      nl == rmLits + SumSizes(rms)
  IN  IF CompactReady(nd, nl)
      THEN CompactCDat(rmq \o rms, L, O)
      ELSE /\ Unlink(rms)
           /\ rmq' = rmq \o rms /\ rmd' = nd /\ rmLits' = nl
           /\ learnts' = L /\ occs' = O
           /\ UNCHANGED <<assignVars, head, cls, added, bot, heap, loopVars>>

(* A clause is its first literal's reason. *)
InUse(c) == cls[c] # <<>> /\ reasons[Var(cls[c][1])] = c

(* Mutant: reasons are collected too. *)
RemovableInUse == {c \in learnts : Len(cls[c]) # 1 /\ Len(cls[c]) # 2}

(* Mutant: the clauses of the problem are collected too. *)
RemovableAny == {c \in Live : ~ InUse(c) /\ Len(cls[c]) # 1 /\ Len(cls[c]) # 2}

Removable == {c \in learnts : ~ InUse(c) /\ Len(cls[c]) # 1 /\ Len(cls[c]) # 2}

MinOf(a, b) == IF a < b THEN a ELSE b

(* Cgc.Compact removes half of the learned clauses, and one at least, of   *)
(* those it may: by score, which is left open here.                        *)
Victims ==
  LET lim == IF Cardinality(learnts) < 2 THEN 1 ELSE Cardinality(learnts) \div 2
  IN  {rms \in SUBSET Removable :
         Cardinality(rms) = MinOf(lim, Cardinality(Removable))}

(* Cdb.MaybeCompact: called by Solve between Prop and the assignment of    *)
(* the guess, at any level.                                                *)
MaybeCompact ==
  /\ Propagated /\ stopWatch = 0
  /\ stopWatch' = Factor
  /\ \E rms \in Victims : Enqueue(SetToSeq(rms), learnts \ rms, occs)
  /\ UNCHANGED <<isActive, free, made, act, panicked>>

(* Cdb.CheckModel: called when no guess is left; with activation literals  *)
(* it frees the queued clauses, to be left with the clauses that count.    *)
CheckModel ==
  /\ Propagated /\ act
  /\ \A v \in VarSet \ (ActVars \ made) : ~ IsFree(Pos(v))
  /\ CompactCDat(rmq, learnts, occs)
  /\ UNCHANGED <<stopWatch, isActive, free, made, act, panicked>>

-----------------------------------------------------------------------------
(***************************************************************************)
(* Learning and activation.                                                *)
(***************************************************************************)
Sat(ms, T) == \E k \in DOMAIN ms : ms[k] \in T

Assignments == {{IF b[v] THEN Pos(v) ELSE Not(Pos(v)) : v \in VarSet} :
                  b \in [VarSet -> BOOLEAN]}

(* What Deriver.Derive yields follows from the clauses and has literals of *)
(* theirs.                                                                 *)
Implied(ms) ==
  /\ \A T \in Assignments : (\A c \in Live : Sat(cls[c], T)) => Sat(ms, T)
  /\ \A m \in ToSet(ms) : \E c \in Live : m \in ToSet(cls[c])

(* The occurrences, with those of the active variables A in clause c = ms. *)
Occurring(ms, c, A) ==
  [v \in VarSet |-> IF v \in A /\ \E k \in DOMAIN ms : Var(ms[k]) = v
                    THEN Append(occs[v], c) ELSE occs[v]]

(* Cdb.Learn, with Cgc.Tick, of a clause that follows from the others. *)
LearnClause(ms) ==
  /\ mode = "idle" /\ px # CNull /\ MayStore /\ Implied(ms)
  /\ ClientLearn(ms)
  /\ learnts' = learnts \cup {Len(cls) + 1}
  /\ stopWatch' = IF stopWatch > 0 THEN stopWatch - 1 ELSE 0
  /\ occs' = Occurring(ms, Len(cls) + 1, isActive)
  /\ panicked' = IF \E k \in DOMAIN ms : Var(ms[k]) \in isActive /\ ms[k] = Pos(Var(ms[k]))
                 THEN "positive act lit" ELSE panicked
  /\ UNCHANGED <<rmq, rmd, rmLits, isActive, free, made, act>>

(* Active.Lit: a recycled literal, or a new one. *)
NextLit(m) ==
  IF free # <<>> THEN m = Last(free)
  ELSE \E v \in ActVars \ made : m = Pos(v) /\ \A u \in ActVars \ made : v <= u

(* What Cdb.Add keeps of a clause. *)
Unassigned(ms) == Sub(ms, {k \in DOMAIN ms : IsFree(ms[k])})

(* Active.ActivateWith(m) on the literals ms added before and not m:       *)
(* Cdb.Add drops the false ones, and adds no clause if one is true.        *)
ActivateWith(m, ms) ==
  LET all  == Append(ms, Not(m))
      kept == Unassigned(all)
  IN  /\ isActive' = isActive \cup {Var(m)}
      /\ IF \E k \in DOMAIN all : IsTrue(all[k])
         THEN /\ panicked' = "activated trivially true clause"
              /\ UNCHANGED <<trailVars, occs>>
         ELSE IF Len(kept) = 1
         THEN /\ panicked' = "activated empty clause"
              /\ UNCHANGED <<trailVars, occs>>
         ELSE /\ AddClause(kept)
              /\ occs' = Occurring(kept, Len(cls) + 1, isActive')
              /\ UNCHANGED panicked
      /\ UNCHANGED gcVars

AtLevel0 == mode = "idle" /\ px = CNull /\ Level = 0 /\ panicked = "no"

(* What a caller has to verify before it activates the literals added; a   *)
(* client with the discipline "true" also activates no clause which is     *)
(* true already.                                                           *)
Activatable(ms) ==
  /\ AtLevel0 /\ MayStore
  /\ \E k \in DOMAIN ms : ~ IsFalse(ms[k])
  /\ "true" \in Discipline => \A k \in DOMAIN ms : ~ IsTrue(ms[k])

(* S.Activate. *)
Activate(ms) ==
  /\ Activatable(ms)
  /\ \E m \in LitSet :
       /\ NextLit(m)
       /\ made' = made \cup {Var(m)}
       /\ free' = IF free = <<>> THEN free ELSE Front(free)
       /\ ActivateWith(m, ms)
  /\ act' = TRUE

(* S.ActivateWith, with a literal that is active already. *)
ActivateMore(m, ms) ==
  /\ Activatable(ms)
  /\ Var(m) \in isActive
  /\ ActivateWith(m, ms)
  /\ UNCHANGED <<free, made, act>>

(* Mutant: the literal stays active for learning. *)
DeactivateKeepsOccs(m) ==
  /\ AtLevel0 /\ Var(m) \in isActive
  /\ "assigned" \in Discipline => IsFree(m)
  /\ Enqueue(Sub(occs[Var(m)], {k \in DOMAIN occs[Var(m)] : occs[Var(m)][k] \in added}), learnts,
             [occs EXCEPT ![Var(m)] = <<>>])
  /\ free' = Append(free, Pos(Var(m)))
  /\ isActive' = isActive \ {Var(m)}
  /\ UNCHANGED <<stopWatch, made, act, panicked>>

(* Active.Deactivate removes the clauses in which m occurs and recycles m. *)
(* Added and Learnts keep the removed clauses until they are freed.  A     *)
(* client with the discipline "assigned" does not deactivate a literal     *)
(* that has a value at level 0.                                            *)
Deactivate(m) ==
  /\ AtLevel0 /\ Var(m) \in isActive
  /\ "assigned" \in Discipline => IsFree(m)
  /\ Enqueue(occs[Var(m)], learnts, [occs EXCEPT ![Var(m)] = <<>>])
  /\ free' = Append(free, Pos(Var(m)))
  /\ isActive' = isActive \ {Var(m)}
  /\ UNCHANGED <<stopWatch, made, act, panicked>>

(***************************************************************************)
(* The other steps of the solver, as in Trail.                             *)
(***************************************************************************)
Known(m) == Var(m) \notin ActVars \ made

SearchStep ==
  \/ PropStep \/ BackStep \/ ClientProp
  \/ \E c \in learnts \cap Live : c = Len(cls) /\ ClientAssert(c)
  \/ \E l \in 0 .. Level : ClientBack(l)

Decide(m) ==
  /\ Known(m)
  /\ ClientAssume(m) \/ \E popped \in SUBSET heap : ClientGuess(m, popped)

Add(ms) == panicked = "no" /\ MayStore /\ ClientAdd(ms)

Trailing == SearchStep \/ (\E m \in LitSet : Decide(m)) \/ \E ms \in AddSpace : Add(ms)

Activation ==
  \E ms \in AddSpace : Activate(ms) \/ \E v \in isActive : ActivateMore(Pos(v), ms)

CgcNext ==
  \/ Trailing /\ UNCHANGED <<gcVars, actVars>>
  \/ \E ms \in ClauseSpace : LearnClause(ms)
  \/ Activation
  \/ MaybeCompact \/ CheckModel
  \/ \E v \in isActive : Deactivate(Pos(v))

CgcSpec == CgcInit /\ [][CgcNext]_cgcVars

-----------------------------------------------------------------------------
(* The reasons survive relocation: every assigned literal is the first of  *)
(* its reason, which is not removed, or has none and opened a level.       *)
(* Derive, Why and the next InUse read the clause at that location.        *)
ReasonsLive ==
  /\ ReasonFirst
  /\ \A i \in DOMAIN D :
       LET v == Var(D[i])
       IN  IF reasons[v] = CNull THEN levels[v] > 0 ELSE reasons[v] \in Live

(* Every live clause is watched by its first two literals, and a removed   *)
(* clause by none, whether clauses were unlinked or moved meanwhile; Prop  *)
(* would otherwise miss units or read freed memory.                        *)
LiveWatched ==
  /\ \A m \in LitSet :
       /\ WatchesOnce(m)
       /\ \A i \in DOMAIN watches[m] :
            WatchOK(m, watches[m][i]) /\ watches[m][i].c \in Live
  /\ \A c \in Live : Len(cls[c]) >= 2 => \A m \in Watched(c) : Watches(m, c)
  /\ Live \subseteq added \cup learnts

(* A deactivated literal is clean: it is in no live clause, has no         *)
(* occurrences left and no value of level 0, so that it can be activated   *)
(* again; and the clauses of an active literal can all be found.           *)
FreeLitsClean ==
  /\ \A i \in DOMAIN free :
       LET v == Var(free[i])
       IN  /\ v \notin isActive /\ occs[v] = <<>>
           /\ \A c \in Live : \A k \in DOMAIN cls[c] : Var(cls[c][k]) # v
           /\ ~ IsFree(free[i]) => levels[v] # 0
           /\ \A j \in DOMAIN free : free[i] = free[j] => i = j
  /\ \A v \in isActive : \A c \in Live :
       (\E k \in DOMAIN cls[c] : Var(cls[c][k]) = v) => c \in ToSet(occs[v])

LiveAdded == {ToSet(cls[c]) : c \in added \cap Live}

(* Only Deactivate takes a clause out of the problem, and then one with    *)
(* the deactivated literal: collecting, unlinking and moving clauses loses *)
(* none and changes none.                                                  *)
GcKeepsProblem ==
  [][\A ms \in LiveAdded :
       \/ ms \in LiveAdded'
       \/ \E v \in isActive \ isActive' : Not(Pos(v)) \in ms]_cgcVars
=============================================================================
