------------------------------ MODULE MCStore -------------------------------
EXTENDS Cgc, Guess, ClauseData

(***************************************************************************)
(* The clause collector, the guess heap and the clause memory, each on its *)
(* own: part says which of them runs, and the others stay as they begin.   *)
(***************************************************************************)
VARIABLE part

storeVars == <<cgcVars, guessVars, dataVars, part>>

(* 2 is x1, 3 its negation; 4 and 6 are the activation literals; 8 is x4.  *)
MCAddSpace == {<<2, 8>>, <<3, 8>>, <<9>>, <<8>>}
MCLearnSpace ==
  {<<5>>, <<7>>, <<7, 5>>, <<8, 5>>, <<8, 7, 5>>, <<8, 5, 7>>}
MCActVars == {2, 3}

(* The client, with fewer choices: it assumes active literals and then     *)
(* guesses negative ones, each kind in one order, goes back one level or   *)
(* to 0 after a conflict and to 0 from a full assignment, learns a clause  *)
(* that is false, and adds no clause twice.                                *)
Highest(S) == {v \in S : \A u \in S : u <= v}
Lowest(S) == {v \in S : \A u \in S : v <= u}
Unset(S) == {v \in S : Known(Pos(v)) /\ IsFree(Pos(v))}
NoGuess == \A i \in DOMAIN D : reasons[Var(D[i])] = CNull => D[i] = Pos(Var(D[i]))
New(ms) == \A c \in Live : ToSet(cls[c]) # ToSet(ms)
NewAct(ms) == \A c \in Live : ~ ToSet(ms) \subseteq ToSet(cls[c])
AllFalse(ms) == \A k \in DOMAIN ms : IsFalse(ms[k])
MayReturn(l) == px # CNull \/ (l = 0 /\ Unset(VarSet) = {})
Popped == {v \in heap : ~ IsFree(Pos(v))}

MCTrail ==
  \/ PropStep \/ BackStep
  \/ \E c \in learnts \cap Live : c = Len(cls) /\ ClientAssert(c)
  \/ ClientProp /\ head < Len(D)
  \/ \E l \in {0, Level - 1} : l \in Nat /\ MayReturn(l) /\ ClientBack(l)
  \/ \E v \in Highest(Unset(VarSet)) : panicked = "no" /\ ClientGuess(Not(Pos(v)), Popped)
  \/ \E v \in Lowest(Unset(isActive)) : NoGuess /\ panicked = "no" /\ ClientAssume(Pos(v))
  \/ \E ms \in {<<3, 8>>, <<8>>} : cls = <<>> /\ Add(ms)

MCCgc ==
  \/ MCTrail /\ UNCHANGED <<gcVars, actVars>>
  \/ \E ms \in ClauseSpace : AllFalse(ms) /\ New(ms) /\ LearnClause(ms)
  \/ \E ms \in {<<2, 8>>, <<3, 8>>} : NewAct(ms) /\ Activate(ms)
  \/ \E v \in Lowest(isActive) : NewAct(<<9>>) /\ ActivateMore(Pos(v), <<9>>)
  \/ MaybeCompact \/ CheckModel
  \/ \E v \in isActive : Deactivate(Pos(v))

(* The guess heap: a variable is bumped while it is assigned; literals are  *)
(* unassigned from the highest, and propagated from the lowest.  The       *)
(* header of the clause of three literals says it has none.                *)
MCGuessClauses == {<<2, 5>>, <<5>>, <<3, 4, 6>>}

MCGuess ==
  \/ asg = {} /\ (PhasesInit \/ GuessDecay)
  \/ \E v, u \in VarSet : EnsureLitCap(v, u)
  \/ phases = max /\ GuessGuess
  \/ \E v \in VarSet :
       /\ phases = max /\ asg # {} /\ \A u \in 1 .. (v - 1) : Assigned(u)
       /\ Propagate(Pos(v))
  \/ \E m \in asg : (\A k \in asg : k <= m) /\ Push(m)
  \/ \E v \in VarSet : Bump(v)

(* The clause memory: the clause of five literals is an added one. *)
MCDataClauses == {<<2>>, <<2, 4, 6, 8>>, <<3, 5, 7, 9, 2>>}

MCData ==
  \/ \E ms \in DataClauses : AddLits(ms, Len(ms) # 5, 3)
  \/ \E k \in DOMAIN stored : BumpClause(k)
  \/ DataDecay
  \/ \E R \in SUBSET Range(locs) : R # {} /\ Compact(R)

MCInit ==
  /\ CgcInit /\ GuessInit /\ DataInit
  /\ part \in {"cgc", "guess", "data"}
  /\ <<top, max>> \in {<<2, 1>>, <<NVars, NVars - 2>>}

MCStep ==
  /\ UNCHANGED part
  /\ \/ part = "cgc" /\ MCCgc /\ UNCHANGED <<guessVars, dataVars>>
     \/ part = "guess" /\ MCGuess /\ UNCHANGED <<cgcVars, dataVars>>
     \/ part = "data" /\ MCData /\ UNCHANGED <<cgcVars, guessVars>>

MCSpec == MCInit /\ [][MCStep]_storeVars
=============================================================================
