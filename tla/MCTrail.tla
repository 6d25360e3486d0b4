------------------------------ MODULE MCTrail -------------------------------
EXTENDS Trail, TLC

(* Clauses over three variables, of one to three literals: 2 is x1, 3 its  *)
(* negation, 4 and 5 those of x2, 6 and 7 those of x3.                     *)
MCClauseSpace ==
  {<<3>>, <<3, 4>>, <<5, 3>>, <<3, 5, 6>>, <<3, 7, 5>>}

(* The clients of the trail, with fewer choices: no clause twice, one kind *)
(* of guess, assumptions before guesses in the order of the variables, and *)
(* returns to the level below or to level 0.                               *)
New(ms) == \A c \in Clauses : ToSet(cls[c]) # ToSet(ms)
FirstFree == {v \in VarSet : IsFree(Pos(v)) /\ \A u \in 1 .. (v - 1) : ~ IsFree(Pos(u))}
Assigned == {v \in heap : ~ IsFree(Pos(v))}

MCClient ==
  \/ \E ms \in ClauseSpace : MayStore /\ New(ms) /\ (ClientAdd(ms) \/ ClientLearn(ms))
  \/ \E c \in Clauses \ added : ClientAssert(c)
  \/ \E v \in FirstFree : \E m \in {Pos(v), Not(Pos(v))} :
       ClientAssume(m) \/ ClientGuess(m, Assigned)
  \/ ClientGuessNone
  \/ ClientProp /\ head < Len(D)
  \/ \E l \in {0, Level - 1} : l \in Nat /\ ClientBack(l)

MCNext == MCClient \/ PropStep \/ BackStep

MCSpec == TrailInit /\ [][MCNext]_trailVars /\ WF_trailVars(PropStep) /\ WF_trailVars(BackStep)
=============================================================================
