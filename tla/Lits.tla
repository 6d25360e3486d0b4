-------------------------------- MODULE Lits --------------------------------
(***************************************************************************)
(* Literals and variables as package z codes them: variable v has the      *)
(* positive literal 2v and the negative literal 2v+1; 0 is LitNull.  The   *)
(* arrays of the solver are indexed from 0, so the index 0 of a variable   *)
(* and the indices 0 and 1 of a literal exist but stand for nothing.       *)
(***************************************************************************)
EXTENDS Integers

CONSTANT NVars                  \* the number of variables the solver knows

ASSUME NVarsAssumption == NVars \in Nat \ {0}

LitNull == 0

VarSet   == 1 .. NVars          \* real variables
VarIndex == 0 .. NVars          \* indices of Vars.Levels, Vars.Reasons
LitSet   == 2 .. (2 * NVars + 1)  \* real literals
LitIndex == 0 .. (2 * NVars + 1)  \* indices of Vars.Vals, Vars.Watches

Var(m) == m \div 2

Not(m) == IF m % 2 = 0 THEN m + 1 ELSE m - 1

Pos(v) == 2 * v
=============================================================================
