--------------------------------- MODULE Sv ---------------------------------
(***************************************************************************)
(* z.Vars, which maps the variables of a user to those of an application   *)
(* and lets the application take variables of its own in between; and      *)
(* gini's svWrap, which puts such a map in front of a solver.              *)
(*                                                                         *)
(* The maps are functions from 0 .. n - 1, as the slices of the code; a    *)
(* variable that is asked for beyond the end makes its slice longer.  The  *)
(* solver is reduced to the unit clauses and assumptions it was given.     *)
(***************************************************************************)
EXTENDS Lits, FiniteSets, Sequences

CONSTANT MaxInner  \* bound on the length of i2o

VARIABLES
  i2o,     \* Vars.i2o, the user's variable or 0
  o2i,     \* Vars.o2i
  freed,   \* Vars.free
  inners,  \* the variables which Inner returned and Free has not had back
  units,   \* the units the solver has
  assumed, \* what the solver assumes in its next Solve
  said,    \* what the user added and assumed, [units, assumed]
  solved   \* what Solve returned, and what it should have

svVars == <<i2o, o2i, freed, inners, units, assumed, said, solved>>

Empty == [i \in {} |-> 0]

NewVars == i2o = Empty /\ o2i = Empty /\ freed = <<>> /\ inners = {}

SvInit ==
  /\ NewVars
  /\ units = {} /\ assumed = {}
  /\ said = [units |-> {}, assumed |-> {}] /\ solved = [is |-> 0, should |-> 0]

Length(f) == Cardinality(DOMAIN f)

(* Mutant: a new variable of the user has the same number inside. *)
OuterSame(w) ==
  LET n == Length(o2i)
  IN  /\ o2i' = [o \in 0 .. (IF w < n THEN n - 1 ELSE w) |-> o]
      /\ i2o' = [i \in (DOMAIN i2o \cup DOMAIN o2i') |-> IF i \in DOMAIN o2i' THEN i ELSE i2o[i]]

(* Vars.ensureOuterCap: every variable up to w gets the next inner one. *)
EnsureOuterCap(w) ==
  LET n == Length(o2i)
      k == Length(i2o)
      more == IF w < n THEN 0 ELSE w + 1 - n
  IN  /\ o2i' = [o \in 0 .. (n + more - 1) |-> IF o < n THEN o2i[o] ELSE k + (o - n)]
      /\ i2o' = [i \in 0 .. (k + more - 1) |-> IF i < k THEN i2o[i] ELSE n + (i - k)]

(* Vars.ensureInnerCap. *)
EnsureInnerCap(w) ==
  i2o' = [i \in DOMAIN i2o \cup (0 .. w) |-> IF i \in DOMAIN i2o THEN i2o[i] ELSE 0]

SignAs(m, w) == IF m = Pos(Var(m)) THEN Pos(w) ELSE Not(Pos(w))

(* What Vars.ToInner and Vars.ToOuter return once the maps are long enough. *)
InnerOf(m) == SignAs(m, o2i'[Var(m)])
OuterOf(m) == IF i2o'[Var(m)] = 0 THEN LitNull ELSE SignAs(m, i2o'[Var(m)])

(* Vars.Inner: a freed variable, or a new one at the end of i2o.           *)
Inner ==
  /\ IF freed # <<>>
     THEN /\ freed' = SubSeq(freed, 1, Len(freed) - 1)
          /\ inners' = inners \cup {freed[Len(freed)]}
          /\ UNCHANGED i2o
     ELSE /\ Length(i2o) < MaxInner
          /\ EnsureInnerCap(Length(i2o))
          /\ inners' = inners \cup {Length(i2o)}
          /\ UNCHANGED freed
  /\ UNCHANGED <<o2i, units, assumed, said, solved>>

(* Vars.Free, of a variable which Inner returned. *)
FreeInner(v) ==
  /\ v \in inners
  /\ freed' = Append(freed, v) /\ inners' = inners \ {v}
  /\ UNCHANGED <<i2o, o2i, units, assumed, said, solved>>

(* Vars.ToOuter of a literal the application knows, as in Why and Test. *)
ToOuter(v) ==
  /\ v < MaxInner /\ EnsureInnerCap(v)
  /\ UNCHANGED <<o2i, freed, inners, units, assumed, said, solved>>

(* svWrap.Assume. *)
SvAssume(m) ==
  /\ EnsureOuterCap(Var(m))
  /\ assumed' = assumed \cup {InnerOf(m)}
  /\ said' = [said EXCEPT !.assumed = @ \cup {m}]
  /\ UNCHANGED <<freed, inners, units, solved>>

(* svWrap.Add of a clause of one literal: the solver gets it as it is. *)
SvAdd(m) ==
  /\ units' = units \cup {m}
  /\ said' = [said EXCEPT !.units = @ \cup {m}]
  /\ UNCHANGED <<i2o, o2i, freed, inners, assumed, solved>>

Consistent(S) == \A m \in S : Not(m) \notin S

Answer(S) == IF Consistent(S) THEN 1 ELSE -1

(* svWrap.Solve: the solver answers and forgets its assumptions. *)
SvSolve ==
  /\ solved' = [is |-> Answer(units \cup assumed), should |-> Answer(said.units \cup said.assumed)]
  /\ assumed' = {} /\ said' = [said EXCEPT !.assumed = {}]
  /\ UNCHANGED <<i2o, o2i, freed, inners, units>>

SvNext ==
  \/ Inner
  \/ \E v \in inners : FreeInner(v)
  \/ \E v \in 0 .. (MaxInner - 1) : ToOuter(v)
  \/ \E m \in LitSet : SvAssume(m) \/ SvAdd(m)
  \/ SvSolve

(* In the maps of z.Vars the variables of the user and those the           *)
(* application took never meet, in whatever order they are asked for and   *)
(* freed, and a variable of the user keeps its way back: the promise of    *)
(* the documents of Vars and of inter.Sv.                                  *)
VarsInverse ==
  /\ \A o \in DOMAIN o2i : o # 0 => o2i[o] \in DOMAIN i2o /\ i2o[o2i[o]] = o
  /\ \A v \in inners \cup {freed[k] : k \in DOMAIN freed} :
       v \in DOMAIN i2o /\ i2o[v] = 0 /\ \A o \in DOMAIN o2i \ {0} : o2i[o] # v
  /\ \A k \in DOMAIN freed :
       freed[k] \notin inners /\ \A j \in DOMAIN freed : freed[j] = freed[k] => j = k

(* A user of svWrap need not know that there are inner variables: Solve    *)
(* answers what the clauses and the assumptions of the user make it.  Not  *)
(* so: Add passes literals on as they are, Assume and Value map them.      *)
SolveFits == solved.is = solved.should
=============================================================================
