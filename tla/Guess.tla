------------------------------- MODULE Guess --------------------------------
(***************************************************************************)
(* xo.Guess, the heap of the variables to guess, ordered by heat, and the  *)
(* phase of a variable, which says what value to guess.                    *)
(*                                                                         *)
(* The slice vhp is the heap and pos its inverse, here from 1, with 0 for  *)
(* a variable that is not in it.  Heats are small numbers, and scaling     *)
(* them divides; in the code they are floating point numbers.  The trail   *)
(* is represented by the set of the assigned literals.                     *)
(***************************************************************************)
EXTENDS Lits, Sequences, FiniteSets, FiniteSetsExt

CONSTANTS
  GuessClauses, \* the clauses, each there as soon as its variables are known
  Short,        \* clauses shorter than this count for heats and phases
  HeadMod,      \* what is kept of a clause's length: its remainder
  BumpLim,      \* Guess.bumpLim
  MaxInc        \* bound on Guess.bumpInc

ASSUME GuessAssumption ==
  /\ IsFiniteSet(GuessClauses) /\ Short \in Nat /\ HeadMod \in Nat \ {0}
  /\ BumpLim \in Nat \ {0} /\ MaxInc \in Nat \ {0}

VARIABLES
  vhp,     \* Guess.vhp
  pos,     \* Guess.pos
  heat,    \* Guess.heat
  cache,   \* Guess.cache, the last value of each variable, or its phase
  bumpInc, \* Guess.bumpInc
  top,     \* Vars.Top, the greatest variable of the heap's arrays
  max,     \* Vars.Max, the greatest variable the client used
  phases,  \* S.phases, the greatest variable when phases were set
  asg      \* the assigned literals

guessVars == <<vhp, pos, heat, cache, bumpInc, top, max, phases, asg>>

Hp == [vhp |-> vhp, pos |-> pos]

(* Mutant: the positions are not exchanged. *)
SwapKeepsPos(h, i, j) ==
  [h EXCEPT !.vhp = [@ EXCEPT ![i] = h.vhp[j], ![j] = h.vhp[i]]]

Swap(h, i, j) ==
  [vhp |-> [h.vhp EXCEPT ![i] = h.vhp[j], ![j] = h.vhp[i]],
   pos |-> [h.pos EXCEPT ![h.vhp[i]] = j, ![h.vhp[j]] = i]]

(* Mutant: with two children, the left one is compared. *)
ChildLeft(h, ht, i, n) == 2 * i

(* The hotter child of i in the first n, the right one if they are equal. *)
Child(h, ht, i, n) ==
  IF 2 * i < n /\ ht[h.vhp[2 * i]] <= ht[h.vhp[2 * i + 1]] THEN 2 * i + 1 ELSE 2 * i

(* The state of a loop after n rounds of its body, which does nothing more *)
(* when the loop has ended; par is what the loop leaves as it is.          *)
Rounds(Body(_, _), s, par, n) ==
  LET f[k \in 0 .. n] == IF k = 0 THEN s ELSE Body(f[k - 1], par)
  IN  f[n]

UpBody(s, ht) ==
  LET i == s.j \div 2
  IN  IF i = 0 \/ ht[s.h.vhp[s.j]] <= ht[s.h.vhp[i]] THEN s
      ELSE [h |-> Swap(s.h, i, s.j), j |-> i]

Up(h, ht, j) == Rounds(UpBody, [h |-> h, j |-> j], ht, Len(h.vhp)).h

DownBody(s, par) ==
  LET j == Child(s.h, par.heat, s.i, par.n)
  IN  IF 2 * s.i > par.n \/ par.heat[s.h.vhp[j]] <= par.heat[s.h.vhp[s.i]] THEN s
      ELSE [h |-> Swap(s.h, s.i, j), i |-> j]

Down(h, ht, i, n) ==
  Rounds(DownBody, [h |-> h, i |-> i], [heat |-> ht, n |-> n], n).h

HeapifyBody(s, ht) ==
  IF s.i = 0 THEN s
  ELSE [h |-> Down(s.h, ht, s.i, Len(s.h.vhp)), i |-> s.i - 1]

Heapify(h, ht) ==
  Rounds(HeapifyBody, [h |-> h, i |-> Len(h.vhp) \div 2], ht, Len(h.vhp)).h

Pop(h, ht) ==
  LET n == Len(h.vhp)
      g == Down(Swap(h, 1, n), ht, 1, n - 1)
  IN  [vhp |-> SubSeq(g.vhp, 1, n - 1), pos |-> [g.pos EXCEPT ![g.vhp[n]] = 0]]

SetHeap(h) == vhp' = h.vhp /\ pos' = h.pos

(* Chd.Size: long clauses are taken for short ones. *)
HeaderSize(c) == Len(c) % HeadMod

Shorts ==
  {c \in GuessClauses : HeaderSize(c) < Short /\ \A k \in DOMAIN c : Var(c[k]) <= max}

(* Where m occurs; a stored clause has no more literals than variables. *)
Occurrences(m) ==
  {o \in Shorts \X VarSet : o[2] <= Len(o[1]) /\ o[1][o[2]] = m}

(* NewGuessCdb: a variable is hotter the more often it occurs. *)
GuessInit ==
  /\ top \in VarSet /\ max \in 0 .. (top - 1)
  /\ heat = [v \in VarSet |-> Cardinality(Occurrences(Pos(v)) \cup Occurrences(Not(Pos(v))))]
  /\ LET h == Heapify([vhp |-> [i \in 1 .. max |-> i],
                       pos |-> [v \in VarSet |-> IF v > max THEN 0 ELSE v]],
                      heat)
     IN  vhp = h.vhp /\ pos = h.pos
  /\ cache = [v \in VarSet |-> 0] /\ bumpInc = 1 /\ phases = 0 /\ asg = {}

Assigned(v) == {Pos(v), Not(Pos(v))} \cap asg # {}

(* phases.init: the sign which satisfies more, and rather shorter, clauses, *)
(* of which it reads as many literals as the header says.                  *)
Weight(m) ==
  MapThenSumSet(LAMBDA o : 2 ^ (Short - HeaderSize(o[1])),
                {o \in Occurrences(m) : o[2] <= HeaderSize(o[1])})

PhasesInit ==
  /\ phases # max
  /\ cache' = [v \in VarSet |-> IF v > max THEN cache[v]
                 ELSE IF Weight(Pos(v)) > Weight(Not(Pos(v))) THEN 1 ELSE -1]
  /\ phases' = max
  /\ UNCHANGED <<vhp, pos, heat, bumpInc, top, max, asg>>

PopBody(s, ht) ==
  IF s.h.vhp = <<>> \/ s.v # 0 THEN s
  ELSE LET u == s.h.vhp[1] IN [h |-> Pop(s.h, ht), v |-> IF Assigned(u) THEN 0 ELSE u]

(* The heap without the variables up to the first free one, v, if any. *)
PopFree == Rounds(PopBody, [h |-> Hp, v |-> 0], heat, Len(vhp))

(* Guess.Guess, and the assignment of what it returns, in its phase. *)
GuessGuess ==
  LET r == PopFree
  IN  /\ SetHeap(r.h)
      /\ asg' = IF r.v = 0 THEN asg
                ELSE asg \cup {IF cache[r.v] = -1 THEN Not(Pos(r.v)) ELSE Pos(r.v)}
      /\ UNCHANGED <<heat, cache, bumpInc, top, max, phases>>

(* A variable is assigned by propagation: it stays in the heap. *)
Propagate(m) ==
  /\ Var(m) <= max /\ ~ Assigned(Var(m))
  /\ asg' = asg \cup {m}
  /\ UNCHANGED <<vhp, pos, heat, cache, bumpInc, top, max, phases>>

Behind(h, v) ==
  [vhp |-> Append(h.vhp, v), pos |-> [h.pos EXCEPT ![v] = Len(h.vhp) + 1]]

(* Mutant: the heap is appended to but not repaired. *)
WithVarNoUp(h, ht, v) == IF h.pos[v] # 0 THEN h ELSE Behind(h, v)

(* The heap after Guess.Push of a literal of v, at heats ht. *)
WithVar(h, ht, v) == IF h.pos[v] # 0 THEN h ELSE Up(Behind(h, v), ht, Len(h.vhp) + 1)

(* Guess.Push, when Back unassigns m. *)
Push(m) ==
  /\ m \in asg /\ asg' = asg \ {m}
  /\ cache' = [cache EXCEPT ![Var(m)] = IF m = Pos(Var(m)) THEN 1 ELSE -1]
  /\ SetHeap(WithVar(Hp, heat, Var(m)))
  /\ UNCHANGED <<heat, bumpInc, top, max, phases>>

(* Guess.Bump of an assigned variable, which scales all heats when one     *)
(* exceeds the limit.                                                      *)
Bump(v) ==
  LET hot    == [heat EXCEPT ![v] = @ + bumpInc]
      scales == hot[v] > BumpLim
      ht     == IF scales THEN [u \in VarSet |-> hot[u] \div BumpLim] ELSE hot
  IN  /\ v <= max /\ Assigned(v)
      /\ heat' = ht
      /\ bumpInc' = IF scales THEN 1 ELSE bumpInc
      /\ IF pos[v] = 0 THEN UNCHANGED <<vhp, pos>>
         ELSE SetHeap(LET h == Down(Hp, ht, pos[v], Len(vhp)) IN Up(h, ht, pos[v]))
      /\ UNCHANGED <<cache, top, max, phases, asg>>

(* Guess.Decay: later bumps count more. *)
GuessDecay ==
  /\ bumpInc < MaxInc /\ bumpInc' = bumpInc + 1
  /\ UNCHANGED <<vhp, pos, heat, cache, top, max, phases, asg>>

(* The heap after Guess.growToVar: the new variables, from top + 1 to u,   *)
(* are put behind and the heap is made again.                              *)
GrowToVar(u) ==
  LET n == Len(vhp)
      h == [vhp |-> vhp \o [i \in 1 .. (u - top) |-> top + i],
            pos |-> [v \in VarSet |-> IF v \in (top + 1) .. u THEN n + v - top ELSE pos[v]]]
  IN  Heapify(h, heat)

PushBody(s, par) ==
  IF s.v > par.last THEN s ELSE [h |-> WithVar(s.h, par.heat, s.v), v |-> s.v + 1]

(* S.ensureLitCap, when the client uses variable v for the first time: the *)
(* arrays double until they have it, and the variables up to it are        *)
(* pushed, those which growToVar did not put into the heap.                *)
EnsureLitCap(v, u) ==
  /\ max < v /\ max' = v
  /\ \/ v < top /\ u = top
     \/ top <= v /\ v < u /\ u \div 2 <= v /\ \E k \in 1 .. v : u = top * 2 ^ k
  /\ top' = u
  /\ LET h == IF u = top THEN Hp ELSE GrowToVar(u)
     IN  SetHeap(Rounds(PushBody, [h |-> h, v |-> max + 1], [heat |-> heat, last |-> v], v).h)
  /\ cache' = [w \in VarSet |-> IF w \in (max + 1) .. v THEN 1 ELSE cache[w]]
  /\ UNCHANGED <<heat, bumpInc, phases, asg>>

GuessNext ==
  \/ PhasesInit \/ GuessGuess \/ GuessDecay
  \/ \E m \in LitSet : Propagate(m) \/ Push(m)
  \/ \E v \in VarSet : Bump(v) \/ \E u \in VarSet : EnsureLitCap(v, u)

GuessSpec == GuessInit /\ [][GuessNext]_guessVars

-----------------------------------------------------------------------------
(* The heap stays one, over bumps, scalings, growth and variables that     *)
(* come back: pos inverts vhp, a parent is as hot as its children, and     *)
(* every free variable the client used is in it, so that Guess finds the   *)
(* hottest.                                                                *)
HeapSound ==
  /\ \A i \in DOMAIN vhp : pos[vhp[i]] = i
  /\ \A v \in VarSet : pos[v] # 0 => pos[v] \in DOMAIN vhp /\ vhp[pos[v]] = v
  /\ \A i \in 2 .. Len(vhp) : heat[vhp[i]] <= heat[vhp[i \div 2]]
  /\ \A v \in 1 .. max : ~ Assigned(v) => pos[v] # 0
=============================================================================
