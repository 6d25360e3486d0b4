------------------------------- MODULE Trail --------------------------------
(***************************************************************************)
(* The assignment trail of the solver with its two-watched-literal unit    *)
(* propagation: xo.Trail (Assign, Back, Prop), the arrays of xo.Vars, the  *)
(* clause database operations that link clauses into the watch lists       *)
(* (xo.Cdb Add and Learn), and which variables the guess heap holds.       *)
(*                                                                         *)
(* A clause is a sequence of literals, in the order of the code's memory:  *)
(* Prop permutes it, and positions 1 and 2 are the watched ones.  A clause *)
(* location (z.C) is the index of the clause in cls, CNull is 0.           *)
(*                                                                         *)
(* Prop and Back are loops and are modelled one iteration per step; mode   *)
(* says which loop is running and is "idle" when none is.  The actions up  *)
(* to BackStop are what the code does; the Client actions below them are   *)
(* the contract under which xo.S drives the trail.                         *)
(***************************************************************************)
EXTENDS Lits, Sequences, SequencesExt

VARIABLES
  D,        \* Trail.D[:Tail], the assigned literals in order
  head,     \* Trail.Head, how many of them are propagated
  Level,    \* Trail.Level, the number of open decision levels
  vals,     \* Vars.Vals, 1 true, -1 false, 0 unassigned
  levels,   \* Vars.Levels, -1 after a variable is unassigned
  reasons,  \* Vars.Reasons, the clause which implied a variable
  watches,  \* Vars.Watches, for each literal the clauses watching it
  cls,      \* CDat, the literals of every clause
  added,    \* Cdb.Added, the clauses which come from Add
  bot,      \* Cdb.Bot, the empty clause if there is one
  heap,     \* Guess.vhp as a set, the candidates for a guess
  mode,     \* which loop is running
  pm,       \* m of Prop, the false literal whose watches are visited
  pi,       \* i of Prop, the position in watches[pm]
  px,       \* what Prop last returned, until its level is undone
  trg       \* trgLevel of Back

assignVars == <<D, Level, vals, levels, reasons>>
clauseVars == <<watches, cls, added, bot>>
loopVars   == <<mode, pm, pi, px, trg>>
trailVars  == <<D, head, Level, vals, levels, reasons, watches, cls, added,
                bot, heap, mode, pm, pi, px, trg>>

CONSTANTS
  ClauseSpace,  \* the clauses a client may add or learn
  MaxClauses    \* bound on the number of clauses stored

ASSUME ClauseSpaceAssumption == \A ms \in ClauseSpace : ms \in Seq(LitSet)
ASSUME MaxClausesAssumption == MaxClauses \in Nat

CNull == 0

Clauses == 1 .. Len(cls)

(* A watch: clause, blocking literal, and whether the clause is binary. *)
MakeWatch(c, o, bin) == [c |-> c, o |-> o, bin |-> bin]

IsFalse(m) == vals[m] = -1
IsTrue(m)  == vals[m] = 1
IsFree(m)  == vals[m] = 0

TrailInit ==
  /\ D = <<>> /\ head = 0 /\ Level = 0
  /\ vals = [m \in LitIndex |-> 0]
  /\ levels = [v \in VarIndex |-> 0]
  /\ reasons = [v \in VarIndex |-> CNull]
  /\ watches = [m \in LitIndex |-> <<>>]
  /\ cls = <<>> /\ added = {} /\ bot = CNull
  /\ heap = VarSet
  /\ mode = "idle" /\ pm = LitNull /\ pi = 0 /\ px = CNull /\ trg = 0

(***************************************************************************)
(* Trail.Assign: push m with reason c; a literal without reason opens a    *)
(* new level.                                                              *)
(***************************************************************************)
Assign(m, c) ==
  /\ D' = Append(D, m)
  /\ Level' = IF c = CNull THEN Level + 1 ELSE Level
  /\ levels' = [levels EXCEPT ![Var(m)] = Level']
  /\ reasons' = [reasons EXCEPT ![Var(m)] = c]
  /\ vals' = [vals EXCEPT ![m] = 1, ![Not(m)] = -1]

(***************************************************************************)
(* Cdb.Add (after simplification) and Cdb.Learn store the clause and, if   *)
(* it has at least two literals, watch the first two.                      *)
(***************************************************************************)
Link(ms) ==
  LET c == Len(cls) + 1
      bin == Len(ms) = 2
  IN  /\ cls' = Append(cls, ms)
      /\ watches' = IF Len(ms) < 2 THEN watches
                    ELSE [watches EXCEPT
                            ![ms[1]] = Append(@, MakeWatch(c, ms[2], bin)),
                            ![ms[2]] = Append(@, MakeWatch(c, ms[1], bin))]

(* S.Add: an added unit is assigned at once, an added empty clause is Bot. *)
AddClause(ms) ==
  LET c == Len(cls) + 1
  IN  /\ Link(ms)
      /\ added' = added \cup {c}
      /\ bot' = IF ms = <<>> THEN c ELSE bot
      /\ IF Len(ms) = 1 THEN Assign(ms[1], c) ELSE UNCHANGED assignVars
      /\ UNCHANGED <<head, heap, loopVars>>

Learn(ms) ==
  /\ Link(ms)
  /\ UNCHANGED <<assignVars, head, added, bot, heap, loopVars>>

(***************************************************************************)
(* Trail.Prop.                                                             *)
(***************************************************************************)
StartProp ==
  /\ mode = "idle"
  /\ mode' = "prop" /\ px' = CNull
  /\ UNCHANGED <<assignVars, head, clauseVars, heap, pm, pi, trg>>

(* The outer loop takes the next literal of the trail ... *)
PropTake ==
  /\ mode = "prop" /\ head < Len(D)
  /\ pm' = Not(D[head + 1])
  /\ head' = head + 1
  /\ pi' = 1 /\ mode' = "visit"
  /\ UNCHANGED <<assignVars, clauseVars, heap, px, trg>>

(* ... or is done, and no conflict was found. *)
PropReturn ==
  /\ mode = "prop" /\ head = Len(D)
  /\ mode' = "idle"
  /\ UNCHANGED <<assignVars, head, clauseVars, heap, pm, pi, px, trg>>

(* All watches of pm are visited. *)
PropNext ==
  /\ mode = "visit" /\ pi > Len(watches[pm])
  /\ mode' = "prop" /\ pm' = LitNull /\ pi' = 0
  /\ UNCHANGED <<assignVars, head, clauseVars, heap, px, trg>>

Visiting == mode = "visit" /\ pi <= Len(watches[pm])
TheWatch == watches[pm][pi]

(* The watched literal of clause q which is not pm. *)
OtherWatched(q) == IF cls[q][1] = pm THEN cls[q][2] ELSE cls[q][1]

KeepWatch == pi' = pi + 1 /\ UNCHANGED <<head, watches, mode, pm, px>>

(* Mutant: the literals behind the conflict stay to be propagated. *)
ReturnKeepHead(q) ==
  /\ px' = q
  /\ mode' = "idle" /\ pm' = LitNull /\ pi' = 0
  /\ UNCHANGED <<assignVars, watches, head>>

(* A conflict ends Prop: the rest of the trail counts as propagated. *)
ReturnConflict(q) ==
  /\ px' = q
  /\ head' = Len(D)
  /\ mode' = "idle" /\ pm' = LitNull /\ pi' = 0
  /\ UNCHANGED <<assignVars, watches>>

(* Mutant: the clause is skipped unless the blocking literal is false. *)
BlockedUnlessFalse ==
  /\ Visiting /\ ~ IsFalse(TheWatch.o)
  /\ KeepWatch
  /\ UNCHANGED <<assignVars, cls, added, bot, heap, trg>>

(* Mutant: the position in the watch list does not advance. *)
BlockedNoAdvance ==
  /\ Visiting /\ IsTrue(TheWatch.o)
  /\ UNCHANGED trailVars

(* The blocking literal is true: the clause is not looked at. *)
VisitBlocked ==
  /\ Visiting /\ IsTrue(TheWatch.o)
  /\ KeepWatch
  /\ UNCHANGED <<assignVars, cls, added, bot, heap, trg>>

(* Mutant: the implied literal is not moved to the front. *)
BinaryNoSwap ==
  /\ Visiting /\ TheWatch.bin /\ ~ IsTrue(TheWatch.o)
  /\ LET q == TheWatch.c
         o == TheWatch.o
     IN  /\ cls' = cls
         /\ \/ IsFree(o)  /\ Assign(o, q) /\ KeepWatch
            \/ IsFalse(o) /\ ReturnConflict(q)
  /\ UNCHANGED <<added, bot, heap, trg>>

(* A binary clause whose other literal is not true. *)
VisitBinary ==
  /\ Visiting /\ TheWatch.bin /\ ~ IsTrue(TheWatch.o)
  /\ LET q == TheWatch.c
         o == TheWatch.o
     IN  /\ cls' = IF cls[q][1] = pm
                   THEN [cls EXCEPT ![q][1] = o, ![q][2] = pm] ELSE cls
         /\ \/ IsFree(o)  /\ Assign(o, q) /\ KeepWatch
            \/ IsFalse(o) /\ ReturnConflict(q)
  /\ UNCHANGED <<added, bot, heap, trg>>

VisitingLong == Visiting /\ ~ TheWatch.bin /\ ~ IsTrue(TheWatch.o)

(* The other watched literal, which need not be the blocking one, is true. *)
VisitSatisfied ==
  /\ VisitingLong /\ IsTrue(OtherWatched(TheWatch.c))
  /\ KeepWatch
  /\ UNCHANGED <<assignVars, cls, added, bot, heap, trg>>

(* Position p is the first unwatched literal of q which is not false. *)
FirstNonFalse(q, p) ==
  /\ p \in 3 .. Len(cls[q]) /\ ~ IsFalse(cls[q][p])
  /\ \A k \in 3 .. (p - 1) : IsFalse(cls[q][k])

(* Mutant: the old watch stays in the list of pm. *)
RewatchNoRemove ==
  /\ VisitingLong /\ ~ IsTrue(OtherWatched(TheWatch.c))
  /\ LET q == TheWatch.c
         k == IF cls[q][1] = pm THEN 1 ELSE 2
     IN  \E p \in 3 .. Len(cls[q]) :
           /\ FirstNonFalse(q, p)
           /\ cls' = [cls EXCEPT ![q][k] = cls[q][p], ![q][p] = pm]
           /\ watches' = [watches EXCEPT
                            ![cls[q][p]] = Append(@, MakeWatch(q, pm, FALSE))]
  /\ pi' = pi + 1
  /\ UNCHANGED <<assignVars, head, added, bot, heap, mode, pm, px, trg>>

(* A new watch is found: it takes the place of pm in the clause, and the   *)
(* watch moves to its list with pm as blocking literal.                    *)
VisitRewatch ==
  /\ VisitingLong /\ ~ IsTrue(OtherWatched(TheWatch.c))
  /\ LET q == TheWatch.c
         k == IF cls[q][1] = pm THEN 1 ELSE 2
     IN  \E p \in 3 .. Len(cls[q]) :
           /\ FirstNonFalse(q, p)
           /\ cls' = [cls EXCEPT ![q][k] = cls[q][p], ![q][p] = pm]
           /\ watches' = [watches EXCEPT
                            ![pm] = RemoveAt(@, pi),
                            ![cls[q][p]] = Append(@, MakeWatch(q, pm, FALSE))]
  /\ UNCHANGED <<assignVars, head, added, bot, heap, loopVars>>

(* Mutant: a falsified clause is passed over. *)
LastNoConflict ==
  /\ VisitingLong /\ ~ IsTrue(OtherWatched(TheWatch.c))
  /\ LET q == TheWatch.c
         n == OtherWatched(q)
     IN  /\ \A p \in 3 .. Len(cls[q]) : IsFalse(cls[q][p])
         /\ \/ /\ IsFree(n)
               /\ cls' = IF cls[q][1] = pm
                         THEN [cls EXCEPT ![q][1] = n, ![q][2] = pm] ELSE cls
               /\ Assign(n, q) /\ KeepWatch
            \/ IsFalse(n) /\ KeepWatch /\ UNCHANGED <<assignVars, cls>>
  /\ UNCHANGED <<added, bot, heap, trg>>

(* No new watch: the clause implies its other watched literal, which is    *)
(* moved to the front, or is a conflict.                                   *)
VisitLast ==
  /\ VisitingLong /\ ~ IsTrue(OtherWatched(TheWatch.c))
  /\ LET q == TheWatch.c
         n == OtherWatched(q)
     IN  /\ \A p \in 3 .. Len(cls[q]) : IsFalse(cls[q][p])
         /\ \/ /\ IsFree(n)
               /\ cls' = IF cls[q][1] = pm
                         THEN [cls EXCEPT ![q][1] = n, ![q][2] = pm] ELSE cls
               /\ Assign(n, q) /\ KeepWatch
            \/ IsFalse(n) /\ ReturnConflict(q) /\ UNCHANGED cls
  /\ UNCHANGED <<added, bot, heap, trg>>

PropStep ==
  \/ PropTake \/ PropReturn \/ PropNext
  \/ VisitBlocked \/ VisitBinary \/ VisitSatisfied \/ VisitRewatch \/ VisitLast

(***************************************************************************)
(* Trail.Back(l): pop the trail down to the last literal of level l.  Each *)
(* popped variable is again a candidate for a guess.                       *)
(***************************************************************************)
StartBack(l) ==
  /\ mode = "idle"
  /\ IF Level <= l THEN UNCHANGED <<mode, trg>>
                   ELSE mode' = "back" /\ trg' = l
  /\ UNCHANGED <<assignVars, head, clauseVars, heap, pm, pi, px>>

(* Mutant: Back also pops the target level. *)
BelowTarget == IF D = <<>> THEN TRUE ELSE levels[Var(Last(D))] < trg

AtTarget == IF D = <<>> THEN TRUE ELSE levels[Var(Last(D))] = trg

BackPop ==
  /\ mode = "back" /\ ~ AtTarget
  /\ LET m == Last(D)
         v == Var(m)
     IN  /\ D' = Front(D)
         /\ vals' = [vals EXCEPT ![m] = 0, ![Not(m)] = 0]
         /\ reasons' = [reasons EXCEPT ![v] = CNull]
         /\ levels' = [levels EXCEPT ![v] = -1]
         /\ heap' = heap \cup {v}
  /\ UNCHANGED <<Level, head, clauseVars, loopVars>>

BackStop ==
  /\ mode = "back" /\ AtTarget
  /\ head' = Len(D)
  /\ Level' = IF D = <<>> THEN 0 ELSE trg
  /\ mode' = "idle" /\ trg' = 0 /\ px' = CNull
  /\ UNCHANGED <<D, vals, levels, reasons, clauseVars, heap, pm, pi>>

BackStep == BackPop \/ BackStop

(***************************************************************************)
(* The contract: how xo.S uses the trail.  While a conflict is unresolved  *)
(* (px # CNull) nothing is assigned or propagated: the conflict is         *)
(* analysed and its level undone.  A conflict at level 0 has no level to   *)
(* undo: it is final.                                                      *)
(***************************************************************************)
DistinctVars(ms) ==
  \A i, j \in 1 .. Len(ms) : Var(ms[i]) = Var(ms[j]) => i = j

(* S.Add after ensure0: Cdb.Add keeps unassigned literals, each once. *)
ClientAdd(ms) ==
  /\ mode = "idle" /\ px = CNull /\ Level = 0
  /\ DistinctVars(ms) /\ \A i \in 1 .. Len(ms) : IsFree(ms[i])
  /\ AddClause(ms)

(* Deriver.Derive on a conflict above level 0: a falsified clause with one *)
(* literal, the first, of the conflict's level.                            *)
Asserting(ms) ==
  /\ ms # <<>> /\ DistinctVars(ms)
  /\ \A i \in 1 .. Len(ms) : IsFalse(ms[i])
  /\ levels[Var(ms[1])] = Level
  /\ \A i \in 2 .. Len(ms) : levels[Var(ms[i])] < Level

ClientLearn(ms) ==
  /\ mode = "idle" /\ px # CNull /\ Level > 0
  /\ Asserting(ms)
  /\ Learn(ms)

(* The learned clause implies its first literal after backjumping. *)
ClientAssert(c) ==
  /\ mode = "idle" /\ px = CNull
  /\ cls[c] # <<>> /\ IsFree(cls[c][1])
  /\ \A i \in 2 .. Len(cls[c]) : IsFalse(cls[c][i])
  /\ Assign(cls[c][1], c)
  /\ UNCHANGED <<head, clauseVars, heap, loopVars>>

(* An assumption opens a level when everything is propagated ... *)
ClientAssume(m) ==
  /\ mode = "idle" /\ px = CNull /\ head = Len(D) /\ IsFree(m)
  /\ Assign(m, CNull)
  /\ UNCHANGED <<head, clauseVars, heap, loopVars>>

(* ... and so does a guess, which pops the heap until it finds a variable  *)
(* without value: popped holds the assigned ones on the way.               *)
ClientGuess(m, popped) ==
  /\ mode = "idle" /\ px = CNull /\ head = Len(D)
  /\ IsFree(m) /\ Var(m) \in heap
  /\ \A v \in popped : v \in heap /\ ~ IsFree(Pos(v))
  /\ heap' = heap \ (popped \cup {Var(m)})
  /\ Assign(m, CNull)
  /\ UNCHANGED <<head, clauseVars, loopVars>>

(* A guess finds nothing if every variable in the heap has a value. *)
ClientGuessNone ==
  /\ mode = "idle" /\ px = CNull /\ head = Len(D)
  /\ \A v \in heap : ~ IsFree(Pos(v))
  /\ heap' = {}
  /\ UNCHANGED <<assignVars, head, clauseVars, loopVars>>

ClientProp == px = CNull /\ StartProp

ClientBack(l) == StartBack(l)

(* The bound on the clauses, for a finite number of states. *)
MayStore == Len(cls) < MaxClauses

Client ==
  \/ MayStore /\ \E ms \in ClauseSpace : ClientAdd(ms) \/ ClientLearn(ms)
  \/ \E c \in Clauses : ClientAssert(c)
  \/ \E m \in LitSet : \/ ClientAssume(m)
                       \/ \E popped \in SUBSET heap : ClientGuess(m, popped)
  \/ ClientGuessNone
  \/ ClientProp
  \/ \E l \in 0 .. Level : ClientBack(l)

TrailNext == Client \/ PropStep \/ BackStep

TrailSpec == TrailInit /\ [][TrailNext]_trailVars

(* The loops of Prop and Back run to their end: plain sequential code. *)
TrailFairSpec == TrailSpec /\ WF_trailVars(PropStep) /\ WF_trailVars(BackStep)

-----------------------------------------------------------------------------
(***************************************************************************)
(* Properties.                                                             *)
(***************************************************************************)
Watch == [c : Nat, o : LitSet, bin : BOOLEAN]

(* The type invariant of the trail, the variables and the clause database. *)
TypeOK ==
  /\ D \in Seq(LitSet) /\ head \in Nat /\ Level \in Nat
  /\ vals \in [LitIndex -> {-1, 0, 1}]
  /\ levels \in [VarIndex -> Nat \cup {-1}]
  /\ reasons \in [VarIndex -> Nat]
  /\ cls \in Seq(Seq(LitSet))
  /\ watches \in [LitIndex -> Seq(Watch)]
  /\ added \subseteq Clauses /\ bot \in Nat
  /\ heap \subseteq VarSet
  /\ mode \in {"idle", "prop", "visit", "back"}
  /\ pm \in LitSet \cup {LitNull} /\ pi \in Nat
  /\ px \in {CNull} \cup Clauses /\ trg \in Nat

(* Vars.Vals says exactly what is on the trail, no variable is there       *)
(* twice, and levels do not decrease along the trail: what Back relies on  *)
(* when it unassigns by popping until it meets the target level.           *)
TrailConsistent ==
  /\ \A m \in LitSet : IsTrue(m) <=> \E i \in 1 .. Len(D) : D[i] = m
  /\ \A m \in LitSet : IsFalse(m) <=> IsTrue(Not(m))
  /\ \A i, j \in 1 .. Len(D) :
       i < j => /\ Var(D[i]) # Var(D[j])
                /\ levels[Var(D[i])] <= levels[Var(D[j])]

(* "invariant that implied reasons are always first in clause" (S.Reasons, *)
(* Derive, finalRec and isRdntRec skip position 0 of a reason): the reason *)
(* of an implied literal has it first and its other literals false earlier *)
(* on the trail, although Prop keeps permuting clauses.                    *)
ReasonFirst ==
  \A i \in 1 .. Len(D) :
    LET c == reasons[Var(D[i])]
    IN  c # CNull =>
          /\ c \in Clauses /\ cls[c] # <<>> /\ cls[c][1] = D[i]
          /\ \A k \in 2 .. Len(cls[c]) :
               \E j \in 1 .. (i - 1) : D[j] = Not(cls[c][k])

Watched(c) == {cls[c][1], cls[c][2]}

WatchOK(m, w) ==
  /\ w.c \in Clauses /\ Len(cls[w.c]) >= 2
  /\ m \in Watched(w.c)
  /\ w.o # m /\ \E k \in 1 .. Len(cls[w.c]) : cls[w.c][k] = w.o
  /\ w.bin <=> Len(cls[w.c]) = 2

Watches(m, c) == \E i \in 1 .. Len(watches[m]) : watches[m][i].c = c

WatchesOnce(m) ==
  \A i, j \in 1 .. Len(watches[m]) : watches[m][i].c = watches[m][j].c => i = j

(* Cdb.CheckWatches, first two checks: a clause is in the watch list of a  *)
(* literal exactly if that is one of its first two, and only once.         *)
WatchesMatch ==
  /\ \A m \in LitSet : \A i \in 1 .. Len(watches[m]) : WatchOK(m, watches[m][i])
  /\ \A m \in LitSet : WatchesOnce(m)
  /\ \A c \in Clauses : Len(cls[c]) >= 2 => \A m \in Watched(c) : Watches(m, c)

(* Prop has returned CNull and nothing was assigned since. *)
Propagated == mode = "idle" /\ px = CNull /\ head = Len(D)

Falsified(c) == \A k \in 1 .. Len(cls[c]) : IsFalse(cls[c][k])

(* When Prop returns CNull no clause of two or more literals is falsified, *)
(* learned ones included, after any history of conflicts, backjumps and    *)
(* learned clauses whose second watch is not of the highest level.  This   *)
(* is why a full assignment is a model.                                    *)
NoFalsifiedClause ==
  Propagated => \A c \in Clauses : Len(cls[c]) >= 2 => ~ Falsified(c)

(* Every added unit clause is true, at every moment: units are assigned at *)
(* level 0 and Back never goes below level 0.                              *)
UnitsHold ==
  \A c \in added : Len(cls[c]) = 1 =>
    IsTrue(cls[c][1]) /\ levels[Var(cls[c][1])] = 0

(* All literals of c but the k-th are false and the k-th has no value. *)
UnitAt(c, k) ==
  /\ IsFree(cls[c][k])
  /\ \A j \in 1 .. Len(cls[c]) : j # k => IsFalse(cls[c][j])

(* When Prop returns CNull no added clause is unit: propagation over the   *)
(* clauses from Add is complete.                                           *)
BcpComplete ==
  Propagated => \A c \in added : \A k \in 1 .. Len(cls[c]) : ~ UnitAt(c, k)

(* A conflict returned by Prop is falsified and has a literal of the       *)
(* current level, which Derive counts down from.                           *)
ConflictFalsified ==
  px # CNull /\ mode = "idle" =>
    /\ Falsified(px)
    /\ \E k \in 1 .. Len(cls[px]) : levels[Var(cls[px][k])] = Level

(* A variable without value is in the guess heap: Guess returning LitNull  *)
(* then means that every variable has a value.                             *)
FreeVarsInHeap == \A v \in VarSet : IsFree(Pos(v)) => v \in heap

(* No step ever takes back an assignment of level 0. *)
Level0Permanent ==
  [][\A m \in LitSet : IsTrue(m) /\ levels[Var(m)] = 0 => IsTrue(m)']_trailVars

(* Prop and Back terminate. *)
LoopsTerminate == mode # "idle" ~> mode = "idle"

-----------------------------------------------------------------------------
(***************************************************************************)
(* The inductive invariant behind them.                                    *)
(***************************************************************************)

(* What is known of the loop variables in each mode. *)
ModeOK ==
  /\ mode # "back" => head <= Len(D)
  /\ mode = "visit" => /\ pm \in LitSet /\ pi >= 1
                       /\ head >= 1 /\ D[head] = Not(pm)
  /\ mode \in {"prop", "visit"} => px = CNull
  /\ mode = "back" => trg < Level

(* Prop returned a conflict, and nothing was assigned since. *)
ConflictLast == mode = "idle" /\ px # CNull => head = Len(D)

(* The level Back leaves open, and the last one otherwise. *)
TopLevel == IF mode = "back" THEN trg ELSE Level

(* Levels lie within 0 .. Level, every open level has a literal on the     *)
(* trail, and what is not yet propagated is of the current level.          *)
LevelsOK ==
  /\ \A i \in 1 .. Len(D) : levels[Var(D[i])] \in 0 .. Level
  /\ \A k \in 1 .. TopLevel : \E i \in 1 .. Len(D) : levels[Var(D[i])] = k
  /\ mode # "back" =>
       \A i \in (head + 1) .. Len(D) : levels[Var(D[i])] = Level
  /\ mode = "visit" => levels[Var(pm)] = Level

ClausesOK == \A c \in Clauses : DistinctVars(cls[c])

(* The fact that m is false has still to be seen by clause c, or is about  *)
(* to be undone.                                                           *)
Unseen(m, c) ==
  \/ mode = "back" /\ levels[Var(m)] > trg
  \/ mode # "back" /\ px # CNull /\ levels[Var(m)] = Level
  \/ mode # "back" /\ \E i \in (head + 1) .. Len(D) : D[i] = Not(m)
  \/ /\ mode = "visit" /\ pm = m
     /\ \E i \in pi .. Len(watches[m]) : watches[m][i].c = c

(* Clause c is true, and stays so for as long as m is assigned. *)
TrueBelow(c, m) ==
  \E k \in 1 .. Len(cls[c]) :
    IsTrue(cls[c][k]) /\ levels[Var(cls[c][k])] <= levels[Var(m)]

(* A watched literal of c does its duty. *)
Covered(c, m) == IsFalse(m) => Unseen(m, c) \/ TrueBelow(c, m)

(* One watched literal of a learned clause does, and both of an added one. *)
WatchesCover ==
  \A c \in Clauses : Len(cls[c]) >= 2 =>
    /\ Covered(c, cls[c][1]) \/ Covered(c, cls[c][2])
    /\ c \in added => Covered(c, cls[c][1]) /\ Covered(c, cls[c][2])

(* What every step preserves even if Prop is called while a conflict is    *)
(* unresolved at level 0, as xo.S does once a clause has become empty ... *)
TrailCore ==
  /\ TypeOK /\ ModeOK /\ LevelsOK /\ ClausesOK
  /\ TrailConsistent /\ ReasonFirst /\ UnitsHold
  /\ WatchesMatch /\ ConflictFalsified /\ FreeVarsInHeap

(* ... and the conjunction which every step of the contract preserves. *)
TrailInv == TrailCore /\ ConflictLast /\ WatchesCover
=============================================================================
