------------------------------ MODULE Circuit -------------------------------
(***************************************************************************)
(* logic.C and logic.S, and-inverter circuits with structural hashing and  *)
(* latches; their translation to clauses; logic.CardSort, cardinality      *)
(* predicates made of a sorting network; logic.Roll, which unrolls a       *)
(* circuit with latches in time.                                           *)
(*                                                                         *)
(* A circuit is a record of its nodes, numbered from 0, of its hash table  *)
(* strash and of cap, the capacity of the slice of nodes.  An operation on *)
(* a circuit g yields [g, m]: the new circuit, and a literal of it.        *)
(*                                                                         *)
(* want accompanies every literal that was made with the truth table it    *)
(* should have: the set of the valuations in which it is true, where a     *)
(* valuation is the set of the true ones among the free nodes, those which *)
(* are inputs or latches, counted in the order of their making.            *)
(***************************************************************************)
EXTENDS Lits, Sequences, SequencesExt, FiniteSets, TLC

CONSTANTS
  StrashCode(_, _), \* the hash function strashCode
  MaxFree,          \* bound on the inputs and latches
  MaxMade,          \* bound on the operations on the circuit
  MaxDepth          \* bound on the time of an unrolling

VARIABLES
  circ,  \* the circuit
  want,  \* the set of the literals made, each [m, tt]
  cnf,   \* the clauses made of it
  mark,  \* the nodes CnfSince has marked
  roots, \* the literals of which it was called, as elements of want
  roll,  \* a Roll of the circuit, [g, dmap]
  made   \* how many operations made a literal

circuitVars == <<circ, want, cnf, mark, roots, roll, made>>

F == 3
T == 2

InitC(hint) ==
  LET cap == IF hint < 2 THEN 2 ELSE hint
  IN  [nodes |-> [i \in 0 .. 1 |-> [a |-> 0, b |-> 0, n |-> 0]],
       strash |-> [i \in 0 .. (cap - 1) |-> 0], cap |-> cap]

(* NewRoll makes a list of literals for every node. *)
NewRoll(g) ==
  [g |-> InitC(10 * Cardinality(DOMAIN g.nodes)), dmap |-> [i \in DOMAIN g.nodes |-> <<>>]]

NoRoll == [g |-> InitC(2), dmap |-> <<>>]

CircuitInit ==
  /\ circ = InitC(2)
  /\ want = {} /\ cnf = {} /\ mark = {} /\ roots = {} /\ roll = NoRoll
  /\ made = 0

-----------------------------------------------------------------------------
(***************************************************************************)
(* Nodes.                                                                  *)
(***************************************************************************)
IsAnd(n) == n.a \notin {LitNull, F, T}

NNodes(g) == Cardinality(DOMAIN g.nodes)

(* Puts node j, whose hash is k, in front of its list. *)
Link(g, j, k) ==
  [g EXCEPT !.nodes[j].n = g.strash[k], !.strash[k] = j]

Slot(g, j) == StrashCode(g.nodes[j].a, g.nodes[j].b) % g.cap

(* C.grow: a table twice as large, and every and-node linked again.  The   *)
(* other nodes are in no list.                                             *)
Grow(g) ==
  LET larger == [g EXCEPT !.cap = 2 * @, !.strash = [i \in 0 .. (2 * g.cap - 1) |-> 0]]
  IN  FoldLeft(LAMBDA h, i : IF IsAnd(h.nodes[i - 1]) THEN Link(h, i - 1, Slot(h, i - 1)) ELSE h,
               larger, [i \in 1 .. NNodes(g) |-> i])

NewNode(g, a, b) ==
  LET h == IF NNodes(g) = g.cap THEN Grow(g) ELSE g
  IN  [h EXCEPT !.nodes = @ @@ (NNodes(g) :> [a |-> a, b |-> b, n |-> 0])]

(* Mutant: a node is taken for its hash. *)
LookupFirst(g, i, a, b) == i

(* The search of C.And in the list which begins with node i. *)
RECURSIVE Lookup(_, _, _, _)
Lookup(g, i, a, b) ==
  LET n == g.nodes[i]
  IN  IF n.a = a /\ n.b = b THEN i ELSE IF n.n = 0 THEN 0 ELSE Lookup(g, n.n, a, b)

(* C.And: the trivial cases, a node that is there already, or a new one. *)
AndOrdered(g, a, b) ==
  LET i == Lookup(g, g.strash[StrashCode(a, b) % g.cap], a, b)
      h == NewNode(g, a, b)
      j == NNodes(g)
  IN  CASE a = F -> [g |-> g, m |-> F]
        [] a = T -> [g |-> g, m |-> b]
        [] OTHER -> IF i # 0 THEN [g |-> g, m |-> Pos(i)]
                    ELSE [g |-> Link(h, j, Slot(h, j)), m |-> Pos(j)]

And(g, x, y) ==
  IF x = y THEN [g |-> g, m |-> x]
  ELSE IF x = Not(y) THEN [g |-> g, m |-> F]
  ELSE IF x < y THEN AndOrdered(g, x, y) ELSE AndOrdered(g, y, x)

Or(g, x, y) ==
  LET r == And(g, Not(x), Not(y)) IN [r EXCEPT !.m = Not(@)]

Implies(g, x, y) == Or(g, Not(x), y)

Xor(g, x, y) ==
  LET r == And(g, x, Not(y))
      s == And(r.g, Not(x), y)
  IN  Or(s.g, r.m, s.m)

Choice(g, i, x, y) ==
  LET r == And(g, i, x)
      s == And(r.g, Not(i), y)
  IN  Or(s.g, r.m, s.m)

Ands(g, ms) == FoldLeft(LAMBDA r, m : And(r.g, r.m, m), [g |-> g, m |-> T], ms)
Ors(g, ms) == FoldLeft(LAMBDA r, m : Or(r.g, r.m, m), [g |-> g, m |-> F], ms)

(***************************************************************************)
(* CardSort: odd-even merge sort, of a sequence with T behind it up to a   *)
(* power of two.  A sort yields the circuit and the sorted sequence ms.    *)
(***************************************************************************)
(* CardSort.cas, with positions from 0. *)
CompareSwap(s, i, j) ==
  LET l == And(s.g, s.ms[i + 1], s.ms[j + 1])
      h == Or(l.g, s.ms[i + 1], s.ms[j + 1])
  IN  [g |-> h.g, ms |-> [s.ms EXCEPT ![i + 1] = l.m, ![j + 1] = h.m]]

RECURSIVE Merge(_, _, _, _), Sort(_, _, _)

Merge(s, l, h, d) ==
  IF h <= l + d THEN s
  ELSE IF 2 * d >= h - l THEN CompareSwap(s, l, l + d)
  ELSE LET odd == Merge(Merge(s, l, h, 2 * d), l + d, h, 2 * d)
           is  == SetToSortSeq({i \in (l + d) .. (h - d - 1) : (i - l - d) % (2 * d) = 0}, <)
       IN  FoldLeft(LAMBDA t, i : CompareSwap(t, i, i + d), odd, is)

Sort(s, l, h) ==
  LET m == l + (h - l) \div 2
  IN  IF h - l <= 1 THEN s ELSE Merge(Sort(Sort(s, l, m), m, h), l, h, 1)

(* NewCardSort. *)
CardSort(g, ms) ==
  LET N == CHOOSE n \in {1, 2, 4, 8} : n >= Len(ms) /\ \A k \in {1, 2, 4, 8} : k >= Len(ms) => n <= k
  IN  Sort([g |-> g, ms |-> [i \in 1 .. N |-> IF i <= Len(ms) THEN ms[i] ELSE T]], 0, N)

(* CardSort.Leq of n literals whose sorted sequence is ms. *)
Leq(ms, n, b) == IF b >= n THEN T ELSE IF b < 0 THEN F ELSE Not(ms[n - b])

Less(ms, n, b) == Leq(ms, n, b - 1)

Geq(ms, n, b) ==
  IF b <= 0 THEN T ELSE IF b >= n + 1 THEN F ELSE Not(Leq(ms, n, b - 1))

Gr(ms, n, b) == Geq(ms, n, b + 1)

-----------------------------------------------------------------------------
(***************************************************************************)
(* Evaluation, C.Eval, and truth tables.                                   *)
(***************************************************************************)
FreeNodes(g) == {i \in DOMAIN g.nodes : i > 1 /\ ~ IsAnd(g.nodes[i])}

(* The place of free node i among the free nodes. *)
Rank(g, i) == Cardinality({j \in FreeNodes(g) : j <= i})

HoldsIn(V, m) == (Var(m) \in V) = (m = Pos(Var(m)))

(* The set of the true nodes when the free ones in U are true. *)
Eval(g, U) ==
  FoldLeft(LAMBDA V, i :
             IF i = 1 \/ (i \in FreeNodes(g) /\ i \in U)
                \/ (IsAnd(g.nodes[i]) /\ HoldsIn(V, g.nodes[i].a) /\ HoldsIn(V, g.nodes[i].b))
             THEN V \cup {i} ELSE V,
           {}, [i \in 1 .. (NNodes(g) - 1) |-> i])

Valuations == SUBSET (1 .. MaxFree)

TruthOf(g, A) == Eval(g, {i \in FreeNodes(g) : Rank(g, i) \in A})

(* Operands: the literals made, their negations, and the constants. *)
Operands ==
  {[m |-> T, tt |-> Valuations], [m |-> F, tt |-> {}]}
    \cup want
    \cup {[m |-> Not(e.m), tt |-> Valuations \ e.tt] : e \in want}

-----------------------------------------------------------------------------
(***************************************************************************)
(* Making circuits.  A circuit which is unrolled stays as it is.           *)
(***************************************************************************)
(* S.Latch(init): a latch which follows itself. *)
WithLatch(g, init) == NewNode(g, init, Pos(NNodes(g)))

(* A free node, made by C.Lit or S.Latch in the new circuit g. *)
NewFree(g) ==
  LET i == NNodes(circ)
  IN  /\ roll = NoRoll /\ Cardinality(FreeNodes(circ)) < MaxFree
      /\ circ' = g
      /\ want' = want \cup {[m |-> Pos(i), tt |-> {A \in Valuations : Rank(circ', i) \in A}]}
      /\ UNCHANGED <<cnf, mark, roots, roll, made>>

Lit == NewFree(NewNode(circ, LitNull, LitNull))

Latch(init) == NewFree(WithLatch(circ, init))

IsLatch(i) == i \in FreeNodes(circ) /\ circ.nodes[i].b # 0

(* S.SetNext and S.SetInit. *)
SetNext(i, m) ==
  /\ roll = NoRoll /\ IsLatch(i)
  /\ circ' = [circ EXCEPT !.nodes[i].b = m]
  /\ UNCHANGED <<want, cnf, mark, roots, roll, made>>

SetInit(i, init) ==
  /\ roll = NoRoll /\ IsLatch(i)
  /\ circ' = [circ EXCEPT !.nodes[i].a = init]
  /\ UNCHANGED <<want, cnf, mark, roots, roll, made>>

(* C.Copy: the slice of the copy has no room beyond its nodes, and the     *)
(* hash table is as it was.                                                *)
Copy ==
  /\ roll = NoRoll
  /\ circ' = [circ EXCEPT !.cap = NNodes(circ)]
  /\ UNCHANGED <<want, cnf, mark, roots, roll, made>>

(* r is the circuit and the literal an operation made for the table tt. *)
Make(r, tt) ==
  /\ roll = NoRoll /\ made < MaxMade /\ made' = made + 1
  /\ circ' = r.g
  /\ want' = want \cup {[m |-> r.m, tt |-> tt]}
  /\ UNCHANGED <<cnf, mark, roots, roll>>

MakeAnd(x, y) == Make(And(circ, x.m, y.m), x.tt \cap y.tt)

MakeImplies(x, y) == Make(Implies(circ, x.m, y.m), (Valuations \ x.tt) \cup y.tt)

MakeXor(x, y) == Make(Xor(circ, x.m, y.m), (x.tt \cup y.tt) \ (x.tt \cap y.tt))

MakeChoice(i, x, y) ==
  Make(Choice(circ, i.m, x.m, y.m), (i.tt \cap x.tt) \cup (y.tt \ i.tt))

Lits(s) == [k \in DOMAIN s |-> s[k].m]

MakeAnds(s) == Make(Ands(circ, Lits(s)), {A \in Valuations : \A k \in DOMAIN s : A \in s[k].tt})

MakeOrs(s) == Make(Ors(circ, Lits(s)), {A \in Valuations : \E k \in DOMAIN s : A \in s[k].tt})

Count(s, A) == Cardinality({k \in DOMAIN s : A \in s[k].tt})

(* A predicate of a CardSort of s.  Less is strict: the document of        *)
(* CardSort.Less, "true iff ... does not exceed b", says Leq instead.      *)
MakeCard(s, pred, b) ==
  LET c == CardSort(circ, Lits(s))
      n == Len(s)
  IN  \/ pred = "leq"  /\ Make([g |-> c.g, m |-> Leq(c.ms, n, b)], {A \in Valuations : Count(s, A) <= b})
      \/ pred = "less" /\ Make([g |-> c.g, m |-> Less(c.ms, n, b)], {A \in Valuations : Count(s, A) < b})
      \/ pred = "geq"  /\ Make([g |-> c.g, m |-> Geq(c.ms, n, b)], {A \in Valuations : Count(s, A) >= b})
      \/ pred = "gr"   /\ Make([g |-> c.g, m |-> Gr(c.ms, n, b)], {A \in Valuations : Count(s, A) > b})

(***************************************************************************)
(* Clauses.                                                                *)
(***************************************************************************)
(* addAnd, for node i. *)
AndClauses(i) ==
  LET n == circ.nodes[i]
      g == Pos(i)
  IN  {{Not(g), n.a}, {Not(g), n.b}, {g, Not(n.a), Not(n.b)}}

ClausesOf(S) == {{T}} \cup UNION {AndClauses(i) : i \in {j \in S : IsAnd(circ.nodes[j])}}

(* C.ToCnf adds every node, and marks none. *)
ToCnf ==
  /\ cnf' = cnf \cup ClausesOf(DOMAIN circ.nodes)
  /\ roots' = roots \cup want
  /\ UNCHANGED <<circ, want, mark, roll, made>>

RECURSIVE Visit(_, _)

(* Mutant: a marked node is not visited, nor is the second of its conjuncts. *)
VisitFirst(M, v) ==
  LET n == circ.nodes[v]
  IN  IF v \in M \/ ~ IsAnd(n) THEN M \cup {v} ELSE Visit(M, Var(n.a)) \cup {v}

(* vis of C.CnfSince: the marks once v is visited. *)
Visit(M, v) ==
  LET n == circ.nodes[v]
  IN  IF v \in M \/ ~ IsAnd(n) THEN M \cup {v}
      ELSE Visit(Visit(M, Var(n.a)), Var(n.b)) \cup {v}

(* C.CnfSince of one root e, with the marks of the previous calls. *)
CnfSince(e) ==
  LET M == Visit(mark \cup {1}, Var(e.m))
  IN  /\ mark' = M
      /\ cnf' = cnf \cup ClausesOf(M \ mark)
      /\ roots' = roots \cup {e}
      /\ UNCHANGED <<circ, want, roll, made>>

(***************************************************************************)
(* Unrolling.  At yields the unrolling u with one more entry in the lists  *)
(* dmap of the nodes it needed, and the literal.                           *)
(***************************************************************************)
Append1(u, v, m) == [u EXCEPT !.dmap[v] = Append(@, m)]

Fresh(u) == [u EXCEPT !.g = NewNode(@, 0, 0)]

(* Mutant: the earlier times are not filled in first. *)
NeverBehind(u, v, d) == FALSE

Behind(u, v, d) == Len(u.dmap[v]) < d

RECURSIVE At(_, _, _)

(* Roll.At of the node v at time d. *)
AtNode(u, v, d) ==
  LET n == circ.nodes[v]
      new == Pos(NNodes(u.g))
      back == At(u, n.b, d - 1)
      left == At(u, n.a, d)
      both == At(left.u, n.b, d)
      conj == And(both.u.g, left.m, both.m)
  IN  IF Len(u.dmap[v]) > d THEN [u |-> u, m |-> u.dmap[v][d + 1]]
      ELSE IF v = 1 THEN [u |-> Append1(u, v, T), m |-> T]
      ELSE IF n.b = LitNull \/ (d = 0 /\ n.a = LitNull)
        THEN [u |-> Append1(Fresh(u), v, new), m |-> new]
      ELSE IF IsAnd(n)
        THEN [u |-> Append1([both.u EXCEPT !.g = conj.g], v, conj.m), m |-> conj.m]
      ELSE IF d = 0 THEN [u |-> Append1(u, v, n.a), m |-> n.a]
      ELSE [u |-> Append1(back.u, v, back.m), m |-> back.m]

At(u, m, d) ==
  LET filled == IF Behind(u, Var(m), d) THEN At(u, m, d - 1).u ELSE u
      r == AtNode(filled, Var(m), d)
  IN  IF m = Pos(Var(m)) THEN r ELSE [r EXCEPT !.m = Not(@)]

RollAt(m, d) ==
  /\ d \in 0 .. MaxDepth
  /\ roll' = At(IF roll = NoRoll THEN NewRoll(circ) ELSE roll, m, d).u
  /\ UNCHANGED <<circ, want, cnf, mark, roots, made>>

-----------------------------------------------------------------------------
(***************************************************************************)
(* Properties.                                                             *)
(***************************************************************************)
(* Every literal an operation returned has the meaning of the operation,   *)
(* and keeps it: after the hash table has grown and its lists were made    *)
(* again, in a copy, and if the node of another operation was used for it. *)
(* Of CardSort.Less the meaning is what its code and its tests say, fewer  *)
(* than b, and not what its document says, b at most.                      *)
LitsMean ==
  \A A \in SUBSET (1 .. Cardinality(FreeNodes(circ))) :
    LET vals == TruthOf(circ, A) IN \A e \in want : HoldsIn(vals, e.m) = (A \in e.tt)

(* The clauses made so far, in several calls, say what the circuit says of *)
(* the roots: each valuation of the inputs extends to a model, and in each *)
(* model the roots are what the circuit makes them.                        *)
Satisfies(W, C) == \A c \in C : \E m \in c : HoldsIn(W, m)

CnfVars == {Var(m) : m \in UNION cnf} \cup mark

CnfExact ==
  /\ \A A \in SUBSET (1 .. Cardinality(FreeNodes(circ))) : Satisfies(TruthOf(circ, A), cnf)
  /\ \A W \in SUBSET CnfVars :
       Satisfies(W, cnf) =>
         \A e \in roots :
           HoldsIn(W, e.m) = ({Rank(circ, i) : i \in W \cap FreeNodes(circ)} \in e.tt)

(* The literals of an unrolling are what a run of the latches gives, in    *)
(* whatever order they were asked for: U says which free nodes of the      *)
(* unrolling are true, In(t) the inputs and unknown latches at time t.     *)
Run(U) ==
  LET Given(t) ==
        {i \in FreeNodes(circ) :
           /\ circ.nodes[i].b = LitNull \/ (t = 0 /\ circ.nodes[i].a = LitNull)
           /\ t < Len(roll.dmap[i]) /\ Var(roll.dmap[i][t + 1]) \in U}
      state[t \in 0 .. MaxDepth] ==
        Eval(circ, Given(t) \cup
          {i \in FreeNodes(circ) : IsLatch(i) /\
             (IF t = 0 THEN circ.nodes[i].a = T ELSE HoldsIn(state[t - 1], circ.nodes[i].b))})
  IN  state

RollSimulates ==
  roll # NoRoll =>
    \A U \in SUBSET FreeNodes(roll.g) :
      LET run == Run(U)
          vals == Eval(roll.g, U)
      IN  \A v \in DOMAIN roll.dmap : \A d \in DOMAIN roll.dmap[v] :
            HoldsIn(vals, roll.dmap[v][d]) = (v \in run[d - 1])
=============================================================================
