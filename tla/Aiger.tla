------------------------------- MODULE Aiger --------------------------------
(***************************************************************************)
(* logic/aiger: circuits with latches written to AIGER files, in the text  *)
(* and in the binary format, and read from them.  A file is a record of    *)
(* the numbers in it.  An AIGER number is twice a variable, plus one if    *)
(* negated; 0 is false.  Bad, Justice and Fair are treated like Outputs,   *)
(* and are part of outs; names are left out.                               *)
(*                                                                         *)
(* A system is [g, ins, latches, outs, cons], a circuit with sequences of  *)
(* its literals.  The two variables are a reader in the middle of the      *)
(* gates of a binary file, and what it has read.                           *)
(***************************************************************************)
EXTENDS Circuit

CONSTANTS
  ByteBits,  \* bits of a delta in one byte, 7 in the code
  UintBits,  \* width of a uint
  MaxGates,  \* bound on the gates of a file
  AnyGate    \* whether files have gates that C.And simplifies to a negation

VARIABLES
  reader, \* [g, vm]: the circuit so far, and the variable of each AIGER one
  gates   \* the gates read, as pairs of AIGER numbers

aigerVars == <<reader, gates>>

-----------------------------------------------------------------------------
(***************************************************************************)
(* Systems.                                                                *)
(***************************************************************************)
(* MakeFor: inputs and latches in the order of their making. *)
MakeFor(g, outs, cons) ==
  LET Sorted(S) == SetToSortSeq({Pos(i) : i \in S}, <)
      free == FreeNodes(g)
  IN  [g |-> g, outs |-> outs, cons |-> cons,
       ins |-> Sorted({i \in free : g.nodes[i].b = LitNull}),
       latches |-> Sorted({i \in free : g.nodes[i].b # LitNull})]

Map(ms, Op(_)) == [k \in DOMAIN ms |-> Op(ms[k])]

Nexts(s) == Map(s.latches, LAMBDA m : s.g.nodes[Var(m)].b)

AndNodes(g) == {i \in DOMAIN g.nodes : i > 1 /\ IsAnd(g.nodes[i])}

RECURSIVE Post(_, _, _)

(* sDfs.vis: order with the gates below m, children first. *)
Post(g, order, m) ==
  LET v == Var(m)
      n == g.nodes[v]
  IN  IF v <= 1 \/ ~ IsAnd(n) \/ v \in Range(order) THEN order
      ELSE Append(Post(g, Post(g, order, n.a), n.b), v)

PostAll(g, ms) == FoldLeft(LAMBDA order, m : Post(g, order, m), <<>>, ms)

-----------------------------------------------------------------------------
(***************************************************************************)
(* Writing.                                                                *)
(***************************************************************************)
(* writeLit. *)
AsciiLit(m) == CASE m = T -> 0 [] m = F -> 1 [] OTHER -> m - 2

(* One line of writeAsciiAnds. *)
AsciiAnd(s, v) == <<AsciiLit(Pos(v)), AsciiLit(s.g.nodes[v].a), AsciiLit(s.g.nodes[v].b)>>

WriteAscii(s) ==
  LET order == PostAll(s.g, s.outs \o s.cons \o Nexts(s))
      Init(m) == LET a == s.g.nodes[Var(m)].a
                 IN  CASE a = F -> 0 [] a = T -> 1 [] OTHER -> AsciiLit(m)
  IN  [max |-> NNodes(s.g) - 1, nAnd |-> Cardinality(AndNodes(s.g)),
       ins |-> Map(s.ins, AsciiLit), latches |-> Map(s.latches, AsciiLit),
       nexts |-> Map(Nexts(s), AsciiLit), inits |-> Map(s.latches, Init),
       outs |-> Map(s.outs, AsciiLit), cons |-> Map(s.cons, AsciiLit),
       ands |-> Map(order, LAMBDA v : AsciiAnd(s, v))]

(* aigerBinWriter.mapLit and forLit: vs are the variables in the order in  *)
(* which they were mapped, and a constant has no sign.                     *)
BinLit(vs, m) ==
  LET k == SelectInSeq(vs, LAMBDA v : v = Var(m)) - 1
  IN  IF k = 0 \/ m = Pos(Var(m)) THEN 2 * k ELSE 2 * k + 1

(* write7. *)
RECURSIVE Write7(_)
Write7(n) ==
  LET b == 2 ^ ByteBits
  IN  CASE n = 0 -> <<>>
        [] n \in 1 .. (b - 1) -> <<[bits |-> n, more |-> FALSE]>>
        [] OTHER -> <<[bits |-> n % b, more |-> TRUE]>> \o Write7(n \div b)

(* Mutant: the conjuncts are written in their order in the circuit. *)
WriteUnswapped(vs, v, n) ==
  LET w == 2 ^ UintBits
      c0 == BinLit(vs, n.a)
  IN  Write7((BinLit(vs, Pos(v)) - c0 + w) % w) \o Write7((c0 - BinLit(vs, n.b) + w) % w)

(* writeBinAnd: the second conjunct first.  Its check of the deltas, which *)
(* are unsigned, finds those that are 0: gates have two distinct children. *)
WriteBinAnd(vs, v, n) ==
  LET w == 2 ^ UintBits
      c0 == BinLit(vs, n.b)
  IN  Write7((BinLit(vs, Pos(v)) - c0 + w) % w) \o Write7((c0 - BinLit(vs, n.a) + w) % w)

(* WriteBinary: the second pass over the gates leaves out the constraints. *)
WriteBinary(s) ==
  LET vs == Map(<<T>> \o s.ins \o s.latches, Var) \o PostAll(s.g, s.outs \o Nexts(s) \o s.cons)
      Lit7(m) == BinLit(vs, m)
      Init(m) == LET a == s.g.nodes[Var(m)].a
                 IN  CASE a = LitNull -> Lit7(m) [] a = F -> 1 [] OTHER -> 0
  IN  [max |-> NNodes(s.g) - 1, nAnd |-> Cardinality(AndNodes(s.g)), nIn |-> Len(s.ins),
       nexts |-> Map(Nexts(s), Lit7), inits |-> Map(s.latches, Init),
       outs |-> Map(s.outs, Lit7), cons |-> Map(s.cons, Lit7),
       bytes |-> FlattenSeq(Map(PostAll(s.g, s.outs \o Nexts(s)),
                                LAMBDA v : WriteBinAnd(vs, v, s.g.nodes[v])))]

-----------------------------------------------------------------------------
(***************************************************************************)
(* Reading.                                                                *)
(***************************************************************************)
(* makeAigerReader, of a file with AIGER variables 0 .. max. *)
MakeReader(max) ==
  [g |-> InitC(max + 1), vm |-> [i \in 0 .. max |-> IF i = 0 THEN Var(F) ELSE 0]]

(* aigerReader.litFor. *)
LitFor(r, u) ==
  LET v == r.vm[u \div 2]
  IN  CASE u = 1 -> T
        [] u = 0 -> F
        [] v = 0 -> LitNull
        [] OTHER -> IF u % 2 = 0 THEN Pos(v) ELSE Not(Pos(v))

(* aigerReader.mapLit, which forgets the sign of m. *)
MapLit(r, u, m) == [r EXCEPT !.vm[u \div 2] = Var(m)]

MapInput(r, u) == MapLit([r EXCEPT !.g = NewNode(@, LitNull, LitNull)], u, Pos(NNodes(r.g)))

MapLatch(r, u) == MapLit([r EXCEPT !.g = WithLatch(@, F)], u, Pos(NNodes(r.g)))

MapAnd(r, u, c0, c1) ==
  LET a == And(r.g, LitFor(r, c0), LitFor(r, c1)) IN MapLit([r EXCEPT !.g = a.g], u, a.m)

(* The inputs and latches of a file, with their AIGER numbers. *)
MapFree(r, ins, latches) ==
  FoldLeft(MapLatch, FoldLeft(MapInput, r, ins), latches)

Failed == [ok |-> FALSE]

(* readOutputs, readConstraints, readLatches: a literal beyond the header. *)
OutOfBounds(f) == \E u \in Range(f.outs \o f.cons \o f.nexts) : u > 2 * f.max + 1

(* aigerReader.commit, and what readLatches makes of the initial values:   *)
(* the value that stands for an unknown one is checked by its position.    *)
Commit(f, r, ins, latches) ==
  LET Of(u) == LitFor(r, u)
      Unknown(k) == 2 * (Len(ins) + k)
      Value(k) == CASE f.inits[k] = 0 -> F [] f.inits[k] = 1 -> T [] OTHER -> LitNull
      Set(g, k) == [g EXCEPT !.nodes[Var(Of(latches[k]))].a = Value(k),
                             !.nodes[Var(Of(latches[k]))].b = Of(f.nexts[k])]
  IN  IF \/ OutOfBounds(f)
         \/ \E u \in Range(f.outs \o f.cons \o f.nexts) : Of(u) = LitNull
         \/ \E k \in DOMAIN latches : f.inits[k] \notin {0, 1, Unknown(k)}
      THEN Failed
      ELSE [ok |-> TRUE, g |-> FoldLeft(Set, r.g, [k \in DOMAIN latches |-> k]),
            ins |-> Map(ins, Of), latches |-> Map(latches, Of),
            outs |-> Map(f.outs, Of), cons |-> Map(f.cons, Of)]

(* aigerReader.mapAndsRec of AIGER variable i, where ands[i] are children. *)
RECURSIVE MapAndsRec(_, _, _)
MapAndsRec(r, ands, i) ==
  LET c == ands[i]
      s == MapAndsRec(MapAndsRec(r, ands, c[1] \div 2), ands, c[2] \div 2)
  IN  IF r.vm[i] # 0 THEN r ELSE MapAnd(s, 2 * i, c[1], c[2])

(* The errors of readAsciiAnds: the number of gates is not that of the     *)
(* header, a literal is out of bounds, a gate is negated or defined twice, *)
(* one of its children is not defined, as the constants never are, or it   *)
(* depends on itself.                                                      *)
BadAnds(f, ands, defined) ==
  \/ Len(f.ands) # f.nAnd
  \/ \E a \in Range(f.ands) : \E u \in Range(a) : u > 2 * f.max + 1
  \/ \E k \in DOMAIN f.ands : f.ands[k][1] % 2 # 0
  \/ Cardinality(DOMAIN ands) # Len(f.ands)
  \/ \E i \in DOMAIN ands : \E k \in 1 .. 2 : ands[i][k] \div 2 \notin defined
  \/ \E S \in SUBSET DOMAIN ands :
       S # {} /\ \A i \in S : \E k \in 1 .. 2 : ands[i][k] \div 2 \in S

ReadAscii(f) ==
  LET r == MapFree(MakeReader(f.max), f.ins, f.latches)
      Gate(i) == SelectInSeq(f.ands, LAMBDA a : a[1] \div 2 = i)
      ands == [i \in {a[1] \div 2 : a \in Range(f.ands)} |-> <<f.ands[Gate(i)][2], f.ands[Gate(i)][3]>>]
      order == SetToSortSeq(DOMAIN ands, <)
      defined == DOMAIN ands \cup {u \div 2 : u \in Range(f.ins \o f.latches)}
  IN  IF BadAnds(f, ands, defined) THEN Failed
      ELSE Commit(f, FoldLeft(LAMBDA s, i : MapAndsRec(s, ands, i), r, order), f.ins, f.latches)

(* read7, and the bytes behind the number. *)
Read7(bytes) ==
  LET n == SelectInSeq(bytes, LAMBDA b : ~ b.more)
  IN  [val |-> FoldRight(LAMBDA b, val : b.bits + 2 ^ ByteBits * val, SubSeq(bytes, 1, n), 0),
       rest |-> SubSeq(bytes, n + 1, Len(bytes))]

(* readBinaryAnds of n gates, the next of which is id.  When the gates end *)
(* too early, the comment is read for one, and its delta is too large.     *)
RECURSIVE ReadBinaryAnds(_, _, _, _)
ReadBinaryAnds(r, bytes, id, n) ==
  LET d0 == Read7(bytes)
      d1 == Read7(d0.rest)
      c0 == id - d0.val
      c1 == c0 - d1.val
  IN  IF n = 0 THEN [ok |-> TRUE, r |-> r]
      ELSE IF bytes = <<>> \/ c0 < 0 \/ d0.rest = <<>> \/ c1 < 0 THEN Failed
      ELSE ReadBinaryAnds(MapAnd(r, id, c1, c0), d1.rest, id + 2, n - 1)

Numbers(first, n) == [k \in 1 .. n |-> 2 * (first + k - 1)]

ReadBinary(f) ==
  LET ins == Numbers(1, f.nIn)
      latches == Numbers(f.nIn + 1, Len(f.nexts))
      id == 2 * (1 + Len(ins \o latches))
      a == ReadBinaryAnds(MapFree(MakeReader(f.max), ins, latches), f.bytes, id, f.nAnd)
  IN  IF a.ok THEN Commit(f, a.r, ins, latches) ELSE Failed

-----------------------------------------------------------------------------
(***************************************************************************)
(* A binary file read gate by gate.                                        *)
(***************************************************************************)
AigerInit == reader = MakeReader(0) /\ gates = <<>>

(* The header, and n inputs. *)
ReadHeader(n) ==
  /\ reader = MakeReader(0)
  /\ reader' = MapFree(MakeReader(n + MaxGates), Numbers(1, n), <<>>)
  /\ UNCHANGED gates

Known(r) == {i \in DOMAIN r.vm : r.vm[i] # 0}

(* One gate of readBinaryAnds: its number is the next, its children come   *)
(* before, the larger first.                                               *)
ReadAnd(c0, c1) ==
  LET id == 2 * Cardinality(Known(reader))
      m == And(reader.g, LitFor(reader, c0), LitFor(reader, c1)).m
  IN  /\ reader # MakeReader(0) /\ Len(gates) < MaxGates
      /\ c1 <= c0 /\ c0 < id
      /\ AnyGate \/ m = Pos(Var(m))
      /\ reader' = MapAnd(reader, id, c1, c0)
      /\ gates' = Append(gates, <<c0, c1>>)

AigerNext ==
  \/ \E n \in 1 .. 2 : ReadHeader(n)
  \/ \E c0, c1 \in 0 .. (2 * Cardinality(Known(reader)) - 1) : ReadAnd(c0, c1)

-----------------------------------------------------------------------------
(***************************************************************************)
(* Properties.                                                             *)
(***************************************************************************)
(* "translate only after the ands have been translated, since the          *)
(* *logic.S can optimize away some ands": every number of a file that was  *)
(* read stands for a literal with the meaning the gates of the file give,  *)
(* whatever C.And made of them.                                            *)
Holds(V, u) == (u \div 2 \in V) # (u % 2 = 1)

GatesMean ==
  LET n == Cardinality(Known(reader)) - 1 - Len(gates)
      FileTrue(A) ==
        FoldLeft(LAMBDA V, k : IF Holds(V, gates[k][1]) /\ Holds(V, gates[k][2]) THEN V \cup {n + k} ELSE V,
                 A, [k \in DOMAIN gates |-> k])
  IN  \A A \in SUBSET (1 .. n) :
        LET vals == TruthOf(reader.g, A)
            V == FileTrue(A)
        IN  \A i \in Known(reader) : \A u \in {2 * i, 2 * i + 1} :
              HoldsIn(vals, LitFor(reader, u)) = Holds(V, u)

(* Two systems agree in their inputs, latches and initial values, and in   *)
(* every state under every input in their outputs and next states.         *)
Agree(s, t) ==
  LET Given(x, A) == Eval(x.g, {Var((x.ins \o x.latches)[k]) : k \in A})
      Roots(x) == x.outs \o x.cons \o Nexts(x)
  IN  /\ Len(s.ins) = Len(t.ins) /\ Len(s.latches) = Len(t.latches)
      /\ Len(s.outs) = Len(t.outs) /\ Len(s.cons) = Len(t.cons)
      /\ \A k \in DOMAIN s.latches :
           s.g.nodes[Var(s.latches[k])].a = t.g.nodes[Var(t.latches[k])].a
      /\ \A A \in SUBSET DOMAIN (s.ins \o s.latches) :
           LET V == Given(s, A)
               W == Given(t, A)
           IN  \A k \in DOMAIN Roots(s) : HoldsIn(V, Roots(s)[k]) = HoldsIn(W, Roots(t)[k])

(* The systems the formats of the code can carry.  In both, every gate is  *)
(* written, constants are not, since they change their value, and no gate  *)
(* is there twice, as after Copy: one made of the two would be simplified. *)
Carried(s, ms) ==
  /\ Range(PostAll(s.g, ms)) = AndNodes(s.g)
  /\ \A m \in Range(s.outs \o s.cons \o Nexts(s)) : m \notin {T, F}
  /\ \A i, j \in AndNodes(s.g) :
       i < j => s.g.nodes[i].a # s.g.nodes[j].a \/ s.g.nodes[i].b # s.g.nodes[j].b

(* An unknown latch has the number its place gives it. *)
AsciiCarries(s) ==
  /\ Carried(s, s.outs \o s.cons \o Nexts(s))
  /\ \A k \in DOMAIN s.latches :
       s.g.nodes[Var(s.latches[k])].a = LitNull => Var(s.latches[k]) = Len(s.ins) + k + 1

(* A gate only a constraint needs is not written, initial values are       *)
(* inverted, and the order of mapping must be that of the circuit.         *)
BinaryCarries(s) ==
  LET vs == Map(<<T>> \o s.ins \o s.latches, Var) \o PostAll(s.g, s.outs \o Nexts(s))
  IN  /\ Carried(s, s.outs \o Nexts(s))
      /\ \A m \in Range(s.latches) : s.g.nodes[Var(m)].a = LitNull
      /\ \A i \in AndNodes(s.g) : BinLit(vs, s.g.nodes[i].a) < BinLit(vs, s.g.nodes[i].b)

(* What a format carries is read back as it was written. *)
WrittenMean(s) ==
  /\ AsciiCarries(s) => LET t == ReadAscii(WriteAscii(s)) IN t.ok /\ Agree(s, t)
  /\ BinaryCarries(s) => LET t == ReadBinary(WriteBinary(s)) IN t.ok /\ Agree(s, t)

(* Files mean the circuits: those that are read gate by gate, and those    *)
(* which are written with literals made so far as outputs and constraints. *)
FilesMean ==
  /\ GatesMean
  /\ cnf = {} /\ roll = NoRoll =>
       \A x, y \in {e.m : e \in want} :
         \A cons \in {<<>>, <<x>>} : WrittenMean(MakeFor(circ, <<Not(x), y>>, cons))
=============================================================================
