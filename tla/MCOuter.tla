------------------------------- MODULE MCOuter ------------------------------
(***************************************************************************)
(* What lies around the solver: circuits, their files, the map of          *)
(* variables, the CRISP connection and the coding under it, each on its    *)
(* own: part says which of them runs, and the others stay as they begin.   *)
(***************************************************************************)
EXTENDS Aiger, Sv, Crisp, Codec

VARIABLE part

outerVars == <<circuitVars, aigerVars, svVars, vars, codecVars, part>>

(* Few collisions would leave the lists of the hash table short. *)
MCStrashCode(a, b) == a + b

Frees == Cardinality(FreeNodes(circ))
Inits == {LitNull, F, T}

(* The inputs in the order of their making. *)
Inputs == [k \in 1 .. Frees |-> CHOOSE e \in want : Var(e.m) \in FreeNodes(circ) /\ Rank(circ, Var(e.m)) = k]
Some == want \cup {[m |-> T, tt |-> Valuations]}
Latches == {i \in FreeNodes(circ) : IsLatch(i)}

(* Circuits of two inputs: operations, then clauses, then more of both. *)
MCComb ==
  \/ Frees < 2 /\ Lit
  \/ /\ Frees = 2
     /\ \/ \E x, y \in Operands : x.m < y.m /\ (MakeAnd(x, y) \/ (made = 0 /\ MakeXor(x, y)))
        \/ \E x, y \in Some : MakeImplies(x, y)
        \/ \E i, x, y \in want : Cardinality({i, x, y}) > 1 /\
             (MakeChoice(i, x, y) \/ MakeAnds(<<x, y, i>>) \/ MakeOrs(<<x, y, i>>))
  \/ made = 1 /\ cnf = {} /\ Copy
  \/ made = MaxMade /\ cnf = {} /\ ToCnf
  \/ made > 0 /\ Cardinality(roots) < made /\ \E e \in want : CnfSince(e)

(* A sorting network of inputs only. *)
MCCard ==
  \/ made = 0 /\ Lit
  \/ /\ made = 0
     /\ \E p \in {"leq", "less", "geq", "gr"} : \E b \in -1 .. (Frees + 1) : MakeCard(Inputs, p, b)
  \/ Frees <= 3 /\ cnf = {} /\ ToCnf

(* Two free nodes, one of them a latch, and an operation. *)
MCSeq ==
  \/ Frees = 0 /\ (Lit \/ \E a \in Inits : Latch(a))
  \/ Frees = 1 /\ made = 0 /\ ((Latches # {} /\ Lit) \/ Latch(F))
  \/ made = 0 /\ Frees = 2 /\ \E x, y \in Operands : x.m < y.m /\ T < x.m /\ MakeAnd(x, y)
  \/ /\ made = 1 /\ NNodes(circ) > 4
     /\ \E i \in Latches :
          /\ \A j \in Latches : circ.nodes[j].b = Pos(j) => i <= j
          /\ \E e \in Operands : e.m # T /\ SetNext(i, e.m)
  \/ \E i \in Latches : made = 0 /\ Frees = 2 /\ circ.nodes[i].a = F /\ SetInit(i, T)
  \/ made = 1 /\ \E e \in want : \E d \in 0 .. MaxDepth : RollAt(e.m, d)

(* The map of variables: one unit, and one assumption at a time. *)
MCVars ==
  SvNext /\ units' \subseteq {3} /\ Cardinality(said.assumed') <= 1

(* Numbers of one, two and three bytes; models of no value, of one word    *)
(* that is full or not, and of two words.                                  *)
MCMessages ==
  {[form |-> "list", op |-> 31, data |-> d] : d \in {<<>>, <<2>>, <<5, 27>>}}
    \cup {[form |-> "model", op |-> 31, data |-> d] :
            d \in {<<>>, <<TRUE, FALSE>>, [i \in 1 .. 5 |-> i # 2], [i \in 1 .. 6 |-> i \in {5, 6}]}}

Parts == {"comb", "card", "seq", "vars", "connection", "codec", "aiger"}

MCInit == CircuitInit /\ AigerInit /\ SvInit /\ Init /\ CodecInit /\ part \in Parts

MCNext ==
  /\ UNCHANGED part
  /\ \/ part = "comb" /\ MCComb /\ UNCHANGED <<aigerVars, svVars, vars, codecVars>>
     \/ part = "card" /\ MCCard /\ UNCHANGED <<aigerVars, svVars, vars, codecVars>>
     \/ part = "seq" /\ MCSeq /\ UNCHANGED <<aigerVars, svVars, vars, codecVars>>
     \/ part = "aiger" /\ AigerNext /\ UNCHANGED <<circuitVars, svVars, vars, codecVars>>
     \/ part = "vars" /\ MCVars /\ UNCHANGED <<circuitVars, aigerVars, vars, codecVars>>
     \/ part = "connection" /\ Next /\ UNCHANGED <<circuitVars, aigerVars, svVars, codecVars>>
     \/ part = "codec" /\ CodecNext /\ UNCHANGED <<circuitVars, aigerVars, svVars, vars>>

MCSpec == MCInit /\ [][MCNext]_outerVars /\ Fairness
=============================================================================
