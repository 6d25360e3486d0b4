------------------------------ MODULE MCSolver ------------------------------
EXTENDS Solver

CONSTANT
  Kinds  \* the kinds of clients, a sequence of records
         \*   formulas  the problems, sequences of clauses in the order of Add
         \*   late      how many clauses may be added after another call
         \*   calls, scopes, restarts  the bounds of the kind
         \*   retest    whether it calls Test after an unsat result; if it does,
         \*             it assumes nothing after its second call, has no Untest,
         \*             and its Solves are not ended

VARIABLES
  kind,  \* which client it is
  todo   \* the clauses still to be added

mcVars == <<vars, kind, todo>>

K == Kinds[kind]

MCInit ==
  /\ Init /\ kind \in DOMAIN Kinds /\ todo \in K.formulas

MayTest ==
  /\ Len(scopes) < K.scopes
  /\ K.retest \/ unresolved = "none" \/ scopes = <<>>

MCCall ==
  /\ ~ Stopped /\ UNCHANGED kind
  /\ \/ todo # <<>> /\ Add(todo[1]) /\ todo' = Tail(todo)
     \/ /\ Len(todo) <= K.late
        /\ \/ (K.retest => calls < 2) /\ \E m \in AssumeSpace : Assume(m)
           \/ calls < K.calls /\ MayTest /\ Test
           \/ calls < K.calls /\ (K.retest => calls > 0) /\ Solve
           \/ calls < K.calls /\ ~ K.retest /\ Untest
        /\ UNCHANGED todo

MCStep ==
  /\ TrailStep \/ SolverStep
  /\ restarts' <= K.restarts
  /\ K.retest /\ op = "solve" => res' # "unknown"
  /\ UNCHANGED <<kind, todo>>

MCNext == MCCall \/ MCStep

MCSpec == MCInit /\ [][MCNext]_mcVars /\ WF_mcVars(MCStep)

MCAddSpace == UNION {ToSet(f) : f \in UNION {Kinds[k].formulas : k \in DOMAIN Kinds}}

(* 2 is x1, 3 its negation, 4 and 5 those of x2, and so on. *)
MCFormulas ==
  { \* x1 and x2 exclude each other only through x3
    << <<3, 5, 6>>, <<7, 3, 5>>, <<2, 4, 6>> >>,
    \* x1 forces x2, x2 forces both values of x3
    << <<3, 4>>, <<5, 3, 6>>, <<7, 5>>, <<2, 6, 2>> >>,
    \* unsatisfiable
    << <<2, 4>>, <<3, 4>>, <<5, 6>>, <<7, 5>> >>,
    \* the last clause is false at level 0 when it is added, or when it is
    \* propagated
    << <<2>>, <<4, 6>>, <<3>> >>,
    << <<2>>, <<3, 4>>, <<5>> >> }

(* x1 fails, but only by search; x1 fails by propagation. *)
ScopeFormulas ==
  { << <<3, 4, 6>>, <<3, 4, 7>>, <<5, 6, 3>>, <<5, 3, 7>> >>,
    << <<3, 4>>, <<5, 3, 6>>, <<7, 5>> >> }

(* x2 fails by propagation whatever x1 is; in the second x1 then fails    *)
(* too.                                                                    *)
PanicFormulas ==
  { << <<5, 6>>, <<7, 5>> >>,
    << <<5, 6>>, <<7, 5>>, <<3, 4, 6>>, <<3, 4, 7>> >> }

LiveFormulas == {<< <<3, 4>>, <<5, 3, 6>>, <<7, 5>> >>}

(* A client that only solves, one that tests, and one that tests again     *)
(* after an unsat result.                                                  *)
Solving == [formulas |-> MCFormulas, late |-> 1, calls |-> 2, scopes |-> 0, restarts |-> 1, retest |-> FALSE]
Testing == [formulas |-> ScopeFormulas, late |-> 0, calls |-> 4, scopes |-> 2, restarts |-> 0, retest |-> FALSE]
MCKinds == <<Solving, Testing>>
ForgetKinds == <<[Solving EXCEPT !.restarts = 0]>>
LiveKinds ==
  <<[formulas |-> LiveFormulas, late |-> 0, calls |-> 2, scopes |-> 1, restarts |-> 1, retest |-> FALSE],
    [Testing EXCEPT !.formulas = PanicFormulas, !.calls = 3, !.retest = TRUE]>>

MCAssumeSpace == {2, 4}
=============================================================================
