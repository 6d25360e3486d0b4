----------------------------- MODULE OuterProofs -----------------------------
(***************************************************************************)
(* Proofs about modules Sv and Crisp, which lie around the solver, and     *)
(* about Guess, which stands on its own.                                   *)
(*                                                                         *)
(* Sv: the two maps of z.Vars stay inverse, whatever variables are asked   *)
(* for and in whatever order.                                              *)
(*                                                                         *)
(* Crisp: what client and handler send arrives when it is expected, the    *)
(* answers are those of the last solve, and nothing but a test or a stop   *)
(* reaches a solver which runs, whatever the number of calls.              *)
(*                                                                         *)
(* Guess: the variables to guess stay in a heap in which no free variable  *)
(* is missing.                                                             *)
(***************************************************************************)
EXTENDS Sv, Crisp, Guess, FiniteSetTheorems, SequenceTheorems, TLAPS

(* Any order of calls, without a bound on the slices of the maps but       *)
(* MaxInner for those that the application itself makes longer.            *)
SvSpec == SvInit /\ [][SvNext]_svVars

(***************************************************************************)
(* The inductive invariant.  Both maps are slices; an outer variable o # 0 *)
(* is mapped to and fro, and an inner variable that the application has or *)
(* has given back is mapped to 0, so no outer variable is mapped to it.    *)
(***************************************************************************)
Slice(f) == \E n \in Nat : DOMAIN f = 0 .. n - 1

Members(a) == {a[k] : k \in DOMAIN a}
Once(a) == \A j, k \in DOMAIN a : a[j] = a[k] => j = k
Freed == Members(freed)

SvInv ==
  /\ Slice(o2i) /\ Slice(i2o) /\ freed \in Seq(Nat)
  /\ \A o \in DOMAIN o2i : o # 0 => o2i[o] \in DOMAIN i2o /\ i2o[o2i[o]] = o
  /\ \A v \in inners \cup Freed : v \in DOMAIN i2o /\ i2o[v] = 0
  /\ inners \cap Freed = {}
  /\ Once(freed)

-----------------------------------------------------------------------------
(***************************************************************************)
(* Lemmas about the operations of Vars.                                    *)
(***************************************************************************)

(* The length of a slice is the length of its index set.                   *)
LEMMA SliceLength ==
  ASSUME NEW f, Slice(f)
  PROVE  Length(f) \in Nat /\ DOMAIN f = 0 .. Length(f) - 1
<1>1. PICK n \in Nat : DOMAIN f = 0 .. n - 1
  BY DEF Slice
<1>2. Cardinality(0 .. n - 1) = n
  <2>1. 0 \in Int /\ n - 1 \in Int
    OBVIOUS
  <2>2. Cardinality(0 .. n - 1) = IF 0 > n - 1 THEN 0 ELSE (n - 1) - 0 + 1
    BY <2>1, FS_Interval
  <2> QED BY <2>2
<1> QED BY <1>1, <1>2 DEF Length

(* Making room for outer variables keeps what is mapped, and maps each new *)
(* outer variable to a new inner one and back.                             *)
LEMMA OuterCapEffect ==
  ASSUME Slice(o2i), Slice(i2o), NEW w \in Nat, EnsureOuterCap(w)
  PROVE  /\ Slice(o2i') /\ Slice(i2o')
         /\ DOMAIN o2i \subseteq DOMAIN o2i' /\ DOMAIN i2o \subseteq DOMAIN i2o'
         /\ \A o \in DOMAIN o2i : o2i'[o] = o2i[o]
         /\ \A i \in DOMAIN i2o : i2o'[i] = i2o[i]
         /\ \A o \in DOMAIN o2i' \ DOMAIN o2i :
              o2i'[o] \in DOMAIN i2o' \ DOMAIN i2o /\ i2o'[o2i'[o]] = o
<1>1. PICK n \in Nat : n = Length(o2i) /\ DOMAIN o2i = 0 .. n - 1
  BY SliceLength
<1>2. PICK k \in Nat : k = Length(i2o) /\ DOMAIN i2o = 0 .. k - 1
  BY SliceLength
<1>3. PICK more \in Nat : more = IF w < n THEN 0 ELSE w + 1 - n
  <2>1. CASE w < n
    BY <2>1
  <2>2. CASE ~ (w < n)
    <3>1. w + 1 - n \in Nat
      BY <2>2
    <3> QED BY <2>2, <3>1
  <2> QED BY <2>1, <2>2
<1>4. /\ o2i' = [o \in 0 .. (n + more - 1) |-> IF o < n THEN o2i[o] ELSE k + (o - n)]
      /\ i2o' = [i \in 0 .. (k + more - 1) |-> IF i < k THEN i2o[i] ELSE n + (i - k)]
  BY <1>1, <1>2, <1>3 DEF EnsureOuterCap
<1>5. DOMAIN o2i' = 0 .. (n + more - 1) /\ DOMAIN i2o' = 0 .. (k + more - 1)
  BY <1>4
<1>6. Slice(o2i') /\ Slice(i2o')
  <2>1. PICK p \in Nat : p = n + more
    OBVIOUS
  <2>2. PICK q \in Nat : q = k + more
    OBVIOUS
  <2>3. DOMAIN o2i' = 0 .. p - 1 /\ DOMAIN i2o' = 0 .. q - 1
    BY <1>5, <2>1, <2>2
  <2> QED BY <2>3 DEF Slice
<1>7. \A o \in DOMAIN o2i' \ DOMAIN o2i :
        o2i'[o] \in DOMAIN i2o' \ DOMAIN i2o /\ i2o'[o2i'[o]] = o
  <2> SUFFICES ASSUME NEW o \in n .. (n + more - 1)
               PROVE  o2i'[o] \in k .. (k + more - 1) /\ i2o'[o2i'[o]] = o
    BY <1>1, <1>2, <1>5, SMTT(40)
  <2>1. o2i'[o] = k + (o - n)
    BY <1>4
  <2>2. k + (o - n) \in 0 .. (k + more - 1) /\ ~ (k + (o - n) < k)
    OBVIOUS
  <2>3. i2o'[k + (o - n)] = n + ((k + (o - n)) - k)
    BY <1>4, <2>2
  <2> QED BY <2>1, <2>2, <2>3
<1>8. /\ \A o \in 0 .. n - 1 : o \in 0 .. (n + more - 1) /\ o < n
      /\ \A i \in 0 .. k - 1 : i \in 0 .. (k + more - 1) /\ i < k
  OBVIOUS
<1>9. /\ \A o \in DOMAIN o2i : o \in DOMAIN o2i' /\ o2i'[o] = o2i[o]
      /\ \A i \in DOMAIN i2o : i \in DOMAIN i2o' /\ i2o'[i] = i2o[i]
  BY <1>1, <1>2, <1>4, <1>5, <1>8
<1> QED BY <1>6, <1>7, <1>9

(* Making room for inner variables maps the new ones to nothing.           *)
LEMMA InnerCapEffect ==
  ASSUME Slice(i2o), NEW w \in Nat, EnsureInnerCap(w)
  PROVE  /\ Slice(i2o') /\ DOMAIN i2o \subseteq DOMAIN i2o' /\ w \in DOMAIN i2o'
         /\ \A i \in DOMAIN i2o' : i2o'[i] = IF i \in DOMAIN i2o THEN i2o[i] ELSE 0
<1>1. PICK k \in Nat : DOMAIN i2o = 0 .. k - 1
  BY DEF Slice
<1>2. DOMAIN i2o' = DOMAIN i2o \cup (0 .. w)
  BY DEF EnsureInnerCap
<1>3. \A i \in DOMAIN i2o' : i2o'[i] = IF i \in DOMAIN i2o THEN i2o[i] ELSE 0
  BY DEF EnsureInnerCap
<1>4. \E m \in Nat : DOMAIN i2o' = 0 .. m - 1
  <2>1. CASE w < k
    BY <1>1, <1>2, <2>1
  <2>2. CASE w >= k
    <3>1. DOMAIN i2o' = 0 .. (w + 1) - 1
      BY <1>1, <1>2, <2>2
    <3> QED BY <3>1
  <2> QED BY <2>1, <2>2
<1> QED BY <1>2, <1>3, <1>4 DEF Slice

(* Taking the last member of a sequence without repetition.                *)
LEMMA LastTaken ==
  ASSUME NEW S, NEW a \in Seq(S), a # <<>>, Once(a), NEW b, b = SubSeq(a, 1, Len(a) - 1)
  PROVE  /\ b \in Seq(S) /\ a[Len(a)] \in Members(a)
         /\ Members(b) = Members(a) \ {a[Len(a)]} /\ Once(b)
<1>1. PICK n \in Nat : n = Len(a) /\ DOMAIN a = 1 .. n
  OBVIOUS
<1>2. n >= 1 /\ n - 1 \in Nat
  BY <1>1
<1>3. /\ b \in Seq(S) /\ DOMAIN b = 1 .. (n - 1)
      /\ \A k \in 1 .. (n - 1) : b[k] = a[k]
  BY <1>1, <1>2
<1>4. a[n] \in Members(a)
  BY <1>1, <1>2 DEF Members
<1>5. /\ \A k \in 1 .. n : k = n \/ k \in 1 .. (n - 1)
      /\ \A k \in 1 .. (n - 1) : k \in 1 .. n /\ a[k] # a[n]
  BY <1>1, <1>2 DEF Once
<1>6. Members(b) = Members(a) \ {a[n]}
  <2>1. \A x \in Members(b) : x \in Members(a) \ {a[n]}
    BY <1>1, <1>3, <1>5, ZenonT(40) DEF Members
  <2>2. \A x \in Members(a) \ {a[n]} : x \in Members(b)
    BY <1>1, <1>3, <1>5 DEF Members
  <2> QED BY <2>1, <2>2
<1>7. Once(b)
  BY <1>1, <1>3, <1>5 DEF Once
<1> QED BY <1>1, <1>3, <1>4, <1>6, <1>7

(* Appending another member.                                               *)
LEMMA OneAppended ==
  ASSUME NEW S, NEW a \in Seq(S), NEW v \in S
  PROVE  /\ Append(a, v) \in Seq(S) /\ Members(Append(a, v)) = Members(a) \cup {v}
         /\ v \notin Members(a) /\ Once(a) => Once(Append(a, v))
<1>1. PICK n \in Nat : n = Len(a) /\ DOMAIN a = 1 .. n
  OBVIOUS
<1>2. /\ Append(a, v) \in Seq(S) /\ DOMAIN Append(a, v) = 1 .. (n + 1) /\ Append(a, v)[n + 1] = v
      /\ \A k \in 1 .. n : Append(a, v)[k] = a[k]
  BY <1>1
<1>3. Members(Append(a, v)) = Members(a) \cup {v}
  BY <1>1, <1>2 DEF Members
<1>4. v \notin Members(a) /\ Once(a) => Once(Append(a, v))
  BY <1>1, <1>2 DEF Once, Members
<1> QED BY <1>2, <1>3, <1>4

-----------------------------------------------------------------------------
(***************************************************************************)
(* The theorems.                                                           *)
(***************************************************************************)

(* Two empty maps are inverse.                                             *)
LEMMA InitSvInv == SvInit => SvInv
<1> SUFFICES ASSUME SvInit PROVE SvInv
  OBVIOUS
<1>1. DOMAIN i2o = {} /\ DOMAIN o2i = {} /\ freed = <<>> /\ inners = {}
  BY DEF SvInit, NewVars, Empty
<1>2. {} = 0 .. 0 - 1
  OBVIOUS
<1>3. Slice(i2o) /\ Slice(o2i)
  BY <1>1, <1>2 DEF Slice
<1> QED BY <1>1, <1>3 DEF SvInv, Freed, Members, Once

(* Every operation of Vars preserves the inductive invariant.              *)
LEMMA SvStep ==
  ASSUME SvInv, SvNext
  PROVE  SvInv'
<1> USE DEF SvInv
<1>1. CASE UNCHANGED <<i2o, o2i, freed, inners>>
  BY <1>1 DEF Freed, Slice
<1>2. CASE Inner
  <2>1. CASE freed # <<>>
    <3> DEFINE v == freed[Len(freed)]
    <3>1. /\ freed' = SubSeq(freed, 1, Len(freed) - 1) /\ inners' = inners \cup {v}
          /\ UNCHANGED <<i2o, o2i>>
      BY <1>2, <2>1 DEF Inner
    <3>2. freed' \in Seq(Nat) /\ v \in Freed /\ Freed' = Freed \ {v} /\ Once(freed')
      BY <2>1, <3>1, LastTaken DEF Freed
    <3> HIDE DEF v
    <3> QED BY <3>1, <3>2 DEF Slice
  <2>2. CASE freed = <<>>
    <3>1. PICK k \in Nat : k = Length(i2o) /\ DOMAIN i2o = 0 .. k - 1
      BY SliceLength
    <3>2. EnsureInnerCap(k) /\ inners' = inners \cup {k} /\ UNCHANGED <<o2i, freed>>
      BY <1>2, <2>2, <3>1 DEF Inner
    <3>3. /\ Slice(i2o') /\ DOMAIN i2o \subseteq DOMAIN i2o' /\ k \in DOMAIN i2o'
          /\ \A i \in DOMAIN i2o' : i2o'[i] = IF i \in DOMAIN i2o THEN i2o[i] ELSE 0
      BY <3>2, InnerCapEffect
    <3>4. k \notin DOMAIN i2o /\ Freed = {} /\ Freed' = {}
      BY <2>2, <3>1, <3>2 DEF Freed, Members
    <3> QED BY <3>2, <3>3, <3>4 DEF Slice
  <2> QED BY <2>1, <2>2
<1>3. ASSUME NEW v \in inners, FreeInner(v)
      PROVE  SvInv'
  <2>1. freed' = Append(freed, v) /\ inners' = inners \ {v} /\ UNCHANGED <<i2o, o2i>>
    BY <1>3 DEF FreeInner
  <2>2. v \in Nat /\ v \notin Freed
    BY <1>3, SliceLength
  <2>3. freed' \in Seq(Nat) /\ Freed' = Freed \cup {v} /\ Once(freed')
    <3>1. freed \in Seq(Nat)
      OBVIOUS
    <3>2. Once(freed) /\ v \notin Members(freed)
      BY <2>2 DEF Freed
    <3>3. v \in Nat
      BY <2>2
    <3>4. freed' = Append(freed, v)
      BY <2>1
    <3> HIDE DEF SvInv
    <3>5. freed' \in Seq(Nat) /\ Members(freed') = Members(freed) \cup {v} /\ Once(freed')
      BY <3>1, <3>2, <3>3, <3>4, OneAppended
    <3> QED BY <3>5 DEF Freed, Members
  <2> QED BY <1>3, <2>1, <2>3 DEF Slice
<1>4. ASSUME NEW w \in Nat, EnsureInnerCap(w), UNCHANGED <<o2i, freed, inners>>
      PROVE  SvInv'
  <2>1. /\ Slice(i2o') /\ DOMAIN i2o \subseteq DOMAIN i2o'
        /\ \A i \in DOMAIN i2o' : i2o'[i] = IF i \in DOMAIN i2o THEN i2o[i] ELSE 0
    BY <1>4, InnerCapEffect
  <2>2. /\ \A i \in DOMAIN i2o : i \in DOMAIN i2o' /\ i2o'[i] = i2o[i]
        /\ Freed' = Freed /\ Slice(o2i')
    BY <1>4, <2>1 DEF Freed, Slice
  <2> QED BY <1>4, <2>1, <2>2
<1>5. ASSUME NEW w \in Nat, EnsureOuterCap(w), UNCHANGED <<freed, inners>>
      PROVE  SvInv'
  <2>1. /\ Slice(o2i') /\ Slice(i2o')
        /\ DOMAIN o2i \subseteq DOMAIN o2i' /\ DOMAIN i2o \subseteq DOMAIN i2o'
        /\ \A o \in DOMAIN o2i : o2i'[o] = o2i[o]
        /\ \A i \in DOMAIN i2o : i2o'[i] = i2o[i]
        /\ \A o \in DOMAIN o2i' \ DOMAIN o2i :
             o2i'[o] \in DOMAIN i2o' \ DOMAIN i2o /\ i2o'[o2i'[o]] = o
    BY <1>5, OuterCapEffect
  <2>2. Freed' = Freed
    BY <1>5 DEF Freed
  <2> QED BY <1>5, <2>1, <2>2
<1>6. \A m \in LitSet : Var(m) \in Nat
  BY NVarsAssumption DEF LitSet, Var
<1>7. ASSUME NEW m \in LitSet, SvAssume(m)
      PROVE  SvInv'
  BY <1>5, <1>6, <1>7 DEF SvAssume
<1>8. ASSUME NEW v \in 0 .. (MaxInner - 1), ToOuter(v)
      PROVE  SvInv'
  <2>1. v \in Nat
    BY <1>8
  <2> QED BY <1>4, <1>8, <2>1 DEF ToOuter
<1> QED BY <1>1, <1>2, <1>3, <1>7, <1>8 DEF SvNext, SvAdd, SvSolve

(* The inductive invariant holds of every state of the maps.               *)
THEOREM SvInvariant == SvSpec => []SvInv
<1>1. SvInv /\ [SvNext]_svVars => SvInv'
  <2>1. SvInv /\ UNCHANGED svVars => SvInv'
    BY DEF SvInv, svVars, Slice, Freed
  <2> QED BY <2>1, SvStep
<1> QED BY <1>1, InitSvInv, PTL DEF SvSpec

(* The variables of the user and those the application took never meet,    *)
(* and each keeps its way back.                                            *)
THEOREM VarsStayInverse == SvSpec => []VarsInverse
<1>1. SvInv => VarsInverse
  BY DEF SvInv, VarsInverse, Freed, Members, Once
<1> QED BY <1>1, SvInvariant, PTL

(* Where a variable of the user or of the application is mapped never      *)
(* changes, as the slices grow.                                            *)
THEOREM VarsStay ==
  SvSpec => [][/\ \A o \in DOMAIN o2i : o \in DOMAIN o2i' /\ o2i'[o] = o2i[o]
               /\ \A i \in DOMAIN i2o : i \in DOMAIN i2o' /\ i2o'[i] = i2o[i]]_svVars
<1> DEFINE Stay == /\ \A o \in DOMAIN o2i : o \in DOMAIN o2i' /\ o2i'[o] = o2i[o]
                   /\ \A i \in DOMAIN i2o : i \in DOMAIN i2o' /\ i2o'[i] = i2o[i]
<1>1. ASSUME SvInv, SvNext
      PROVE  Stay
  <2>1. CASE UNCHANGED <<i2o, o2i>>
    BY <2>1
  <2>2. ASSUME NEW w \in Nat, EnsureInnerCap(w), UNCHANGED o2i
        PROVE  Stay
    BY <1>1, <2>2, InnerCapEffect DEF SvInv
  <2>3. ASSUME NEW w \in Nat, EnsureOuterCap(w)
        PROVE  Stay
    BY <1>1, <2>3, OuterCapEffect DEF SvInv
  <2>4. CASE Inner
    <3>1. Length(i2o) \in Nat
      BY <1>1, SliceLength DEF SvInv
    <3> QED BY <2>1, <2>2, <2>4, <3>1 DEF Inner
  <2>5. \A m \in LitSet : Var(m) \in Nat
    BY NVarsAssumption DEF LitSet, Var
  <2>6. \A v \in 0 .. (MaxInner - 1) : v \in Nat
    OBVIOUS
  <2> HIDE DEF Stay
  <2> QED BY <1>1, <2>1, <2>2, <2>3, <2>4, <2>5, <2>6
          DEF SvNext, FreeInner, ToOuter, SvAssume, SvAdd, SvSolve
<1>2. SvInv /\ [SvNext]_svVars => [Stay]_svVars
  BY <1>1
<1> QED BY <1>2, SvInvariant, PTL DEF SvSpec

-----------------------------------------------------------------------------
(***************************************************************************)
(* The CRISP connection.  The inductive invariant says which items may     *)
(* follow one another on the connection, what the client waits for, and    *)
(* how the two sides' idea of the last solve hang together.                *)
(***************************************************************************)
(* The items that open or go on a list of clauses, those that a list of    *)
(* literals follows, those that nothing may follow, and those that are     *)
(* answered.                                                               *)
Lists    == {"Add", "cls"}
WithLits == {"Assume", "ModelFor", "FailedFor"}
Alone    == {"Solve", "Continue", "Model", "Failed", "Ext", "Quit"}
Requests == Queries \cup {"Solve", "Continue", "Ext"}
Ops      == Requests \cup {"Add", "cls", "Assume", "lits", "End", "Reset", "Quit"}
Answers  == {"Sat", "Unsat", "Unknown", "End", "model", "failed", "exts", "Error"}

Item  == [op : Ops, id : Nat]
Reply == [op : Answers, id : Nat]

(* The client waits for the answer to a query, or for any answer.          *)
QueryWires == {"model", "modelfor", "failed"}
Waits      == wire \notin {"idle", "deliver"}

CrispTypes ==
  /\ c2s \in Seq(Item) /\ s2c \in Seq(Reply)
  /\ wire \in QueryWires \cup {"idle", "solve", "deliver", "exts"}
  /\ hpc \in {"main", "adding", "closed"}
  /\ solver \in [id : Nat, running : BOOLEAN, res : {-1, 0, 1}]
  /\ model \in Nat /\ solves \in Nat
  /\ careful \in BOOLEAN /\ fresh \in BOOLEAN /\ ended \in BOOLEAN

(* Where the user is while the client waits.                               *)
UserWaits ==
  /\ wire = "idle" => user \in {"idle", "gone", "stopSend"}
  /\ wire \in QueryWires \cup {"exts"} => user = "call"
  /\ wire = "solve" => user \in {"call", "holds", "try", "stop", "stopRecv"}
  /\ wire = "deliver" => user \in {"holds", "try", "stop", "stopRecv"}

(* b may follow a on the connection to the server.                         *)
Follows(a, b) ==
  /\ a \in Lists <=> b \in {"cls", "End"}
  /\ a \in WithLits <=> b = "lits"
  /\ a \notin Alone /\ b # "Continue"

Neighbours(q) ==
  \A i \in 1 .. Len(q) - 1 :
    Follows(q[i].op, q[i + 1].op) /\ (q[i].op \in Queries => i = Len(q) - 1)

LastOp    == c2s[Len(c2s)].op
LastIs(p) == Len(c2s) > 0 /\ LastOp = p
ListIs(p) == Len(c2s) > 1 /\ LastOp = "lits" /\ c2s[Len(c2s) - 1].op = p

(* The first item fits the handler, and the last one the client.           *)
FirstFits ==
  Len(c2s) > 0 =>
    /\ hpc = "adding" => Next1 \in {"cls", "End"}
    /\ hpc = "main" => Next1 \notin {"cls", "lits"}
    /\ hpc = "main" /\ Next1 \in {"Continue", "End"} =>
         Len(c2s) = 1 /\ wire = "solve" /\ sproto = "Solve"
    /\ hpc = "main" /\ Next1 = "End" => ended

LastFits ==
  /\ Len(c2s) = 0 => (hpc = "adding" <=> cproto = "Add")
  /\ Len(c2s) > 0 => LastOp \notin WithLits /\ (LastOp \in Lists <=> cproto = "Add")

(* Only a client that waits has sent what is answered, and only one whose  *)
(* user is gone a <quit>.                                                  *)
NoRequest ==
  /\ ~ Waits => \A i \in 1 .. Len(c2s) : c2s[i].op \notin Requests
  /\ user # "gone" => \A i \in 1 .. Len(c2s) : c2s[i].op # "Quit"

(* What the client waits for is asked last, until it is answered.          *)
Pending ==
  Len(s2c) = 0 =>
    /\ wire = "solve" =>
         LastIs("Solve") \/ (Len(c2s) = 1 /\ Next1 \in {"Continue", "End"} /\ hpc = "main")
    /\ wire = "model" => LastIs("Model")
    /\ wire = "modelfor" => ListIs("ModelFor")
    /\ wire = "failed" => LastIs("Failed") \/ ListIs("FailedFor")
    /\ wire = "exts" => LastIs("Ext")

(* The handler's solve is the client's last one, or the one before it.     *)
Numbered == solves = IF wire = "solve" /\ LastIs("Solve") THEN solver.id + 1 ELSE solver.id

(* An answer under way is the only item, and is of the last solve.         *)
Answered ==
  Len(s2c) > 0 =>
    /\ Len(c2s) = 0
    /\ wire = "solve" =>
         /\ s2c[1].op \in {"Sat", "Unsat", "Unknown", "End"}
         /\ hpc = "main" /\ (~ ended => sproto = "Solve")
         /\ s2c[1].op = "Unknown" => sproto = "Solve"
    /\ s2c[1].id = IF wire = "exts" THEN 0 ELSE solves

(* After a solve, until something is added, assumed or reset, the handler  *)
(* takes queries.                                                          *)
Fresh ==
  fresh /\ wire # "solve" =>
    /\ hpc = "main" /\ (~ ended => sproto = "Solve")
    /\ Waits \/ Len(c2s) = 0
    /\ Len(c2s) > 0 => Next1 \in Queries \cup {"Ext"}

(* A solve runs only while the client waits for it.                        *)
Runs ==
  solver.running =>
    /\ wire = "solve" /\ sproto = "Solve" /\ hpc = "main"
    /\ Len(s2c) > 0 => s2c[1].op = "Unknown"
    /\ Len(s2c) = 0 => Len(c2s) = 1 /\ Next1 \in {"Continue", "End"}

(* While the connection is open.                                           *)
Open ==
  /\ Neighbours(c2s) /\ FirstFits /\ LastFits /\ NoRequest /\ Pending
  /\ Numbered /\ Answered /\ Fresh /\ Runs

(* What a client that keeps to the protocol may count on.                  *)
Careful ==
  /\ careful => got.id = got.for
  /\ fresh => cproto # "Add"
  /\ careful /\ wire \in QueryWires => fresh /\ ~ ended
  /\ hpc = "closed" /\ Len(c2s) > 0 /\ Len(s2c) > 0 => ~ careful

(* Whether the connection is open or closed.                               *)
Always ==
  /\ CrispTypes /\ UserWaits /\ Careful
  /\ solver.running => solver.res = 0
  /\ Len(s2c) > 0 => Waits /\ Len(s2c) = 1 /\ (s2c[1].op = "Error" <=> hpc = "closed")

CrispInv == Always /\ (hpc # "closed" => Open)

-----------------------------------------------------------------------------
(***************************************************************************)
(* Facts about the connection.                                             *)
(***************************************************************************)

(* What is at the head of the connection says what the client waits for.   *)
LEMMA HeadFacts ==
  ASSUME Always, Open, Len(c2s) > 0
  PROVE  /\ Len(s2c) = 0 /\ Len(c2s) \in Nat
         /\ Next1 \in Requests => Waits
         /\ Next1 \in Alone => Len(c2s) = 1 /\ LastOp = Next1
         /\ Len(c2s) > 1 => Follows(Next1, c2s[2].op)
         /\ Next1 \in {"ModelFor", "FailedFor"} => Len(c2s) = 2 /\ LastOp = "lits"
         /\ Next1 \in Queries => wire \in QueryWires
         /\ Next1 = "Solve" => wire = "solve"
         /\ Next1 = "Ext" => wire = "exts"
<1>1. Len(c2s) \in Nat /\ Len(s2c) \in Nat
  BY DEF Always, CrispTypes
<1>2. Len(s2c) = 0
  BY <1>1 DEF Open, Answered
<1>3. Next1 \in Requests => Waits
  BY <1>1 DEF Open, NoRequest, Next1
<1>4. Len(c2s) > 1 => Follows(Next1, c2s[2].op) /\ (Next1 \in Queries => Len(c2s) = 2)
  <2>1. Len(c2s) > 1 => 1 \in 1 .. Len(c2s) - 1
    BY <1>1
  <2>2. Neighbours(c2s)
    BY DEF Open
  <2>3. ASSUME Len(c2s) > 1
        PROVE  Follows(c2s[1].op, c2s[1 + 1].op) /\ (c2s[1].op \in Queries => 1 = Len(c2s) - 1)
    BY <2>1, <2>2, <2>3 DEF Neighbours
  <2>4. 1 + 1 = 2 /\ (1 = Len(c2s) - 1 => Len(c2s) = 2)
    BY <1>1
  <2> QED BY <2>3, <2>4, Zenon DEF Next1
<1>5. Next1 \in Alone => Len(c2s) = 1 /\ LastOp = Next1
  <2>1. Next1 \in Alone => ~ (Len(c2s) > 1)
    BY <1>4, Zenon DEF Follows
  <2>2. Len(c2s) > 1 \/ Len(c2s) = 1
    <3>1. PICK n \in Nat : n = Len(c2s)
      BY <1>1
    <3>2. n > 0 => n > 1 \/ n = 1
      OBVIOUS
    <3> QED BY <3>1, <3>2
  <2> QED BY <2>1, <2>2, Zenon DEF LastOp, Next1
<1>6. Next1 \in {"ModelFor", "FailedFor"} => Len(c2s) = 2 /\ LastOp = "lits"
  <2>1. Len(c2s) = 1 => LastOp = Next1
    BY DEF LastOp, Next1
  <2>2. LastOp \notin WithLits
    BY DEF Open, LastFits
  <2>3. Next1 \in {"ModelFor", "FailedFor"} => Next1 \in WithLits /\ Next1 \in Queries
    BY DEF WithLits, Queries
  <2> QED BY <1>1, <1>4, <2>1, <2>2, <2>3 DEF Follows, LastOp, Next1
<1>7. wire \in {"solve", "model", "modelfor", "failed", "exts"} \/ ~ Waits
  BY DEF Always, CrispTypes, QueryWires, Waits
<1>8. ASSUME Next1 \in {"Solve", "Model", "Failed", "Ext"}
      PROVE  LastOp = Next1 /\ Len(c2s) = 1 /\ Waits
  BY <1>3, <1>5, <1>8 DEF Alone, Requests, Queries
<1>9. ASSUME Next1 \in {"ModelFor", "FailedFor"}
      PROVE  LastOp = "lits" /\ Len(c2s) = 2 /\ Waits
  BY <1>3, <1>6, <1>9 DEF Requests, Queries
<1>10. Pending
  BY DEF Open
<1> QED BY <1>1, <1>2, <1>3, <1>4, <1>5, <1>6, <1>7, <1>8, <1>9, <1>10 DEF Pending, LastIs, ListIs, Queries, QueryWires

(* The properties follow from the invariant.                               *)
LEMMA InvImplies ==
  ASSUME CrispInv
  PROVE  OrderKept /\ AnswersMatch /\ QuietSolver
<1>0. Len(c2s) \in Nat /\ Len(s2c) \in Nat /\ (c2s # <<>> => Len(c2s) > 0) /\ (Len(s2c) = 0 => s2c = <<>>)
  BY DEF CrispInv, Always, CrispTypes
<1>1. AnswersMatch
  BY DEF AnswersMatch, CrispInv, Always, Careful
<1>2. QuietSolver
  BY <1>0 DEF QuietSolver, CrispInv, Open, Runs, Answered, Next1
<1>3. OrderKept
  <2> SUFFICES ASSUME careful, Len(c2s) > 0
               PROVE  /\ Len(s2c) = 0
                      /\ hpc = "main" => Next1 \notin {"cls", "lits"}
                      /\ hpc = "main" /\ Next1 \in Queries \cup {"Continue", "End"} => sproto = "Solve"
                      /\ hpc = "adding" => Next1 \in {"cls", "End"}
    BY <1>0 DEF OrderKept
  <2>1. CASE hpc = "closed"
    BY <1>0, <2>1 DEF CrispInv, Always, Careful
  <2>2. CASE hpc # "closed"
    <3>1. Always /\ Open
      BY <2>2 DEF CrispInv
    <3>2. Len(s2c) = 0 /\ (Next1 \in Queries => wire \in QueryWires)
      BY <3>1, HeadFacts
    <3>3. Next1 \in Queries => sproto = "Solve"
      BY <3>1, <3>2 DEF Always, Careful, Open, Fresh, QueryWires
    <3> QED BY <3>1, <3>2, <3>3 DEF Open, FirstFits
  <2> QED BY <2>1, <2>2
<1> QED BY <1>1, <1>2, <1>3

(* What is left, r, when the handler takes n items of q.                   *)
Left(q, n, r) ==
  /\ r \in Seq(Item) /\ Len(r) = Len(q) - n /\ Neighbours(r)
  /\ \A i \in 1 .. Len(r) : i + n \in 1 .. Len(q) /\ r[i] = q[i + n]
  /\ Len(r) \in Nat /\ (Len(r) = 0 \/ Len(r) > 0)
  /\ Len(r) = 0 => n = Len(q)
  /\ Len(r) = 1 => n = Len(q) - 1
  /\ Len(r) > 0 => r[Len(r)] = q[Len(q)] /\ r[1] = q[n + 1] /\ Follows(q[n].op, r[1].op)
  /\ Len(r) > 1 => r[Len(r) - 1] = q[Len(q) - 1]

(* Taking one item or two leaves the others in their order.                *)
LEMMA TakenFacts ==
  ASSUME NEW q \in Seq(Item), Neighbours(q), NEW n \in 1 .. 2, n <= Len(q), NEW r, r = SubSeq(q, n + 1, Len(q))
  PROVE  Left(q, n, r)
<1>1. /\ r \in Seq(Item) /\ Len(r) = Len(q) - n
      /\ \A i \in 1 .. Len(r) : i + n \in 1 .. Len(q) /\ r[i] = q[i + n]
  OBVIOUS
<1>2. ASSUME NEW i \in 1 .. Len(r) - 1
      PROVE  Follows(r[i].op, r[i + 1].op) /\ (r[i].op \in Queries => i = Len(r) - 1)
  <2>1. i \in 1 .. Len(r) /\ i + 1 \in 1 .. Len(r) /\ i + n \in 1 .. Len(q) - 1 /\ (i + 1) + n = (i + n) + 1
    BY <1>1
  <2>2. r[i] = q[i + n] /\ r[i + 1] = q[(i + n) + 1]
    BY <1>1, <2>1
  <2>3. Follows(q[i + n].op, q[(i + n) + 1].op) /\ (q[i + n].op \in Queries => i + n = Len(q) - 1)
    BY <2>1 DEF Neighbours
  <2>4. i + n = Len(q) - 1 => i = Len(r) - 1
    BY <1>1
  <2> QED BY <2>2, <2>3, <2>4, Zenon
<1>3. PICK k \in Nat, m \in Nat : k = Len(q) /\ m = Len(r)
  BY <1>1
<1>4. m + n = k
  BY <1>1, <1>3
<1>5. (m = 0 \/ m > 0) /\ (m = 0 => n = k) /\ (m = 1 => n = k - 1)
  BY <1>4
<1>6. ASSUME m > 0 PROVE r[m] = q[k] /\ r[1] = q[n + 1] /\ Follows(q[n].op, r[1].op)
  <2>1. m \in 1 .. m /\ 1 \in 1 .. m /\ 1 + n = n + 1 /\ n \in 1 .. k - 1
    BY <1>4, <1>6
  <2>2. r[m] = q[k]
    BY <1>1, <1>3, <1>4, <2>1
  <2>3. r[1] = q[n + 1]
    <3>1. r[1] = q[1 + n]
      BY <1>1, <1>3, <2>1
    <3> QED BY <2>1, <3>1, Zenon
  <2>4. Follows(q[n].op, q[n + 1].op)
    BY <1>3, <2>1, Zenon DEF Neighbours
  <2> QED BY <2>2, <2>3, <2>4, Zenon
<1>7. ASSUME m > 1 PROVE r[m - 1] = q[k - 1]
  <2>1. m - 1 \in 1 .. m /\ (m - 1) + n = k - 1
    BY <1>4, <1>7
  <2>2. r[m - 1] = q[(m - 1) + n]
    BY <1>1, <1>3, <2>1, Zenon
  <2> QED BY <2>1, <2>2
<1>8. Neighbours(r)
  BY <1>1, <1>2 DEF Neighbours
<1> QED BY <1>1, <1>3, <1>5, <1>6, <1>7, <1>8, Zenon DEF Left

(* Appending items keeps the order if the first of them may follow.        *)
LEMMA JoinedFacts ==
  ASSUME NEW q \in Seq(Item), NEW e \in Seq(Item), Neighbours(q), Neighbours(e), Len(e) > 0,
         \A i \in 1 .. Len(q) : q[i].op \notin Queries,
         Len(q) > 0 => Follows(q[Len(q)].op, e[1].op),
         NEW r, r = q \o e
  PROVE  /\ r \in Seq(Item) /\ Len(r) = Len(q) + Len(e) /\ Neighbours(r)
         /\ \A i \in 1 .. Len(q) : r[i] = q[i]
         /\ \A i \in 1 .. Len(e) : r[i + Len(q)] = e[i]
<1>1. /\ r \in Seq(Item) /\ Len(r) = Len(q) + Len(e) /\ Len(q) \in Nat /\ Len(e) \in Nat
      /\ \A i \in 1 .. Len(q) : r[i] = q[i]
      /\ \A i \in 1 .. Len(e) : r[i + Len(q)] = e[i]
  OBVIOUS
<1>2. ASSUME NEW i \in 1 .. Len(r) - 1
      PROVE  Follows(r[i].op, r[i + 1].op) /\ (r[i].op \in Queries => i = Len(r) - 1)
  <2>1. CASE i < Len(q)
    <3>1. i \in 1 .. Len(q) - 1 /\ i \in 1 .. Len(q) /\ i + 1 \in 1 .. Len(q)
      BY <1>1, <2>1
    <3> QED BY <1>1, <3>1 DEF Neighbours
  <2>2. CASE i = Len(q)
    <3>1. i \in 1 .. Len(q) /\ 1 \in 1 .. Len(e) /\ i + 1 = 1 + Len(q)
      BY <1>1, <2>2
    <3>2. r[i] = q[Len(q)] /\ r[i + 1] = e[1]
      BY <1>1, <2>2, <3>1
    <3> QED BY <2>2, <3>1, <3>2
  <2>3. CASE i > Len(q)
    <3>0. /\ i - Len(q) \in 1 .. Len(e) - 1 /\ i = (i - Len(q)) + Len(q)
          /\ i + 1 = ((i - Len(q)) + 1) + Len(q)
      BY <1>1, <2>3
    <3>1. PICK j \in 1 .. Len(e) - 1 : i = j + Len(q) /\ i + 1 = (j + 1) + Len(q)
      BY <3>0
    <3>2. j \in 1 .. Len(e) /\ j + 1 \in 1 .. Len(e)
      BY <1>1, <3>1
    <3>3. r[i] = e[j] /\ r[i + 1] = e[j + 1]
      BY <1>1, <3>1, <3>2
    <3>4. Follows(e[j].op, e[j + 1].op) /\ (e[j].op \in Queries => j = Len(e) - 1)
      BY <3>1 DEF Neighbours
    <3>5. j = Len(e) - 1 => i = Len(r) - 1
      BY <1>1, <3>1
    <3> QED BY <3>3, <3>4, <3>5, Zenon
  <2> QED BY <1>1, <2>1, <2>2, <2>3 DEF Follows
<1> QED BY <1>1, <1>2 DEF Neighbours

-----------------------------------------------------------------------------
(***************************************************************************)
(* The calls of the client.                                                *)
(***************************************************************************)

(* A call of the client appends p, and an item of data if it has one.      *)
DataOf(p) == CASE p = "Add" -> <<Op("cls")>> [] p \in WithLits -> <<Op("lits")>> [] OTHER -> <<>>

Calls == Queries \cup {"Add", "Assume", "Reset", "Quit", "Solve", "Ext"}

(* While the user is idle no request is under way.                         *)
LEMMA IdleFacts ==
  ASSUME Always, user = "idle"
  PROVE  /\ wire = "idle" /\ ~ Waits /\ Len(s2c) = 0 /\ Len(c2s) \in Nat
         /\ Open => \A i \in 1 .. Len(c2s) : c2s[i].op \notin Requests /\ c2s[i].op # "Quit"
<1>1. wire = "idle"
  BY DEF Always, CrispTypes, UserWaits, QueryWires
<1>2. ~ Waits
  BY <1>1 DEF Waits
<1>3. Len(s2c) \in Nat /\ Len(c2s) \in Nat
  BY DEF Always, CrispTypes
<1>4. ~ (Len(s2c) > 0)
  BY <1>2 DEF Always
<1>5. Len(s2c) = 0
  <2>1. PICK n \in Nat : n = Len(s2c)
    BY <1>3
  <2> QED BY <1>4, <2>1
<1> QED BY <1>1, <1>2, <1>3, <1>5 DEF Open, NoRequest

(* Short sequences, one after the other.                                   *)
LEMMA ShortConcat ==
  ASSUME NEW S, NEW a \in S, NEW b \in S, NEW c \in S
  PROVE  /\ <<a>> \o <<b>> = <<a, b>> /\ <<a, b>> \o <<c>> = <<a, b, c>>
         /\ <<>> \o <<a>> = <<a>> /\ <<a>> \o <<>> = <<a>> /\ <<a, b>> \o <<>> = <<a, b>>
<1>1. <<a>> \o <<b>> = <<a, b>>
  <2>1. /\ <<a>> \o <<b>> \in Seq(S) /\ <<a, b>> \in Seq(S)
        /\ Len(<<a>> \o <<b>>) = 2 /\ Len(<<a, b>>) = 2
    BY ConcatProperties
  <2>2. \A i \in 1 .. 2 : (<<a>> \o <<b>>)[i] = <<a, b>>[i]
    OBVIOUS
  <2> QED BY <2>1, <2>2, SeqEqual
<1>2. <<a, b>> \o <<c>> = <<a, b, c>>
  <2>1. /\ <<a, b>> \o <<c>> \in Seq(S) /\ <<a, b, c>> \in Seq(S)
        /\ Len(<<a, b>> \o <<c>>) = 3 /\ Len(<<a, b, c>>) = 3
    BY ConcatProperties
  <2>2. \A i \in 1 .. 3 : (<<a, b>> \o <<c>>)[i] = <<a, b, c>>[i]
    OBVIOUS
  <2> QED BY <2>1, <2>2, SeqEqual
<1>3. <<a>> \in Seq(S) /\ <<a, b>> \in Seq(S)
  OBVIOUS
<1> QED BY <1>1, <1>2, <1>3, ConcatEmptySeq

(* The items of a call: an <end> if a list is open, p, and its data.       *)
LEMMA CallItems ==
  ASSUME NEW p \in Calls, NEW e, e = Enters(p) \o DataOf(p)
  PROVE  /\ e \in Seq(Item) /\ Len(e) > 0 /\ Neighbours(e)
         /\ e[1].op = IF cproto = "Add" THEN "End" ELSE p
         /\ e[Len(e)].op = CASE p = "Add" -> "cls" [] p \in WithLits -> "lits" [] OTHER -> p
         /\ p \in WithLits => Len(e) > 1 /\ e[Len(e) - 1].op = p
         /\ \A i \in 1 .. Len(e) : e[i].op \in {"End", "cls", "lits", p}
<1>1. \A x \in Ops : Op(x) \in Item /\ Op(x).op = x
  BY DEF Op, Item
<1>2. /\ p \in Ops /\ "End" \in Ops /\ "cls" \in Ops /\ "lits" \in Ops
      /\ p \notin {"cls", "lits", "End", "Continue"}
  BY DEF Calls, Ops, Requests, Queries
<1>3. PICK a, b, c, f : a = Op("End") /\ b = Op(p) /\ c = Op("cls") /\ f = Op("lits")
  OBVIOUS
<1>4. /\ a \in Item /\ b \in Item /\ c \in Item /\ f \in Item
      /\ a.op = "End" /\ b.op = p /\ c.op = "cls" /\ f.op = "lits"
  BY <1>1, <1>2, <1>3
<1>5. \/ p = "Add" /\ DataOf(p) = <<c>>
      \/ p \in WithLits /\ p # "Add" /\ DataOf(p) = <<f>>
      \/ p # "Add" /\ p \notin WithLits /\ DataOf(p) = <<>>
  BY <1>3 DEF DataOf, WithLits
<1>6. \/ cproto = "Add" /\ Enters(p) = <<a, b>>
      \/ cproto # "Add" /\ Enters(p) = <<b>>
  BY <1>3, <1>4, ShortConcat DEF Enters
<1>7. \/ p = "Add" /\ cproto = "Add" /\ e = <<a, b, c>>
      \/ p = "Add" /\ cproto # "Add" /\ e = <<b, c>>
      \/ p \in WithLits /\ p # "Add" /\ cproto = "Add" /\ e = <<a, b, f>>
      \/ p \in WithLits /\ p # "Add" /\ cproto # "Add" /\ e = <<b, f>>
      \/ p # "Add" /\ p \notin WithLits /\ cproto = "Add" /\ e = <<a, b>>
      \/ p # "Add" /\ p \notin WithLits /\ cproto # "Add" /\ e = <<b>>
  <2>1. <<a, b>> \o <<c>> = <<a, b, c>> /\ <<b>> \o <<c>> = <<b, c>>
    BY <1>4, ShortConcat
  <2>2. <<a, b>> \o <<f>> = <<a, b, f>> /\ <<b>> \o <<f>> = <<b, f>>
    BY <1>4, ShortConcat
  <2>3. <<a, b>> \o <<>> = <<a, b>> /\ <<b>> \o <<>> = <<b>>
    BY <1>4, ShortConcat
  <2> QED BY <1>5, <1>6, <2>1, <2>2, <2>3, Zenon
<1>8. p \in Queries /\ p \notin WithLits => p \in Alone
  BY DEF Queries, WithLits, Alone
<1>9. ASSUME NEW s, NEW x, NEW y, NEW z, s = <<x, y, z>> \/ s = <<x, y>> \/ s = <<x>>,
             s # <<x>> => Follows(x.op, y.op) /\ (x.op \in Queries => s = <<x, y>>),
             s = <<x, y, z>> => Follows(y.op, z.op)
      PROVE  Neighbours(s)
  <2>1. CASE s = <<x>>
    BY <2>1 DEF Neighbours
  <2>2. CASE s = <<x, y>>
    BY <1>9, <2>2 DEF Neighbours, Follows
  <2>3. CASE s = <<x, y, z>>
    BY <1>9, <2>3 DEF Neighbours, Follows
  <2> QED BY <1>9, <2>1, <2>2, <2>3
<1>10. /\ Follows(a.op, b.op) /\ a.op \notin Queries
       /\ p = "Add" => Follows(b.op, c.op) /\ b.op \notin Queries
       /\ p \in WithLits => Follows(b.op, f.op)
  BY <1>2, <1>4 DEF Follows, Lists, WithLits, Alone, Queries
<1>11. Neighbours(e)
  <2>1. CASE e = <<b>>
    BY <1>9, <2>1
  <2>2. CASE e = <<a, b>>
    BY <1>9, <1>10, <2>2
  <2>3. CASE e = <<a, b, c>> /\ p = "Add"
    BY <1>9, <1>10, <2>3
  <2>4. CASE e = <<a, b, f>> /\ p \in WithLits
    BY <1>9, <1>10, <2>4
  <2>5. CASE e = <<b, c>> /\ p = "Add"
    BY <1>9, <1>10, <2>5
  <2>6. CASE e = <<b, f>> /\ p \in WithLits
    BY <1>9, <1>10, <2>6
  <2> QED BY <1>7, <2>1, <2>2, <2>3, <2>4, <2>5, <2>6
<1>13. \/ p = "Add" /\ cproto = "Add" /\ e \in Seq(Item) /\ Len(e) = 3 /\ e[1] = a /\ e[2] = b /\ e[3] = c
       \/ p = "Add" /\ cproto # "Add" /\ e \in Seq(Item) /\ Len(e) = 2 /\ e[1] = b /\ e[2] = c
       \/ /\ p \in WithLits /\ p # "Add" /\ cproto = "Add"
          /\ e \in Seq(Item) /\ Len(e) = 3 /\ e[1] = a /\ e[2] = b /\ e[3] = f
       \/ /\ p \in WithLits /\ p # "Add" /\ cproto # "Add"
          /\ e \in Seq(Item) /\ Len(e) = 2 /\ e[1] = b /\ e[2] = f
       \/ /\ p # "Add" /\ p \notin WithLits /\ cproto = "Add"
          /\ e \in Seq(Item) /\ Len(e) = 2 /\ e[1] = a /\ e[2] = b
       \/ /\ p # "Add" /\ p \notin WithLits /\ cproto # "Add"
          /\ e \in Seq(Item) /\ Len(e) = 1 /\ e[1] = b
  <2>1. CASE e = <<a, b, c>> /\ p = "Add" /\ cproto = "Add"
    BY <1>4, <2>1
  <2>2. CASE e = <<b, c>> /\ p = "Add" /\ cproto # "Add"
    BY <1>4, <2>2
  <2>3. CASE e = <<a, b, f>> /\ p \in WithLits /\ p # "Add" /\ cproto = "Add"
    BY <1>4, <2>3
  <2>4. CASE e = <<b, f>> /\ p \in WithLits /\ p # "Add" /\ cproto # "Add"
    BY <1>4, <2>4
  <2>5. CASE e = <<a, b>> /\ p # "Add" /\ p \notin WithLits /\ cproto = "Add"
    BY <1>4, <2>5
  <2>6. CASE e = <<b>> /\ p # "Add" /\ p \notin WithLits /\ cproto # "Add"
    BY <1>4, <2>6
  <2> QED BY <1>7, <2>1, <2>2, <2>3, <2>4, <2>5, <2>6, Zenon
<1>14. Len(e) > 0
  BY <1>13
<1>15. e[1].op = IF cproto = "Add" THEN "End" ELSE p
  BY <1>4, <1>13
<1>16. e[Len(e)].op = CASE p = "Add" -> "cls" [] p \in WithLits -> "lits" [] OTHER -> p
  BY <1>4, <1>13, SMTT(30) DEF WithLits
<1>17. p \in WithLits => Len(e) > 1 /\ e[Len(e) - 1].op = p
  BY <1>4, <1>13, SMTT(30) DEF WithLits
<1>18. \A i \in 1 .. Len(e) : e[i].op \in {"End", "cls", "lits", p}
  BY <1>4, <1>13
<1> QED BY <1>11, <1>13, <1>14, <1>15, <1>16, <1>17, <1>18

(* What the calls have in common: p is sent, and its answer waited for.    *)
WireOf(p) ==
  CASE p = "Solve" -> "solve" [] p = "Model" -> "model" [] p = "ModelFor" -> "modelfor"
    [] p \in {"Failed", "FailedFor"} -> "failed" [] p = "Ext" -> "exts" [] OTHER -> "idle"

Called(p) ==
  /\ user = "idle" /\ c2s' = c2s \o Enters(p) \o DataOf(p)
  /\ UNCHANGED <<s2c, hpc, sproto, solver, got, model>>
  /\ cproto' = (IF p = "Reset" THEN "Unknown" ELSE p)
  /\ wire' = WireOf(p)
  /\ user' \in (CASE p \in {"Add", "Assume", "Reset"} -> {"idle"} [] p = "Quit" -> {"gone"}
                  [] p = "Solve" -> {"call", "holds"} [] OTHER -> {"call"})
  /\ solves' = IF p = "Solve" THEN solves + 1 ELSE solves
  /\ fresh' = CASE p = "Solve" -> TRUE [] p \in Queries \cup {"Ext"} -> fresh [] OTHER -> FALSE
  /\ ended' = IF p = "Solve" THEN FALSE ELSE ended
  /\ careful' = IF p \in Queries THEN careful /\ fresh /\ ~ ended ELSE careful

(* The items under way after a call.                                       *)
LEMMA CallAppends ==
  ASSUME Always, NEW p \in Calls, Called(p)
  PROVE  /\ c2s' \in Seq(Item) /\ Len(c2s) \in Nat /\ Len(c2s') \in Nat /\ Len(c2s') > 0
         /\ LastOp' = CASE p = "Add" -> "cls" [] p \in WithLits -> "lits" [] OTHER -> p
         /\ p \in WithLits => Len(c2s') > 1 /\ c2s'[Len(c2s') - 1].op = p
         /\ Len(c2s) > 0 => c2s'[1] = c2s[1]
         /\ Len(c2s) = 0 => c2s'[1].op = IF cproto = "Add" THEN "End" ELSE p
         /\ \A i \in 1 .. Len(c2s') :
              \/ i \in 1 .. Len(c2s) /\ c2s'[i] = c2s[i]
              \/ c2s'[i].op \in {"End", "cls", "lits", p}
         /\ Open => Neighbours(c2s)'
<1>1. PICK e : e = Enters(p) \o DataOf(p)
  OBVIOUS
<1>2. /\ e \in Seq(Item) /\ Len(e) > 0 /\ Neighbours(e)
      /\ e[1].op = IF cproto = "Add" THEN "End" ELSE p
      /\ e[Len(e)].op = CASE p = "Add" -> "cls" [] p \in WithLits -> "lits" [] OTHER -> p
      /\ p \in WithLits => Len(e) > 1 /\ e[Len(e) - 1].op = p
      /\ \A i \in 1 .. Len(e) : e[i].op \in {"End", "cls", "lits", p}
  BY <1>1, CallItems
<1>3. c2s \in Seq(Item)
  BY DEF Always, CrispTypes
<1>4. c2s' = c2s \o e
  <2>1. Enters(p) \in Seq(Item) /\ DataOf(p) \in Seq(Item)
    <3>1. \A x \in Ops : Op(x) \in Item
      BY DEF Op, Item
    <3>2. p \in Ops /\ "End" \in Ops /\ "cls" \in Ops /\ "lits" \in Ops
      BY DEF Calls, Ops, Requests, Queries
    <3>3. PICK a, b, c, f : a = Op("End") /\ b = Op(p) /\ c = Op("cls") /\ f = Op("lits")
      OBVIOUS
    <3>4. a \in Item /\ b \in Item /\ c \in Item /\ f \in Item
      BY <3>1, <3>2, <3>3
    <3>5. DataOf(p) \in {<<c>>, <<f>>, <<>>}
      BY <3>3 DEF DataOf
    <3>6. Enters(p) \in {<<a, b>>, <<b>>}
      BY <3>3, <3>4, ShortConcat DEF Enters
    <3>7. <<c>> \in Seq(Item) /\ <<f>> \in Seq(Item) /\ <<>> \in Seq(Item)
          /\ <<b>> \in Seq(Item) /\ <<a, b>> \in Seq(Item)
      BY <3>4
    <3> QED BY <3>5, <3>6, <3>7, Zenon
  <2>2. (c2s \o Enters(p)) \o DataOf(p) = c2s \o (Enters(p) \o DataOf(p))
    <3>1. \A s, t, u \in Seq(Item) : (s \o t) \o u = s \o (t \o u)
      BY ConcatAssociative
    <3> QED BY <1>3, <2>1, <3>1, Zenon
  <2> QED BY <1>1, <2>2 DEF Called
<1>5. /\ c2s' \in Seq(Item) /\ Len(c2s') = Len(c2s) + Len(e) /\ Len(c2s) \in Nat /\ Len(e) \in Nat
      /\ \A i \in 1 .. Len(c2s) : c2s'[i] = c2s[i]
      /\ \A i \in 1 .. Len(e) : c2s'[i + Len(c2s)] = e[i]
  BY <1>2, <1>3, <1>4
<1>6. \A i \in 1 .. Len(c2s') :
        \/ i \in 1 .. Len(c2s) /\ c2s'[i] = c2s[i]
        \/ c2s'[i].op \in {"End", "cls", "lits", p}
  <2> TAKE i \in 1 .. Len(c2s')
  <2>1. CASE i \in 1 .. Len(c2s)
    BY <1>5, <2>1
  <2>2. CASE i \notin 1 .. Len(c2s)
    <3>1. i - Len(c2s) \in 1 .. Len(e) /\ i = (i - Len(c2s)) + Len(c2s)
      BY <1>5, <2>2
    <3>2. c2s'[i] = e[i - Len(c2s)]
      BY <1>5, <3>1
    <3> QED BY <1>2, <3>1, <3>2
  <2> QED BY <2>1, <2>2
<1>7. LastOp' = e[Len(e)].op
  <2>1. Len(e) \in 1 .. Len(e) /\ Len(c2s') = Len(e) + Len(c2s)
    BY <1>2, <1>5
  <2> QED BY <1>5, <2>1 DEF LastOp
<1>8. p \in WithLits => Len(c2s') > 1 /\ c2s'[Len(c2s') - 1].op = p
  <2> SUFFICES ASSUME p \in WithLits PROVE Len(c2s') > 1 /\ c2s'[Len(c2s') - 1].op = p
    OBVIOUS
  <2>1. Len(e) - 1 \in 1 .. Len(e) /\ Len(c2s') - 1 = (Len(e) - 1) + Len(c2s) /\ Len(c2s') > 1
    BY <1>2, <1>5
  <2> QED BY <1>2, <1>5, <2>1
<1>9. Len(c2s) > 0 => c2s'[1] = c2s[1]
  BY <1>5
<1>10. Len(c2s) = 0 => c2s'[1] = e[1]
  <2>1. Len(c2s) = 0 => 1 \in 1 .. Len(e) /\ 1 + Len(c2s) = 1
    BY <1>2, <1>5
  <2> QED BY <1>5, <2>1
<1>11. ASSUME Open PROVE Neighbours(c2s)'
  <2>1. \A i \in 1 .. Len(c2s) : c2s[i].op \notin Queries
    BY <1>11, IdleFacts DEF Called, Requests
  <2>2. ASSUME Len(c2s) > 0 PROVE Follows(c2s[Len(c2s)].op, e[1].op)
    <3>1. LastFits /\ Neighbours(c2s)
      BY <1>11 DEF Open
    <3>2. LastOp \notin WithLits /\ (LastOp \in Lists <=> cproto = "Add")
      BY <2>2, <3>1 DEF LastFits
    <3>3. LastOp \notin Alone
      <4>1. Len(c2s) \in 1 .. Len(c2s)
        BY <1>5, <2>2
      <4>2. /\ LastOp \notin Requests /\ LastOp # "Quit"
        BY <1>11, <4>1, IdleFacts DEF Called, LastOp
      <4> QED BY <4>2 DEF Alone, Requests, Queries
    <3>4. p \notin {"cls", "End", "lits", "Continue"}
      BY DEF Calls, Queries
    <3> QED BY <1>2, <3>2, <3>3, <3>4 DEF Follows, LastOp
  <2>3. Neighbours(c2s)
    BY <1>11 DEF Open
  <2>4. PICK r : r = c2s'
    OBVIOUS
  <2>5. Neighbours(r)
    BY <1>2, <1>3, <1>4, <2>1, <2>2, <2>3, <2>4, JoinedFacts, Zenon
  <2> QED BY <2>4, <2>5 DEF Neighbours
<1>12. Len(c2s') \in Nat /\ Len(c2s') > 0
  BY <1>2, <1>5
<1> QED BY <1>2, <1>5, <1>6, <1>7, <1>8, <1>9, <1>10, <1>11, <1>12

(* A call keeps the invariant, whatever the handler has yet to take.       *)
LEMMA CalledKeeps ==
  ASSUME CrispInv, NEW p \in Calls, Called(p)
  PROVE  CrispInv'
<1>1. Always /\ (hpc # "closed" => Open)
  BY DEF CrispInv
<1>2. /\ wire = "idle" /\ ~ Waits /\ Len(s2c) = 0 /\ Len(c2s) \in Nat
      /\ Open => \A i \in 1 .. Len(c2s) : c2s[i].op \notin Requests /\ c2s[i].op # "Quit"
  BY <1>1, IdleFacts DEF Called
<1>3. /\ c2s' \in Seq(Item) /\ Len(c2s) \in Nat /\ Len(c2s') \in Nat /\ Len(c2s') > 0
      /\ LastOp' = CASE p = "Add" -> "cls" [] p \in WithLits -> "lits" [] OTHER -> p
      /\ p \in WithLits => Len(c2s') > 1 /\ c2s'[Len(c2s') - 1].op = p
      /\ Len(c2s) > 0 => c2s'[1] = c2s[1]
      /\ Len(c2s) = 0 => c2s'[1].op = IF cproto = "Add" THEN "End" ELSE p
      /\ \A i \in 1 .. Len(c2s') :
           \/ i \in 1 .. Len(c2s) /\ c2s'[i] = c2s[i]
           \/ c2s'[i].op \in {"End", "cls", "lits", p}
      /\ Open => Neighbours(c2s)'
  BY <1>1, CallAppends
<1>4. /\ p \in Queries \cup {"Add", "Assume", "Reset", "Quit", "Solve", "Ext"}
      /\ p \in {"Model", "ModelFor", "Failed", "FailedFor", "Add", "Assume", "Reset", "Quit", "Solve", "Ext"}
  BY DEF Calls, Queries
<1>5. Len(s2c') = 0
  BY <1>2 DEF Called
<1>6. wire' = WireOf(p)
  BY DEF Called
<1>7. Always'
  <2>1. CrispTypes'
    <3>1. wire' \in QueryWires \cup {"idle", "solve", "deliver", "exts"}
      BY <1>6 DEF WireOf, QueryWires
    <3>2. solves' \in Nat
      BY <1>1 DEF Called, Always, CrispTypes
    <3>3. careful' \in BOOLEAN /\ fresh' \in BOOLEAN /\ ended' \in BOOLEAN
      BY <1>1 DEF Called, Always, CrispTypes
    <3> QED BY <1>1, <1>3, <3>1, <3>2, <3>3 DEF Called, Always, CrispTypes
  <2>2. UserWaits'
    BY <1>4, <1>6 DEF Called, WireOf, UserWaits, QueryWires, Queries
  <2>3. Careful'
    <3>1. Careful
      BY <1>1 DEF Always
    <3>2. careful' => got'.id = got'.for
      BY <3>1 DEF Called, Careful
    <3>3. fresh' => cproto' # "Add"
      BY <1>4 DEF Called, Queries
    <3>4. careful' /\ wire' \in QueryWires => fresh' /\ ~ ended'
      <4>1. wire' \in QueryWires => p \in Queries
        BY <1>4, <1>6 DEF WireOf, QueryWires, Queries
      <4> QED BY <4>1 DEF Called, Queries
    <3> QED BY <1>5, <3>2, <3>3, <3>4 DEF Careful
  <2> QED BY <1>1, <1>5, <2>1, <2>2, <2>3 DEF Called, Always
<1>8. ASSUME hpc' # "closed" PROVE Open'
  <2>1. Open
    BY <1>1, <1>8 DEF Called
  <2>2. FirstFits'
    <3>1. FirstFits /\ LastFits
      BY <2>1 DEF Open
    <3>2. CASE Len(c2s) > 0
      BY <1>2, <1>3, <3>1, <3>2 DEF FirstFits, Next1, Called
    <3>3. CASE Len(c2s) = 0
      BY <1>3, <1>4, <3>1, <3>3 DEF FirstFits, LastFits, Next1, Called
    <3> QED BY <1>3, <3>2, <3>3
  <2>3. LastFits'
    BY <1>3, <1>4 DEF LastFits, Called, WithLits, Lists
  <2>4. NoRequest'
    <3>1. ASSUME ~ Waits', NEW i \in 1 .. Len(c2s') PROVE c2s'[i].op \notin Requests
      <4>1. p \in {"Add", "Assume", "Reset", "Quit"}
        BY <1>4, <1>6, <3>1 DEF WireOf, Waits, Queries
      <4> QED BY <1>2, <1>3, <2>1, <4>1 DEF Requests, Queries
    <3>2. ASSUME user' # "gone", NEW i \in 1 .. Len(c2s') PROVE c2s'[i].op # "Quit"
      <4>1. p # "Quit"
        BY <1>6, <3>2 DEF WireOf, Waits, Called, Queries
      <4> QED BY <1>2, <1>3, <2>1, <4>1
    <3> QED BY <3>1, <3>2 DEF NoRequest
  <2>5. Pending'
    BY <1>3, <1>4, <1>6 DEF Pending, WireOf, LastIs, ListIs, WithLits
  <2>6. Numbered'
    <3>1. solves = solver.id
      BY <1>2, <2>1 DEF Open, Numbered
    <3>2. (wire' = "solve" /\ LastIs("Solve")') <=> p = "Solve"
      BY <1>3, <1>4, <1>6 DEF WireOf, LastIs, WithLits
    <3> QED BY <3>1, <3>2 DEF Numbered, Called
  <2>7. Answered'
    BY <1>5 DEF Answered
  <2>8. Fresh'
    <3> SUFFICES ASSUME fresh', wire' # "solve"
                 PROVE  /\ hpc' = "main" /\ (~ ended' => sproto' = "Solve")
                        /\ Waits' \/ Len(c2s') = 0
                        /\ Len(c2s') > 0 => Next1' \in Queries \cup {"Ext"}
      BY DEF Fresh
    <3>1. p \in Queries \cup {"Ext"} /\ fresh /\ p # "Solve"
      BY <1>4, <1>6 DEF Called, WireOf, Queries
    <3>2. Len(c2s) = 0 /\ hpc = "main" /\ (~ ended => sproto = "Solve")
      BY <1>2, <2>1, <3>1 DEF Open, Fresh
    <3>3. cproto # "Add"
      BY <1>1, <3>1 DEF Always, Careful
    <3>4. c2s'[1].op = p
      BY <1>3, <3>2, <3>3
    <3>5. Waits'
      BY <1>6, <3>1 DEF WireOf, Waits, Queries
    <3> QED BY <3>1, <3>2, <3>4, <3>5 DEF Called, Next1
  <2>9. Runs'
    BY <1>2, <2>1 DEF Open, Runs, Called
  <2> QED BY <1>3, <2>1, <2>2, <2>3, <2>4, <2>5, <2>6, <2>7, <2>8, <2>9 DEF Open
<1> QED BY <1>7, <1>8 DEF CrispInv

(* Another clause of a list keeps it.                                      *)
LEMMA ClauseKeeps ==
  ASSUME CrispInv, cproto = "Add", Add
  PROVE  CrispInv'
<1>1. /\ user = "idle" /\ c2s' = Append(c2s, Op("cls")) /\ fresh' = FALSE
      /\ UNCHANGED <<s2c, cproto, model, wire, user, hpc, sproto, solver, solves, ended, careful, got>>
  BY DEF Add, Call, clientVars, serverVars
<1>2. Always /\ (hpc # "closed" => Open)
  BY DEF CrispInv
<1>3. /\ wire = "idle" /\ ~ Waits /\ Len(s2c) = 0 /\ Len(c2s) \in Nat
      /\ Open => \A i \in 1 .. Len(c2s) : c2s[i].op \notin Requests /\ c2s[i].op # "Quit"
  BY <1>1, <1>2, IdleFacts
<1>4. c2s \in Seq(Item)
  BY <1>2 DEF Always, CrispTypes
<1>5. PICK c : c = Op("cls")
  OBVIOUS
<1>6. c \in Item /\ c.op = "cls"
  BY <1>5 DEF Op, Item, Ops
<1>7. /\ c2s' \in Seq(Item) /\ Len(c2s') = Len(c2s) + 1 /\ c2s'[Len(c2s) + 1] = c
      /\ \A i \in 1 .. Len(c2s) : c2s'[i] = c2s[i]
  BY <1>1, <1>4, <1>5, <1>6
<1>8. Always'
  <2>1. CrispTypes' /\ UserWaits'
    BY <1>1, <1>2, <1>7 DEF Always, CrispTypes, UserWaits
  <2>2. Careful'
    BY <1>1, <1>2, <1>3 DEF Always, Careful, QueryWires
  <2> QED BY <1>1, <1>2, <1>3, <2>1, <2>2 DEF Always
<1>9. ASSUME hpc' # "closed" PROVE Open'
  <2>1. /\ Open /\ FirstFits /\ LastFits /\ NoRequest /\ Numbered /\ Runs
    BY <1>1, <1>2, <1>9 DEF Open
  <2>2. Len(c2s) > 0 => LastOp \in Lists /\ LastOp \notin Queries /\ LastOp # "Solve"
    BY <2>1 DEF LastFits, Lists, Queries
  <2>3. LastOp' = "cls" /\ Len(c2s') > 0 /\ (Len(c2s) > 0 => Next1' = Next1) /\ (Len(c2s) = 0 => Next1' = "cls")
    BY <1>3, <1>6, <1>7 DEF LastOp, Next1
  <2>4. Neighbours(c2s)'
    <3> SUFFICES ASSUME NEW i \in 1 .. Len(c2s') - 1
                 PROVE  Follows(c2s'[i].op, c2s'[i + 1].op) /\ c2s'[i].op \notin Queries
      BY DEF Neighbours
    <3>1. i \in 1 .. Len(c2s) /\ c2s'[i] = c2s[i]
      BY <1>3, <1>7
    <3>2. c2s[i].op \notin Queries
      BY <1>3, <2>1, <3>1 DEF Requests
    <3>3. CASE i = Len(c2s)
      <4>1. c2s'[i + 1] = c /\ c2s[i].op = LastOp /\ Len(c2s) > 0
        BY <1>3, <1>7, <3>1, <3>3 DEF LastOp
      <4>2. Follows(c2s[i].op, "cls")
        BY <2>2, <4>1 DEF Follows, Lists, WithLits, Alone
      <4> QED BY <1>6, <3>1, <3>2, <4>1, <4>2
    <3>4. CASE i # Len(c2s)
      <4>1. i \in 1 .. Len(c2s) - 1 /\ i + 1 \in 1 .. Len(c2s)
        BY <1>3, <3>1, <3>4
      <4>2. Neighbours(c2s)
        BY <2>1 DEF Open
      <4> QED BY <1>7, <3>1, <3>2, <4>1, <4>2 DEF Neighbours
    <3> QED BY <3>3, <3>4
  <2>5. FirstFits'
    BY <1>1, <1>3, <2>1, <2>3 DEF FirstFits, LastFits
  <2>6. LastFits'
    BY <1>1, <2>3 DEF LastFits, Lists, WithLits
  <2>7. NoRequest'
    <3>1. \A i \in 1 .. Len(c2s') : c2s'[i].op \notin Requests /\ c2s'[i].op # "Quit"
      <4> TAKE i \in 1 .. Len(c2s')
      <4>1. i \in 1 .. Len(c2s) \/ i = Len(c2s) + 1
        BY <1>3, <1>7
      <4> QED BY <1>3, <1>6, <1>7, <2>1, <4>1 DEF Requests, Queries
    <3> QED BY <3>1 DEF NoRequest
  <2>8. Pending' /\ Numbered' /\ Answered' /\ Fresh' /\ Runs'
    BY <1>1, <1>3, <2>1, <2>2, <2>3 DEF Pending, Numbered, Answered, Fresh, Runs, QueryWires
  <2> QED BY <2>4, <2>5, <2>6, <2>7, <2>8 DEF Open
<1> QED BY <1>8, <1>9 DEF CrispInv

(* Value reads the model that the client has, and keeps it.                *)
LEMMA ValueKeeps ==
  ASSUME CrispInv, Value, ~ Model
  PROVE  CrispInv'
<1>1. /\ user = "idle" /\ got' = [kind |-> "model", id |-> model, for |-> solves]
      /\ careful' = (careful /\ fresh /\ model = solves)
      /\ UNCHANGED <<c2s, s2c, cproto, model, wire, user, hpc, sproto, solver, solves, fresh, ended>>
  BY DEF Value, Call, wireVars, clientVars, serverVars
<1>2. Always /\ (hpc # "closed" => Open)
  BY DEF CrispInv
<1>3. Always'
  <2>1. CrispTypes'
    BY <1>1, <1>2 DEF Always, CrispTypes
  <2>2. Careful' /\ UserWaits'
    BY <1>1, <1>2 DEF Always, Careful, UserWaits
  <2> QED BY <1>1, <1>2, <2>1, <2>2 DEF Always, Waits
<1>4. ASSUME hpc' # "closed" PROVE Open'
  <2>1. Open
    BY <1>1, <1>2, <1>4
  <2> QED BY <1>1, <2>1 DEF Open, Neighbours, FirstFits, LastFits, NoRequest, Pending, Numbered, Answered, Fresh, Runs,
            LastIs, ListIs, LastOp, Next1, Waits
<1> QED BY <1>3, <1>4 DEF CrispInv

(* A call without data appends p alone.                                    *)
LEMMA NoData ==
  ASSUME Always, NEW p \in Calls, p # "Add", p \notin WithLits
  PROVE  (c2s \o Enters(p)) \o DataOf(p) = c2s \o Enters(p)
<1>1. DataOf(p) = <<>>
  BY DEF DataOf
<1>2. \A x \in Ops : Op(x) \in Item
  BY DEF Op, Item
<1>3. p \in Ops /\ "End" \in Ops
  BY DEF Calls, Ops, Requests, Queries
<1>4. PICK a, b : a = Op("End") /\ b = Op(p)
  OBVIOUS
<1>5. a \in Item /\ b \in Item
  BY <1>2, <1>3, <1>4
<1>6. Enters(p) \in {<<a, b>>, <<b>>}
  BY <1>4, <1>5, ShortConcat DEF Enters
<1>7. <<b>> \in Seq(Item) /\ <<a, b>> \in Seq(Item)
  BY <1>5
<1>8. c2s \o Enters(p) \in Seq(Item)
  <2>1. \A s, t \in Seq(Item) : s \o t \in Seq(Item)
    BY ConcatProperties
  <2> QED BY <1>6, <1>7, <2>1, Zenon DEF Always, CrispTypes
<1>9. \A s \in Seq(Item) : s \o <<>> = s
  BY ConcatEmptySeq
<1> QED BY <1>1, <1>8, <1>9, Zenon

(* Every call of the client keeps the invariant.                           *)
LEMMA ClientCallKeeps ==
  ASSUME CrispInv, ClientCall
  PROVE  CrispInv'
<1>1. Always /\ (user = "idle" => wire = "idle")
  BY IdleFacts DEF CrispInv
<1>2. CASE Add
  <2>1. CASE cproto = "Add"
    BY <1>2, <2>1, ClauseKeeps
  <2>2. CASE cproto # "Add"
    <3>1. /\ user = "idle" /\ c2s' = c2s \o Enters("Add") \o <<Op("cls")>> /\ cproto' = "Add"
          /\ fresh' = FALSE
          /\ UNCHANGED <<s2c, hpc, sproto, solver, got, model, wire, user, solves, ended, careful>>
      BY <1>2, <2>2 DEF Add, Send, Call, serverVars
    <3>2. DataOf("Add") = <<Op("cls")>> /\ WireOf("Add") = "idle" /\ "Add" \in Calls /\ "Add" \notin Queries
      BY DEF DataOf, WireOf, Calls, WithLits, Queries
    <3>3. Called("Add")
      BY <1>1, <3>1, <3>2 DEF Called
    <3> QED BY <3>2, <3>3, CalledKeeps
  <2> QED BY <2>1, <2>2
<1>3. CASE Assume
  <2>1. /\ user = "idle" /\ c2s' = c2s \o Enters("Assume") \o <<Op("lits")>> /\ cproto' = "Assume"
        /\ fresh' = FALSE
        /\ UNCHANGED <<s2c, hpc, sproto, solver, got, model, wire, user, solves, ended, careful>>
    BY <1>3 DEF Assume, Send, Call, serverVars
  <2>2. DataOf("Assume") = <<Op("lits")>> /\ WireOf("Assume") = "idle" /\ "Assume" \in Calls /\ "Assume" \notin Queries
    BY DEF DataOf, WireOf, Calls, Queries, WithLits
  <2>3. Called("Assume")
    BY <1>1, <2>1, <2>2 DEF Called
  <2> QED BY <2>2, <2>3, CalledKeeps
<1>4. CASE Solve \/ GoSolve
  <2>1. /\ user = "idle" /\ c2s' = c2s \o Enters("Solve") /\ user' \in {"call", "holds"}
        /\ cproto' = "Solve" /\ wire' = "solve" /\ fresh' = TRUE /\ ended' = FALSE /\ solves' = solves + 1
        /\ UNCHANGED <<s2c, hpc, sproto, solver, got, model, careful>>
    BY <1>4 DEF Solve, GoSolve, StartSolve, Call, serverVars
  <2>2. WireOf("Solve") = "solve" /\ "Solve" \in Calls /\ "Solve" \notin Queries /\ "Solve" \notin WithLits
    BY DEF WireOf, Calls, Queries, WithLits
  <2>3. Called("Solve")
    BY <1>1, <2>1, <2>2, NoData DEF Called
  <2> QED BY <2>2, <2>3, CalledKeeps
<1>5. CASE Reset
  <2>1. /\ user = "idle" /\ c2s' = c2s \o Enters("Reset") /\ cproto' = "Unknown" /\ fresh' = FALSE
        /\ UNCHANGED <<s2c, hpc, sproto, solver, got, model, wire, user, solves, ended, careful>>
    BY <1>5 DEF Reset, Call, serverVars
  <2>2. WireOf("Reset") = "idle" /\ "Reset" \in Calls /\ "Reset" \notin Queries /\ "Reset" \notin WithLits
    BY DEF WireOf, Calls, Queries, WithLits
  <2>3. Called("Reset")
    BY <1>1, <2>1, <2>2, NoData DEF Called
  <2> QED BY <2>2, <2>3, CalledKeeps
<1>6. CASE Quit
  <2>1. /\ user = "idle" /\ c2s' = c2s \o Enters("Quit") \o <<>> /\ cproto' = "Quit" /\ fresh' = FALSE /\ user' = "gone"
        /\ UNCHANGED <<s2c, hpc, sproto, solver, got, model, wire, solves, ended, careful>>
    BY <1>6 DEF Quit, Send, Call, serverVars
  <2>2. WireOf("Quit") = "idle" /\ "Quit" \in Calls /\ "Quit" \notin Queries /\ DataOf("Quit") = <<>>
    BY DEF WireOf, Calls, Queries, DataOf, WithLits
  <2>3. Called("Quit")
    BY <1>1, <2>1, <2>2 DEF Called
  <2> QED BY <2>2, <2>3, CalledKeeps
<1>7. ASSUME NEW p \in Queries \cup {"Ext"}, Request(p, DataOf(p), WireOf(p)),
             p \in Queries => Asks, p = "Ext" => UNCHANGED careful
      PROVE  CrispInv'
  <2>1. p \in Calls /\ p \notin {"Add", "Assume", "Reset", "Quit", "Solve"} /\ "Ext" \notin Queries
    BY DEF Calls, Queries
  <2>2. /\ user = "idle" /\ c2s' = c2s \o Enters(p) \o DataOf(p) /\ cproto' = p /\ wire' = WireOf(p) /\ user' = "call"
        /\ UNCHANGED <<s2c, hpc, sproto, solver, got, model, solves, fresh, ended>>
    BY <1>7 DEF Request, Call, serverVars
  <2>3. careful' = IF p \in Queries THEN careful /\ fresh /\ ~ ended ELSE careful
    BY <1>7, <2>1 DEF Asks
  <2>4. Called(p)
    BY <2>1, <2>2, <2>3 DEF Called
  <2> QED BY <2>1, <2>4, CalledKeeps
<1>8. CASE Model
  BY <1>7, <1>8 DEF Model, DataOf, WireOf, WithLits, Queries
<1>9. CASE ModelFor
  BY <1>7, <1>9 DEF ModelFor, DataOf, WireOf, WithLits, Queries
<1>10. CASE Why
  BY <1>7, <1>10 DEF Why, DataOf, WireOf, WithLits, Queries
<1>11. CASE WhySelect
  BY <1>7, <1>11 DEF WhySelect, DataOf, WireOf, WithLits, Queries
<1>12. CASE GetExts
  BY <1>7, <1>12 DEF GetExts, DataOf, WireOf, WithLits, Queries
<1>13. CASE Value
  BY <1>8, <1>13, ValueKeeps
<1> QED
  BY <1>2, <1>3, <1>4, <1>5, <1>6, <1>8, <1>9, <1>10, <1>11, <1>12, <1>13 DEF ClientCall

-----------------------------------------------------------------------------
(***************************************************************************)
(* The reads of the client, and netsolve.                                  *)
(***************************************************************************)

(* When the client reads, there is one answer, and nothing else under way. *)
LEMMA ReadFacts ==
  ASSUME CrispInv, s2c # <<>>, s2c' = Tail(s2c)
  PROVE  /\ Always /\ Waits /\ Len(s2c) = 1 /\ Head(s2c) = s2c[1] /\ Len(c2s) \in Nat
         /\ s2c' \in Seq(Reply) /\ Len(s2c') = 0 /\ Len(c2s) \in Nat /\ s2c[1] \in Reply
         /\ hpc = "closed" <=> s2c[1].op = "Error"
         /\ hpc # "closed" => Open /\ Len(c2s) = 0
<1>1. Always /\ s2c \in Seq(Reply) /\ c2s \in Seq(Item)
  BY DEF CrispInv, Always, CrispTypes
<1>2. Len(s2c) > 0 /\ Len(s2c) \in Nat /\ Len(c2s) \in Nat
  BY <1>1
<1>3. Len(s2c) = 1 /\ Waits /\ (s2c[1].op = "Error" <=> hpc = "closed")
  BY <1>1, <1>2 DEF Always
<1>4. s2c' \in Seq(Reply) /\ Len(s2c') = 0 /\ Head(s2c) = s2c[1] /\ s2c[1] \in Reply
  BY <1>1, <1>3
<1> QED BY <1>1, <1>2, <1>3, <1>4 DEF CrispInv, Open, Answered

(* Solve reads a result: it is of the last solve, which no longer runs.    *)
LEMMA ReadResultKeeps ==
  ASSUME CrispInv, ReadResult
  PROVE  CrispInv'
<1>1. /\ wire = "solve" /\ s2c # <<>> /\ Head(s2c).op \in {"Sat", "Unsat", "End"} /\ s2c' = Tail(s2c)
      /\ got' = [kind |-> Head(s2c).op, id |-> Head(s2c).id, for |-> solves]
      /\ IF user = "call" THEN wire' = "idle" /\ user' = "idle" ELSE wire' = "deliver" /\ UNCHANGED user
      /\ UNCHANGED <<c2s, cproto, model, hpc, sproto, solver, solves, fresh, ended, careful>>
  BY DEF ReadResult, Reading, SolveReturns, serverVars
<1>2. /\ Always /\ Waits /\ Len(s2c) = 1 /\ Head(s2c) = s2c[1] /\ Len(c2s) \in Nat
      /\ s2c' \in Seq(Reply) /\ Len(s2c') = 0 /\ s2c[1] \in Reply
      /\ hpc = "closed" <=> s2c[1].op = "Error"
      /\ hpc # "closed" => Open /\ Len(c2s) = 0
  BY <1>1, ReadFacts
<1>3. hpc = "main" /\ Open /\ Len(c2s) = 0 /\ s2c[1].id = solves /\ (~ ended => sproto = "Solve")
  BY <1>1, <1>2 DEF Open, Answered
<1>4. ~ solver.running
  BY <1>1, <1>2, <1>3 DEF Open, Runs
<1>5. ~ Waits' /\ wire' \in {"idle", "deliver"}
  BY <1>1 DEF Waits
<1>6. Always'
  <2>1. CrispTypes'
    BY <1>1, <1>2, <1>5 DEF Always, CrispTypes
  <2>2. UserWaits'
    BY <1>1, <1>2 DEF Always, UserWaits, QueryWires
  <2>3. Careful'
    BY <1>1, <1>2, <1>3, <1>5 DEF Always, Careful, QueryWires
  <2> QED BY <1>1, <1>2, <1>4, <2>1, <2>2, <2>3 DEF Always
<1>7. Open'
  <2>1. Neighbours(c2s)' /\ FirstFits' /\ LastFits' /\ NoRequest'
    BY <1>1, <1>2, <1>3 DEF Open, Neighbours, FirstFits, LastFits, NoRequest
  <2>2. Pending' /\ Answered' /\ Runs'
    BY <1>1, <1>2, <1>4, <1>5 DEF Pending, Answered, Runs, QueryWires
  <2>3. Numbered' /\ Fresh'
    BY <1>1, <1>2, <1>3, <1>5 DEF Open, Numbered, Fresh, LastIs
  <2> QED BY <2>1, <2>2, <2>3 DEF Open
<1> QED BY <1>6, <1>7 DEF CrispInv

(* Solve reads <unknown>, and goes on or cancels.                          *)
LEMMA ReadUnknownKeeps ==
  ASSUME CrispInv, ReadUnknown \/ ReadCancel
  PROVE  CrispInv'
<1>1. PICK x \in {"Continue", "End"} :
        /\ wire = "solve" /\ s2c # <<>> /\ Head(s2c).op = "Unknown" /\ s2c' = Tail(s2c)
        /\ c2s' = Append(c2s, Op(x))
        /\ x = "End" => ended'
        /\ ended' \in BOOLEAN /\ (ended => ended') /\ user' \in {user, "stopRecv"}
        /\ UNCHANGED <<cproto, model, wire, hpc, sproto, solver, solves, fresh, careful, got>>
  <2>0. ended \in BOOLEAN
    BY DEF CrispInv, Always, CrispTypes
  <2>1. CASE ReadUnknown
    BY <2>0, <2>1 DEF ReadUnknown, Reading, clientVars, serverVars, ghostVars
  <2>2. CASE ReadCancel
    BY <2>0, <2>2 DEF ReadCancel, Reading, serverVars
  <2> QED BY <2>1, <2>2
<1>2. /\ Always /\ Waits /\ Len(s2c) = 1 /\ Head(s2c) = s2c[1] /\ Len(c2s) \in Nat
      /\ s2c' \in Seq(Reply) /\ Len(s2c') = 0 /\ s2c[1] \in Reply
      /\ hpc = "closed" <=> s2c[1].op = "Error"
      /\ hpc # "closed" => Open /\ Len(c2s) = 0
  BY <1>1, ReadFacts
<1>3. hpc = "main" /\ Open /\ Len(c2s) = 0 /\ sproto = "Solve"
  BY <1>1, <1>2 DEF Open, Answered
<1>4. c2s' \in Seq(Item) /\ Len(c2s') = 1 /\ c2s'[1].op = x
  <2>1. Op(x) \in Item /\ Op(x).op = x
    BY DEF Op, Item, Ops, Requests
  <2>2. c2s \in Seq(Item)
    BY <1>2 DEF Always, CrispTypes
  <2> QED BY <1>1, <1>3, <2>1, <2>2
<1>5. LastOp' = x /\ Next1' = x /\ Waits'
  BY <1>1, <1>2, <1>4 DEF LastOp, Next1, Waits
<1>6. Always'
  <2>1. CrispTypes'
    BY <1>1, <1>2, <1>4 DEF Always, CrispTypes
  <2>2. UserWaits'
    BY <1>1, <1>2 DEF Always, UserWaits, QueryWires
  <2>3. Careful'
    BY <1>1, <1>2, <1>3 DEF Always, Careful, QueryWires
  <2> QED BY <1>1, <1>2, <2>1, <2>2, <2>3 DEF Always
<1>7. Open'
  <2>1. Neighbours(c2s)'
    BY <1>4 DEF Neighbours
  <2>2. FirstFits'
    BY <1>1, <1>3, <1>4, <1>5 DEF FirstFits
  <2>3. LastFits'
    BY <1>1, <1>3, <1>4, <1>5 DEF Open, LastFits, Lists, WithLits
  <2>4. NoRequest'
    BY <1>1, <1>4, <1>5 DEF NoRequest
  <2>5. Pending' /\ Answered' /\ Runs'
    BY <1>1, <1>2, <1>3, <1>4, <1>5 DEF Open, Pending, Answered, Runs, QueryWires
  <2>6. Numbered' /\ Fresh'
    BY <1>1, <1>2, <1>3, <1>4, <1>5 DEF Open, Numbered, Fresh, LastIs
  <2> QED BY <2>1, <2>2, <2>3, <2>4, <2>5, <2>6 DEF Open
<1> QED BY <1>6, <1>7 DEF CrispInv

(* An <error> or the end of the connection: it is closed.                  *)
LEMMA ReadFailureKeeps ==
  ASSUME CrispInv, ReadFailure
  PROVE  CrispInv'
<1>1. /\ wire \notin {"idle", "deliver"}
      /\ \/ s2c # <<>> /\ Head(s2c).op = "Error" /\ s2c' = Tail(s2c)
         \/ s2c = <<>> /\ hpc = "closed" /\ UNCHANGED s2c
      /\ IF wire = "solve"
           THEN IF user = "call" THEN wire' = "idle" /\ user' = "gone" ELSE wire' = "deliver" /\ UNCHANGED user
           ELSE wire' = "idle" /\ user' = "gone"
      /\ UNCHANGED <<c2s, cproto, model, hpc, sproto, solver, solves, fresh, ended, careful, got>>
  BY DEF ReadFailure, SolveReturns, serverVars, ghostVars
<1>2. Always
  BY DEF CrispInv
<1>3. hpc = "closed" /\ s2c' \in Seq(Reply) /\ Len(s2c') = 0
  <2>1. CASE s2c = <<>>
    BY <1>1, <2>1
  <2>2. CASE s2c # <<>>
    BY <1>1, <2>2, ReadFacts
  <2> QED BY <2>1, <2>2
<1>4. wire' \in {"idle", "deliver"}
  BY <1>1
<1>5. CrispTypes'
  BY <1>1, <1>2, <1>3, <1>4 DEF Always, CrispTypes
<1>6. UserWaits'
  BY <1>1, <1>2 DEF Always, UserWaits, QueryWires
<1>7. Careful'
  BY <1>1, <1>2, <1>3, <1>4 DEF Always, Careful, QueryWires
<1> QED BY <1>1, <1>2, <1>3, <1>5, <1>6, <1>7 DEF CrispInv, Always

(* The answer to a query is of the last solve.                             *)
LEMMA ReadAnswerKeeps ==
  ASSUME CrispInv, ReadAnswer
  PROVE  CrispInv'
<1>1. /\ wire \in {"model", "modelfor", "failed", "exts"} /\ s2c # <<>> /\ Head(s2c).op # "Error"
      /\ s2c' = Tail(s2c)
      /\ got' = [kind |-> Head(s2c).op, id |-> Head(s2c).id, for |-> IF wire = "exts" THEN 0 ELSE solves]
      /\ model' = IF wire = "model" THEN Head(s2c).id ELSE model
      /\ wire' = "idle" /\ user' = "idle"
      /\ UNCHANGED <<c2s, cproto, hpc, sproto, solver, solves, fresh, ended, careful>>
  BY DEF ReadAnswer, serverVars
<1>2. /\ Always /\ Waits /\ Len(s2c) = 1 /\ Head(s2c) = s2c[1] /\ Len(c2s) \in Nat
      /\ s2c' \in Seq(Reply) /\ Len(s2c') = 0 /\ s2c[1] \in Reply
      /\ hpc = "closed" <=> s2c[1].op = "Error"
      /\ hpc # "closed" => Open /\ Len(c2s) = 0
  BY <1>1, ReadFacts
<1>3. hpc # "closed" /\ Open /\ Len(c2s) = 0 /\ s2c[1].id = IF wire = "exts" THEN 0 ELSE solves
  BY <1>1, <1>2 DEF Open, Answered
<1>4. ~ Waits'
  BY <1>1 DEF Waits
<1>5. ~ solver.running
  BY <1>1, <1>3 DEF Open, Runs
<1>6. Always'
  <2>1. CrispTypes'
    <3>1. model' \in Nat
      BY <1>1, <1>2 DEF Always, CrispTypes, Reply
    <3> QED BY <1>1, <1>2, <3>1 DEF Always, CrispTypes
  <2>2. UserWaits'
    BY <1>1 DEF UserWaits, QueryWires
  <2>3. Careful'
    BY <1>1, <1>2, <1>3 DEF Always, Careful, QueryWires
  <2> QED BY <1>1, <1>2, <1>5, <2>1, <2>2, <2>3 DEF Always
<1>7. Open'
  <2>1. Neighbours(c2s)' /\ FirstFits' /\ LastFits' /\ NoRequest'
    BY <1>1, <1>2, <1>3 DEF Open, Neighbours, FirstFits, LastFits, NoRequest
  <2>2. Pending' /\ Answered' /\ Runs'
    BY <1>1, <1>2, <1>5 DEF Pending, Answered, Runs, QueryWires
  <2>3. Numbered' /\ Fresh'
    BY <1>1, <1>2, <1>3 DEF Open, Numbered, Fresh, LastIs
  <2> QED BY <2>1, <2>2, <2>3 DEF Open
<1> QED BY <1>6, <1>7 DEF CrispInv

(* Test, Try and Stop of netsolve only pass the result on.                 *)
LEMMA NetSolveKeeps ==
  ASSUME CrispInv, NetSolve
  PROVE  CrispInv'
<1>1. UNCHANGED <<c2s, s2c, cproto, model, hpc, sproto, solver, solves, fresh, ended, careful, got>>
  BY DEF NetSolve, NetTest, NetTry, TryResult, TryTimeout, NetStop, StopResult, StopReceive,
         NetUnchanged, wireVars, serverVars, ghostVars
<1>2. Always /\ (hpc # "closed" => Open)
  BY DEF CrispInv
<1>3. \/ wire = "deliver" /\ wire' = "idle" /\ user' \in {"idle", "stopSend"}
      \/ UNCHANGED wire /\ user' \in {"try", "stop"} /\ user \in {"holds", "try"}
  BY DEF NetSolve, NetTest, NetTry, TryResult, TryTimeout, NetStop, StopResult, StopReceive, TakeResult
<1>4. /\ user # "gone"
      /\ wire \in {"solve", "deliver"} /\ (wire' = "solve" <=> wire = "solve") /\ (Waits' <=> Waits)
      /\ wire' \in {"idle", "solve", "deliver"}
  <2>1. UserWaits /\ wire \in QueryWires \cup {"idle", "solve", "deliver", "exts"}
    BY <1>2 DEF Always, CrispTypes
  <2> QED BY <1>3, <2>1 DEF UserWaits, QueryWires, Waits
<1>5. Always'
  <2>1. CrispTypes'
    BY <1>1, <1>2, <1>4 DEF Always, CrispTypes
  <2>2. UserWaits'
    BY <1>3, <1>4 DEF UserWaits, QueryWires
  <2>3. Careful'
    BY <1>1, <1>2, <1>4 DEF Always, Careful, QueryWires
  <2> QED BY <1>1, <1>2, <1>4, <2>1, <2>2, <2>3 DEF Always
<1>6. ASSUME hpc' # "closed" PROVE Open'
  <2>1. Open
    BY <1>1, <1>2, <1>6
  <2>2. Neighbours(c2s)'
    BY <1>1, <2>1 DEF Open, Neighbours
  <2>3. FirstFits' /\ LastFits' /\ NoRequest'
    BY <1>1, <1>4, <2>1 DEF Open, FirstFits, LastFits, NoRequest, LastOp, Next1
  <2>4. Pending'
    BY <1>1, <1>4, <2>1 DEF Open, Pending, QueryWires, LastIs, LastOp, Next1
  <2>5. Numbered' /\ Answered'
    BY <1>1, <1>4, <2>1 DEF Open, Numbered, Answered, LastIs, LastOp
  <2>6. Fresh' /\ Runs'
    BY <1>1, <1>4, <2>1 DEF Open, Fresh, Runs, Next1
  <2> QED BY <2>1, <2>2, <2>3, <2>4, <2>5, <2>6 DEF Open
<1> QED BY <1>5, <1>6 DEF CrispInv

-----------------------------------------------------------------------------
(***************************************************************************)
(* The handler's steps, and those of its surroundings.                     *)
(***************************************************************************)

(* The handler takes an item which it does not answer, with its data.      *)
LEMMA TakenKeeps ==
  ASSUME CrispInv, hpc # "closed", Len(c2s) > 0,
         Next1 \in {"Add", "cls", "End", "Assume", "Reset"}, Next1 = "End" => hpc = "adding",
         NEW n \in 1 .. 2, n = (IF Next1 = "Assume" THEN 2 ELSE 1), Handle(n, <<>>), UNCHANGED solver,
         hpc' = (IF Next1 \in Lists THEN "adding" ELSE "main"),
         sproto' = sproto \/ Next1 \notin {"cls", "End"}
  PROVE  CrispInv'
<1>1. Always /\ Open
  BY DEF CrispInv
<1>2. /\ Len(c2s) >= n /\ c2s' = SubSeq(c2s, n + 1, Len(c2s)) /\ s2c' = s2c \o <<>>
      /\ UNCHANGED <<cproto, model, wire, user, solves, fresh, ended, careful, got>>
  BY DEF Handle, clientVars, ghostVars
<1>3. Len(s2c) = 0 /\ Len(c2s) \in Nat /\ c2s \in Seq(Item) /\ s2c \in Seq(Reply) /\ Neighbours(c2s)
  BY <1>1, HeadFacts DEF Always, CrispTypes, Open
<1>4. s2c' \in Seq(Reply) /\ Len(s2c') = 0
  <2>1. \A s \in Seq(Reply) : s \o <<>> = s
    BY ConcatEmptySeq
  <2> QED BY <1>2, <1>3, <2>1
<1>5. /\ c2s' \in Seq(Item) /\ Len(c2s') = Len(c2s) - n /\ Neighbours(c2s)'
      /\ \A i \in 1 .. Len(c2s') : i + n \in 1 .. Len(c2s) /\ c2s'[i] = c2s[i + n]
      /\ Len(c2s') \in Nat /\ (Len(c2s') = 0 \/ Len(c2s') > 0)
      /\ Len(c2s') = 0 => n = Len(c2s)
      /\ Len(c2s') = 1 => n = Len(c2s) - 1
      /\ Len(c2s') > 0 => c2s'[Len(c2s')] = c2s[Len(c2s)] /\ c2s'[1] = c2s[n + 1] /\ Follows(c2s[n].op, c2s'[1].op)
      /\ Len(c2s') > 1 => c2s'[Len(c2s') - 1] = c2s[Len(c2s) - 1]
  <2>1. \A q \in Seq(Item), l \in 1 .. 2 : Neighbours(q) /\ l <= Len(q) => Left(q, l, SubSeq(q, l + 1, Len(q)))
    BY TakenFacts
  <2>2. n <= Len(c2s)
    BY <1>2, <1>3
  <2>3. Left(c2s, n, c2s')
    BY <1>2, <1>3, <2>1, <2>2, Zenon
  <2> QED BY <2>3, Zenon DEF Left
<1>6. PICK t : t = c2s[n].op
  OBVIOUS
<1>7. t = IF Next1 = "Assume" THEN "lits" ELSE Next1
  <2>1. Next1 = "Assume" => Follows(Next1, c2s[2].op)
    <3>1. Next1 = "Assume" => Len(c2s) > 1
      BY <1>2, <1>3
    <3> QED BY <1>1, <3>1, HeadFacts
  <2>2. Next1 = "Assume" => c2s[2].op = "lits"
    BY <2>1 DEF Follows, WithLits
  <2> QED BY <1>6, <2>2 DEF Next1
<1>8. Len(c2s') = 0 => LastOp = t
  BY <1>5, <1>6, Zenon DEF LastOp
<1>9. Len(c2s') > 0 => LastOp' = LastOp /\ Follows(t, Next1')
  BY <1>5, <1>6, Zenon DEF LastOp, Next1
<1>10. Len(c2s') > 1 => c2s'[Len(c2s') - 1] = c2s[Len(c2s) - 1]
  BY <1>5, Zenon
<1>11. Len(c2s') \in Nat /\ (Len(c2s') = 0 \/ Len(c2s') > 0)
  BY <1>5, Zenon
<1>12. t \notin Requests /\ t \in {"Add", "cls", "lits", "End", "Reset"} /\ (t \in Lists <=> Next1 \in Lists)
  BY <1>7 DEF Requests, Queries, Lists
<1>13. Always'
  <2>1. CrispTypes' /\ UserWaits'
    BY <1>1, <1>2, <1>4, <1>5 DEF Always, CrispTypes, UserWaits
  <2>2. Careful'
    BY <1>1, <1>2, <1>4 DEF Always, Careful, QueryWires
  <2> QED BY <1>1, <1>2, <1>4, <2>1, <2>2 DEF Always
<1>14. ~ solver.running
  BY <1>1, <1>3 DEF Open, Runs, FirstFits
<1>15. FirstFits'
  BY <1>9, <1>12 DEF FirstFits, Follows, Lists, WithLits
<1>16. LastFits'
  BY <1>1, <1>2, <1>8, <1>9, <1>11, <1>12 DEF Open, LastFits, Lists
<1>17. NoRequest'
  <2>1. NoRequest /\ (Waits' <=> Waits) /\ user' = user
    BY <1>1, <1>2 DEF Open, Waits
  <2> QED BY <1>5, <2>1 DEF NoRequest
<1>18. wire = "solve" => LastIs("Solve")
  BY <1>1, <1>3 DEF Open, Pending, FirstFits
<1>19. ASSUME NEW p \in Requests, LastIs(p) PROVE LastIs(p)'
  BY <1>8, <1>9, <1>11, <1>12, <1>19 DEF LastIs
<1>20. ASSUME NEW p \in {"ModelFor", "FailedFor"}, ListIs(p) PROVE ListIs(p)'
  <2>1. Len(c2s') > 0
    <3>1. Len(c2s') = 0 => LastOp = t /\ n = Len(c2s)
      BY <1>3, <1>5, <1>8
    <3>2. t = "lits" => n = 2 /\ c2s[1].op = "Assume"
      BY <1>7 DEF Next1
    <3>3. ASSUME Len(c2s') = 0 PROVE FALSE
      <4>1. t = "lits" /\ n = Len(c2s) /\ c2s[Len(c2s) - 1].op = p
        BY <1>20, <3>1, <3>3 DEF ListIs
      <4>2. Len(c2s) - 1 = 1 /\ c2s[1].op = "Assume"
        BY <3>2, <4>1
      <4> QED BY <4>1, <4>2
    <3> QED BY <1>11, <3>3
  <2>2. Len(c2s') > 1
    <3>1. ASSUME Len(c2s') = 1 PROVE FALSE
      <4>1. n = Len(c2s) - 1 /\ c2s[n].op = p
        <5>1. n = Len(c2s) - 1
          BY <1>5, <3>1, Zenon
        <5> QED BY <1>20, <5>1 DEF ListIs
      <4> QED BY <1>6, <1>12, <4>1
    <3>2. PICK m \in Nat : m = Len(c2s')
      BY <1>11
    <3>3. m > 0 => m = 1 \/ m > 1
      OBVIOUS
    <3> QED BY <2>1, <3>1, <3>2, <3>3
  <2> QED BY <1>9, <1>10, <1>20, <2>1, <2>2 DEF ListIs
<1>21. Pending'
  <2>1. Pending
    BY <1>1 DEF Open
  <2>2. {"Solve", "Model", "Failed", "Ext"} \subseteq Requests
    BY DEF Requests, Queries
  <2> QED BY <1>2, <1>3, <1>18, <1>19, <1>20, <2>1, <2>2 DEF Pending
<1>22. Numbered'
  <2>1. wire = "solve" => LastIs("Solve") /\ LastIs("Solve")'
    BY <1>18, <1>19 DEF Requests
  <2> QED BY <1>1, <1>2, <2>1 DEF Open, Numbered
<1>23. ~ fresh \/ wire = "solve"
  BY <1>1 DEF Open, Fresh, Queries
<1>24. Answered' /\ Fresh' /\ Runs'
  BY <1>2, <1>4, <1>14, <1>23 DEF Answered, Fresh, Runs
<1>25. Open'
  BY <1>5, <1>15, <1>16, <1>17, <1>21, <1>22, <1>24 DEF Open
<1> QED BY <1>13, <1>25 DEF CrispInv

(* The handler answers: it has taken all, and the answer is alone.         *)
LEMMA AnsweredKeeps ==
  ASSUME CrispInv, hpc = "main", Len(c2s) > 0, Next1 \in Requests \cup {"End"},
         NEW n \in 1 .. 2, n = (IF Next1 \in {"ModelFor", "FailedFor"} THEN 2 ELSE 1),
         NEW a \in Reply, a.op # "Error", Handle(n, <<a>>), UNCHANGED hpc,
         solver' \in [id : Nat, running : BOOLEAN, res : {-1, 0, 1}],
         solver'.running => solver'.res = 0 /\ wire = "solve" /\ sproto' = "Solve" /\ a.op = "Unknown",
         Next1 # "Solve" => solver'.id = solver.id,
         Next1 = "Solve" => solver'.id = solver.id + 1,
         a.id = (IF Next1 = "Ext" THEN 0 ELSE solver'.id),
         Next1 \in Queries \cup {"Ext"} => UNCHANGED sproto,
         Next1 \notin Queries \cup {"Ext"} =>
           /\ a.op \in {"Sat", "Unsat", "Unknown", "End"}
           /\ sproto' = (IF Next1 = "End" THEN "End" ELSE "Solve")
           /\ a.op = "Unknown" => Next1 # "End"
  PROVE  CrispInv'
<1>1. Always /\ Open
  BY DEF CrispInv
<1>2. /\ Len(c2s) >= n /\ c2s' = SubSeq(c2s, n + 1, Len(c2s)) /\ s2c' = s2c \o <<a>>
      /\ UNCHANGED <<cproto, model, wire, user, solves, fresh, ended, careful, got>>
  BY DEF Handle, clientVars, ghostVars
<1>3. /\ Len(s2c) = 0 /\ Len(c2s) \in Nat
      /\ Next1 \in Requests => Waits
      /\ Next1 \in Alone => Len(c2s) = 1 /\ LastOp = Next1
      /\ Next1 \in {"ModelFor", "FailedFor"} => Len(c2s) = 2 /\ LastOp = "lits"
      /\ Next1 \in Queries => wire \in QueryWires
      /\ Next1 = "Solve" => wire = "solve"
      /\ Next1 = "Ext" => wire = "exts"
  BY <1>1, HeadFacts
<1>4. c2s \in Seq(Item) /\ s2c \in Seq(Reply)
  BY <1>1 DEF Always, CrispTypes
<1>5. Next1 \in {"Continue", "End"} => Len(c2s) = 1 /\ LastOp = Next1 /\ wire = "solve" /\ (Next1 = "End" => ended)
  BY <1>1 DEF Open, FirstFits, LastOp, Next1
<1>6. /\ Next1 \in {"Solve", "Continue", "Model", "Failed", "Ext", "ModelFor", "FailedFor", "End"}
      /\ Len(c2s) = n /\ LastOp = (IF Next1 \in {"ModelFor", "FailedFor"} THEN "lits" ELSE Next1) /\ Waits
      /\ Next1 \in {"Solve", "Continue", "End"} => wire = "solve"
  <2>1. Next1 \in {"Solve", "Continue", "Model", "Failed", "Ext", "ModelFor", "FailedFor", "End"}
    BY DEF Requests, Queries
  <2> QED BY <1>3, <1>5, <2>1 DEF Requests, Queries, Alone, Waits
<1>7. c2s' \in Seq(Item) /\ Len(c2s') = 0
  BY <1>2, <1>4, <1>6
<1>8. s2c' \in Seq(Reply) /\ Len(s2c') = 1 /\ s2c'[1] = a
  BY <1>2, <1>3, <1>4
<1>9. Waits' /\ wire' = wire
  BY <1>2, <1>6 DEF Waits
<1>10. a.id = (IF wire = "exts" THEN 0 ELSE solves) /\ solver'.id = solves
  <2>1. wire = "exts" <=> Next1 = "Ext"
    BY <1>3, <1>6 DEF QueryWires, Queries
  <2>2. Numbered
    BY <1>1 DEF Open
  <2>3. (wire = "solve" /\ LastIs("Solve")) <=> Next1 = "Solve"
    BY <1>3, <1>6 DEF LastIs
  <2> QED BY <2>1, <2>2, <2>3 DEF Numbered
<1>11. Always'
  <2>1. CrispTypes'
    BY <1>1, <1>2, <1>7, <1>8 DEF Always, CrispTypes
  <2>2. UserWaits' /\ Careful'
    BY <1>1, <1>2, <1>7 DEF Always, UserWaits, Careful, QueryWires
  <2> QED BY <1>8, <1>9, <2>1, <2>2 DEF Always
<1>12. Neighbours(c2s)' /\ FirstFits' /\ NoRequest'
  BY <1>7 DEF Neighbours, FirstFits, NoRequest
<1>13. LastFits'
  <2>1. LastOp \notin Lists
    BY <1>6 DEF Lists
  <2>2. cproto # "Add"
    BY <1>1, <2>1 DEF Open, LastFits
  <2> QED BY <1>2, <1>7, <2>2 DEF LastFits
<1>14. Pending' /\ Runs' /\ Numbered'
  BY <1>2, <1>7, <1>8, <1>9, <1>10 DEF Pending, Runs, Numbered, LastIs
<1>15. Answered'
  <2>1. wire = "solve" => Next1 \notin Queries \cup {"Ext"}
    BY <1>3 DEF QueryWires
  <2> QED BY <1>2, <1>5, <1>7, <1>8, <1>10, <2>1 DEF Answered
<1>16. Fresh'
  <2>1. wire # "solve" => Next1 \in Queries \cup {"Ext"}
    BY <1>6 DEF Queries
  <2> QED BY <1>1, <1>2, <1>7, <1>9, <2>1 DEF Open, Fresh
<1>17. Open'
  BY <1>12, <1>13, <1>14, <1>15, <1>16 DEF Open
<1> QED BY <1>11, <1>17 DEF CrispInv

(* When the connection closes, an <error> is read by a client that asked   *)
(* out of order.                                                           *)
LEMMA ClosedKeeps ==
  ASSUME CrispInv, hpc' = "closed", UNCHANGED <<cproto, model, wire, user, solver, solves, fresh, ended, careful, got>>,
         c2s' \in Seq(Item), s2c' \in Seq(Reply),
         Len(s2c') = 0 \/ (Len(s2c') = 1 /\ s2c'[1].op = "Error" /\ Waits /\ ~ careful)
  PROVE  CrispInv'
<1>1. Always
  BY DEF CrispInv
<1>2. CrispTypes' /\ UserWaits'
  BY <1>1 DEF Always, CrispTypes, UserWaits
<1>3. Careful'
  BY <1>1 DEF Always, Careful, QueryWires
<1>4. Waits' <=> Waits
  BY DEF Waits
<1> QED BY <1>1, <1>2, <1>3, <1>4 DEF Always, CrispInv

(* Every step of the handler keeps the invariant.                          *)
LEMMA HandlerKeeps ==
  ASSUME CrispInv, HandlerStep
  PROVE  CrispInv'
<1>1. /\ Always /\ (hpc # "closed" => Open) /\ c2s \in Seq(Item) /\ s2c \in Seq(Reply)
      /\ solver \in [id : Nat, running : BOOLEAN, res : {-1, 0, 1}]
      /\ solver.running => solver.res = 0
  BY DEF CrispInv, Always, CrispTypes
<1>2. c2s # <<>> => Len(c2s) > 0
  BY <1>1
<1>3. c2s # <<>> /\ hpc # "closed" => Len(s2c) = 0 /\ s2c = <<>>
  <2>1. Open /\ Len(c2s) > 0 => Len(s2c) = 0
    BY <1>1, HeadFacts
  <2> QED BY <1>1, <1>2, <2>1
<1>4. CASE HandleAdd \/ HandleAssume \/ HandleReset
  <2>1. PICK n \in 1 .. 2 :
          /\ hpc = "main" /\ c2s # <<>> /\ Next1 \in {"Add", "Assume", "Reset"}
          /\ n = (IF Next1 = "Assume" THEN 2 ELSE 1) /\ Handle(n, <<>>) /\ UNCHANGED solver
          /\ hpc' = (IF Next1 = "Add" THEN "adding" ELSE "main")
    BY <1>4, SMTT(20) DEF HandleAdd, HandleAssume, HandleReset, Receives, Stays
  <2>2. hpc' = (IF Next1 \in Lists THEN "adding" ELSE "main")
    BY <2>1 DEF Lists
  <2> QED BY <1>2, <2>1, <2>2, TakenKeeps
<1>5. CASE HandleClause \/ HandleAddEnd
  <2>1. /\ hpc = "adding" /\ c2s # <<>> /\ Next1 \in {"cls", "End"}
        /\ Handle(1, <<>>) /\ UNCHANGED <<solver, sproto>>
        /\ hpc' = (IF Next1 = "cls" THEN "adding" ELSE "main")
    BY <1>5 DEF HandleClause, HandleAddEnd, serverVars
  <2>2. hpc' = (IF Next1 \in Lists THEN "adding" ELSE "main")
    BY <2>1 DEF Lists
  <2> QED BY <1>2, <2>1, <2>2, TakenKeeps
<1>6. CASE HandleSolve
  <2>1. PICK s : \E r \in {-1, 0, 1} :
          /\ s = [id |-> solver.id + 1, running |-> (r = 0), res |-> r]
          /\ solver' = s /\ Handle(1, StepAnswer(s))
          /\ hpc = "main" /\ hpc' = "main" /\ c2s # <<>> /\ Next1 = "Solve" /\ sproto' = "Solve"
    BY <1>6 DEF HandleSolve, Receives, Stays
  <2>2. PICK a : a = Ans(CASE s.res = 1 -> "Sat" [] s.res = -1 -> "Unsat" [] OTHER -> "Unknown", s.id)
    OBVIOUS
  <2>3. /\ solver' \in [id : Nat, running : BOOLEAN, res : {-1, 0, 1}] /\ solver'.id = solver.id + 1
        /\ s.id = solver'.id /\ (solver'.running => s.res = 0 /\ solver'.res = 0)
    <3>1. PICK r \in {-1, 0, 1} : s = [id |-> solver.id + 1, running |-> (r = 0), res |-> r] /\ solver' = s
      BY <2>1
    <3>2. solver'.id = solver.id + 1 /\ solver'.res = r /\ solver'.running = (r = 0)
      BY <3>1
    <3>3. solver.id + 1 \in Nat /\ (r = 0) \in BOOLEAN
      BY <1>1
    <3>4. s \in [id : Nat, running : BOOLEAN, res : {-1, 0, 1}]
      BY <3>1, <3>3
    <3> QED BY <3>1, <3>2, <3>4
  <2>4. /\ a \in Reply /\ a.op \in {"Sat", "Unsat", "Unknown"} /\ a.id = s.id
        /\ s.res = 0 => a.op = "Unknown"
    BY <2>1, <2>2, <2>3 DEF Ans, Reply, Answers
  <2>5. Handle(1, <<a>>)
    BY <2>1, <2>2 DEF StepAnswer
  <2>6. wire = "solve"
    BY <1>1, <1>2, <2>1, HeadFacts
  <2>7. Next1 \in Requests /\ Next1 \notin Queries \cup {"Ext"}
    BY <2>1 DEF Requests, Queries
  <2> QED BY <1>2, <2>1, <2>3, <2>4, <2>5, <2>6, <2>7, AnsweredKeeps
<1>7. CASE HandleContinue
  <2>1. PICK a :
          /\ a = Ans(CASE solver.res = 1 -> "Sat" [] solver.res = -1 -> "Unsat" [] OTHER -> "Unknown", solver.id)
          /\ Handle(1, <<a>>) /\ UNCHANGED solver
          /\ hpc = "main" /\ hpc' = "main" /\ c2s # <<>> /\ Next1 = "Continue" /\ sproto' = "Solve"
    BY <1>7 DEF HandleContinue, Receives, Stays, StepAnswer
  <2>2. /\ a \in Reply /\ a.op \in {"Sat", "Unsat", "Unknown"} /\ a.id = solver.id
        /\ solver.res = 0 => a.op = "Unknown"
    BY <1>1, <2>1 DEF Ans, Reply, Answers
  <2>3. wire = "solve"
    BY <1>1, <1>2, <2>1 DEF Open, FirstFits
  <2>4. Next1 \in Requests /\ Next1 \notin Queries \cup {"Ext"}
    BY <2>1 DEF Requests, Queries
  <2> QED BY <1>1, <1>2, <2>1, <2>2, <2>3, <2>4, AnsweredKeeps
<1>8. CASE HandleEnd
  <2>1. PICK a :
          /\ a = Ans(CASE solver.res = 1 -> "Sat" [] solver.res = -1 -> "Unsat" [] OTHER -> "End", solver.id)
          /\ Handle(1, <<a>>) /\ solver' = [solver EXCEPT !.running = FALSE]
          /\ hpc = "main" /\ hpc' = "main" /\ c2s # <<>> /\ Next1 = "End" /\ sproto' = "End"
    BY <1>8 DEF HandleEnd, Receives, Stays
  <2>2. a \in Reply /\ a.op \in {"Sat", "Unsat", "End"} /\ a.id = solver.id
    BY <1>1, <2>1 DEF Ans, Reply, Answers
  <2>3. solver' \in [id : Nat, running : BOOLEAN, res : {-1, 0, 1}] /\ solver'.id = solver.id /\ ~ solver'.running
    BY <1>1, <2>1
  <2>4. /\ Next1 \notin Queries \cup {"Ext"} /\ Next1 \in Requests \cup {"End"} /\ Next1 # "Solve"
        /\ a.op \notin {"Error", "Unknown"}
    BY <2>1, <2>2 DEF Queries
  <2>5. Handle(1, <<a>>) /\ UNCHANGED hpc /\ Len(c2s) > 0 /\ hpc = "main" /\ Next1 = "End" /\ sproto' = "End"
    BY <1>2, <2>1
  <2> QED BY <2>2, <2>3, <2>4, <2>5, AnsweredKeeps
<1>9. CASE HandleModel \/ HandleModelFor \/ HandleFailed \/ HandleFailedFor \/ HandleExt
  <2>1. ~ solver.running
    <3>1. hpc = "main" /\ c2s # <<>> /\ Next1 \notin {"Continue", "End"}
      BY <1>9 DEF HandleModel, HandleModelFor, HandleFailed, HandleFailedFor, HandleExt, Query, Receives
    <3> QED BY <1>1, <1>3, <3>1 DEF Open, Runs
  <2>2. ASSUME NEW p \in Queries, NEW n \in 1 .. 2, n = (IF p \in {"ModelFor", "FailedFor"} THEN 2 ELSE 1),
               NEW x \in {"model", "failed"}, Query(p, n, Ans(x, solver.id))
        PROVE  CrispInv'
    <3>1. PICK a : a = Ans(x, solver.id)
      OBVIOUS
    <3>2. a \in Reply /\ a.op # "Error" /\ a.id = solver.id
      BY <1>1, <3>1 DEF Ans, Reply, Answers
    <3>3. /\ Handle(n, <<a>>) /\ UNCHANGED <<solver, hpc, sproto>>
          /\ hpc = "main" /\ c2s # <<>> /\ Next1 = p
      BY <2>2, <3>1 DEF Query, Receives, serverVars
    <3>4. p \in Requests /\ p \notin {"Ext", "Solve"}
      BY DEF Requests, Queries
    <3> QED BY <1>1, <1>2, <2>1, <2>2, <3>2, <3>3, <3>4, AnsweredKeeps
  <2>3. CASE HandleModel
    BY <2>2, <2>3 DEF HandleModel, Queries
  <2>4. CASE HandleModelFor
    BY <2>2, <2>4 DEF HandleModelFor, Queries
  <2>5. CASE HandleFailed
    BY <2>2, <2>5 DEF HandleFailed, Queries
  <2>6. CASE HandleFailedFor
    BY <2>2, <2>6 DEF HandleFailedFor, Queries
  <2>7. CASE HandleExt
    <3>1. PICK a : a = Ans("exts", 0)
      OBVIOUS
    <3>2. a \in Reply /\ a.op # "Error" /\ a.id = 0
      BY <3>1 DEF Ans, Reply, Answers
    <3>3. /\ Handle(1, <<a>>) /\ UNCHANGED <<solver, hpc, sproto>>
          /\ hpc = "main" /\ c2s # <<>> /\ Next1 = "Ext"
      BY <2>7, <3>1 DEF HandleExt, Receives, serverVars
    <3>4. Next1 \in Requests /\ Next1 \in Queries \cup {"Ext"} /\ Next1 \notin {"ModelFor", "FailedFor", "Solve"}
      BY <3>3 DEF Requests
    <3> QED BY <1>1, <1>2, <2>1, <3>2, <3>3, <3>4, AnsweredKeeps
  <2> QED BY <1>9, <2>3, <2>4, <2>5, <2>6, <2>7
<1>10. CASE HandleQuit
  <2>1. Close(1, <<>>) /\ c2s # <<>> /\ hpc # "closed"
    BY <1>10 DEF HandleQuit, Receives
  <2>2. c2s' = SubSeq(c2s, 2, Len(c2s)) /\ s2c' = s2c \o <<>> /\ hpc' = "closed"
        /\ UNCHANGED <<cproto, model, wire, user, solver, solves, fresh, ended, careful, got>>
    BY <2>1 DEF Close, Handle, clientVars, ghostVars
  <2>3. c2s' \in Seq(Item) /\ s2c' \in Seq(Reply) /\ Len(s2c') = 0
    BY <1>1, <1>3, <2>1, <2>2
  <2> QED BY <2>2, <2>3, ClosedKeeps
<1>11. CASE OutOfOrder
  <2>0. hpc = "main" /\ c2s # <<>> /\ sproto # "Solve"
    BY <1>11 DEF OutOfOrder
  <2>1. Next1 \notin {"Continue", "End"}
    BY <1>1, <1>2, <2>0 DEF Open, FirstFits
  <2>2. Next1 \in Queries /\ Close(1, <<Ans("Error", 0)>>)
    BY <1>11, <2>1 DEF OutOfOrder, Queries
  <2>3. c2s' = SubSeq(c2s, 2, Len(c2s)) /\ s2c' = s2c \o <<Ans("Error", 0)>> /\ hpc' = "closed"
        /\ UNCHANGED <<cproto, model, wire, user, solver, solves, fresh, ended, careful, got>>
    BY <2>2 DEF Close, Handle, clientVars, ghostVars
  <2>4. PICK a : a = Ans("Error", 0)
    OBVIOUS
  <2>5. a \in Reply /\ a.op = "Error"
    BY <2>4 DEF Ans, Reply, Answers
  <2>6. c2s' \in Seq(Item) /\ s2c' \in Seq(Reply) /\ Len(s2c') = 1 /\ s2c'[1] = a
    BY <1>1, <1>3, <2>0, <2>3, <2>4, <2>5
  <2>7. wire \in QueryWires /\ Waits
    BY <1>1, <1>2, <2>0, <2>2, HeadFacts DEF Requests
  <2>8. ~ careful
    BY <1>1, <2>0, <2>7 DEF Always, Careful, Open, Fresh, QueryWires
  <2> QED BY <2>3, <2>5, <2>6, <2>7, <2>8, ClosedKeeps
<1> QED BY <1>4, <1>5, <1>6, <1>7, <1>8, <1>9, <1>10, <1>11 DEF HandlerStep

(* The solve ends, or the connection breaks.                               *)
LEMMA OutsideKeeps ==
  ASSUME CrispInv, SolverEnds \/ Cut
  PROVE  CrispInv'
<1>1. Always /\ (hpc # "closed" => Open)
  BY DEF CrispInv
<1>2. CASE Cut
  <2>1. /\ hpc' = "closed" /\ c2s' = <<>> /\ s2c' = <<>>
        /\ UNCHANGED <<cproto, model, wire, user, solver, solves, fresh, ended, careful, got>>
    BY <1>2 DEF Cut, clientVars, ghostVars
  <2>2. c2s' \in Seq(Item) /\ s2c' \in Seq(Reply) /\ Len(s2c') = 0
    BY <2>1
  <2> QED BY <2>1, <2>2, ClosedKeeps
<1>3. CASE SolverEnds
  <2>1. PICK r \in {-1, 1} :
          /\ solver' = [solver EXCEPT !.running = FALSE, !.res = r]
          /\ UNCHANGED <<c2s, s2c, cproto, model, wire, user, hpc, sproto, solves, fresh, ended, careful, got>>
    BY <1>3 DEF SolverEnds, wireVars, clientVars, ghostVars
  <2>2. /\ solver' \in [id : Nat, running : BOOLEAN, res : {-1, 0, 1}]
        /\ solver'.id = solver.id /\ ~ solver'.running
    BY <1>1, <2>1 DEF Always, CrispTypes
  <2>3. Always'
    <3>1. CrispTypes' /\ UserWaits'
      BY <1>1, <2>1, <2>2 DEF Always, CrispTypes, UserWaits
    <3>2. Careful'
      BY <1>1, <2>1 DEF Always, Careful, QueryWires
    <3> QED BY <1>1, <2>1, <2>2, <3>1, <3>2 DEF Always, Waits
  <2>4. ASSUME hpc' # "closed" PROVE Open'
    <3>1. Open
      BY <1>1, <2>1, <2>4
    <3>2. Neighbours(c2s)' /\ FirstFits' /\ LastFits' /\ NoRequest'
      BY <2>1, <3>1 DEF Open, Neighbours, FirstFits, LastFits, NoRequest, LastOp, Next1, Waits
    <3>3. Pending' /\ Numbered' /\ Answered'
      BY <2>1, <2>2, <3>1 DEF Open, Pending, Numbered, Answered, LastIs, ListIs, LastOp, Next1
    <3>4. Fresh' /\ Runs'
      BY <2>1, <2>2, <3>1 DEF Open, Fresh, Runs, Next1, Waits
    <3> QED BY <3>2, <3>3, <3>4 DEF Open
  <2> QED BY <2>3, <2>4 DEF CrispInv
<1> QED BY <1>2, <1>3

-----------------------------------------------------------------------------
(***************************************************************************)
(* The theorems about the connection.                                      *)
(***************************************************************************)

(* A new client and a new handler satisfy the invariant.                   *)
LEMMA CrispInit ==
  ASSUME Init
  PROVE  CrispInv
<1>1. Always
  <2>1. CrispTypes
    <3>1. c2s \in Seq(Item) /\ s2c \in Seq(Reply)
      BY DEF Init
    <3>2. solver \in [id : Nat, running : BOOLEAN, res : {-1, 0, 1}]
      BY DEF Init
    <3> QED BY <3>1, <3>2 DEF Init, CrispTypes
  <2>2. UserWaits /\ Careful
    BY DEF Init, UserWaits, Careful, Nothing, QueryWires
  <2> QED BY <2>1, <2>2 DEF Init, Always
<1>2. Open
  <2>1. Neighbours(c2s) /\ FirstFits /\ LastFits /\ NoRequest
    BY DEF Init, Neighbours, FirstFits, LastFits, NoRequest
  <2>2. Pending /\ Numbered /\ Answered /\ Fresh /\ Runs
    BY DEF Init, Pending, Numbered, Answered, Fresh, Runs, QueryWires, LastIs
  <2> QED BY <2>1, <2>2 DEF Open
<1> QED BY <1>1, <1>2 DEF CrispInv

(* Every step of client, handler, solver and connection keeps it.          *)
LEMMA CrispStep ==
  ASSUME CrispInv, [Next]_vars
  PROVE  CrispInv'
<1>1. CASE ClientCall
  BY <1>1, ClientCallKeeps
<1>2. CASE ClientRead
  BY <1>2, ReadResultKeeps, ReadUnknownKeeps, ReadFailureKeeps, ReadAnswerKeeps DEF ClientRead
<1>3. CASE NetSolve
  BY <1>3, NetSolveKeeps
<1>4. CASE HandlerStep
  BY <1>4, HandlerKeeps
<1>5. CASE SolverEnds \/ Cut
  BY <1>5, OutsideKeeps
<1>6. CASE UNCHANGED vars
  BY <1>6 DEF vars, wireVars, clientVars, serverVars, ghostVars, CrispInv, Always, Open, CrispTypes, UserWaits, Careful,
      Neighbours, FirstFits, LastFits, NoRequest, Pending, Numbered, Answered, Fresh, Runs, LastIs, ListIs, LastOp, Next1, Waits
<1> QED BY <1>1, <1>2, <1>3, <1>4, <1>5, <1>6 DEF Next

(* CrispInv holds in every run of client and handler, and for any number   *)
(* of calls and solves.                                                    *)
THEOREM CrispInvariant == Spec => []CrispInv
<1>1. Init => CrispInv
  BY CrispInit
<1>2. CrispInv /\ [Next]_vars => CrispInv'
  BY CrispStep
<1> QED BY <1>1, <1>2, PTL DEF Spec

(* Client.checkState and Handler.Crisp agree on the protocol: each item is *)
(* one the handler expects when it takes it, nothing a careful client      *)
(* sends closes the connection, and no answer is left unread when the next *)
(* is written, whatever lists of clauses, cancelled solves and queries     *)
(* came before.                                                            *)
THEOREM ProtocolInStep == Spec => []OrderKept
<1>1. CrispInv => OrderKept
  BY InvImplies
<1> QED BY <1>1, CrispInvariant, PTL

(* A result, a model or failed literals that the client reads are those of *)
(* its last solve, also when Stop has cancelled one before, or has lost    *)
(* the race with its end.                                                  *)
THEOREM AnswersAreOwn == Spec => []AnswersMatch
<1>1. CrispInv => AnswersMatch
  BY InvImplies
<1> QED BY <1>1, CrispInvariant, PTL

(* While a solve runs, Handler.Crisp only tests it or stops it: none of    *)
(* the other ops reaches a solver which is searching.                      *)
THEOREM SolverLeftAlone == Spec => []QuietSolver
<1>1. CrispInv => QuietSolver
  BY InvImplies
<1> QED BY <1>1, CrispInvariant, PTL

-----------------------------------------------------------------------------
(***************************************************************************)
(* The guess heap.  Its loops are rounds of a body (Rounds), and what they *)
(* do is shown by induction over the rounds: FoldProofs, instantiated with *)
(* each body, says that the rounds are a sequence of steps.                *)
(***************************************************************************)
(* A heap of n variables, those with a position, in any order. *)
HeapOK(h) ==
  /\ h = [vhp |-> h.vhp, pos |-> h.pos]
  /\ h.vhp \in Seq(VarSet) /\ h.pos \in [VarSet -> Nat]
  /\ \A i \in 1 .. Len(h.vhp) : h.pos[h.vhp[i]] = i
  /\ \A v \in VarSet : h.pos[v] # 0 => h.pos[v] \in 1 .. Len(h.vhp) /\ h.vhp[h.pos[v]] = v

Has(h) == {v \in VarSet : h.pos[v] # 0}

(* g has the variables of h. *)
SameVars(g, h) == Len(g.vhp) = Len(h.vhp) /\ Has(g) = Has(h)

(* The i-th variable is not hotter than its parent. *)
Above(h, ht, i) == ht[h.vhp[i]] <= ht[h.vhp[i \div 2]]

Ordered(h, ht) == \A i \in 2 .. Len(h.vhp) : Above(h, ht, i)

Heats == [VarSet -> Nat]

LEMMA HeapTypes ==
  ASSUME NEW h, HeapOK(h), NEW i \in 1 .. Len(h.vhp)
  PROVE  h.vhp[i] \in VarSet /\ \A j \in 1 .. Len(h.vhp) : h.vhp[i] = h.vhp[j] => i = j
BY DEF HeapOK

LEMMA SwapFacts ==
  ASSUME NEW h, HeapOK(h), NEW i \in 1 .. Len(h.vhp), NEW j \in 1 .. Len(h.vhp)
  PROVE  LET g == Swap(h, i, j)
         IN  /\ HeapOK(g) /\ SameVars(g, h)
             /\ g.vhp[i] = h.vhp[j] /\ g.vhp[j] = h.vhp[i]
             /\ \A k \in 1 .. Len(h.vhp) : k # i /\ k # j => g.vhp[k] = h.vhp[k]
<1> DEFINE g == Swap(h, i, j)
<1> DEFINE n == Len(h.vhp)
<1>1. n \in Nat /\ h.vhp \in [1 .. n -> VarSet] /\ h.vhp \in Seq(VarSet) /\ h.pos \in [VarSet -> Nat]
  BY DEF HeapOK
<1>2. /\ g = [vhp |-> g.vhp, pos |-> g.pos]
      /\ g.vhp = [h.vhp EXCEPT ![i] = h.vhp[j], ![j] = h.vhp[i]]
      /\ g.pos = [h.pos EXCEPT ![h.vhp[i]] = j, ![h.vhp[j]] = i]
  BY DEF Swap
<1>3. h.vhp[i] \in VarSet /\ h.vhp[j] \in VarSet
  BY HeapTypes
<1>4. g.vhp \in [1 .. n -> VarSet] /\ g.pos \in [VarSet -> Nat]
  <2> DEFINE a == h.vhp
  <2> DEFINE p == h.pos
  <2>1. /\ a \in [1 .. n -> VarSet] /\ p \in [VarSet -> Nat]
        /\ a[i] \in VarSet /\ a[j] \in VarSet /\ i \in Nat /\ j \in Nat
    BY <1>1, <1>3
  <2>2. g.vhp = [a EXCEPT ![i] = a[j], ![j] = a[i]] /\ g.pos = [p EXCEPT ![a[i]] = j, ![a[j]] = i]
    BY <1>2
  <2> DEFINE ai == a[i]
  <2> DEFINE aj == a[j]
  <2> HIDE DEF a, p, g, n
  <2>3. [a EXCEPT ![i] = aj, ![j] = ai] \in [1 .. n -> VarSet]
    BY <2>1
  <2>4. [p EXCEPT ![ai] = j, ![aj] = i] \in [VarSet -> Nat]
    <3> HIDE DEF ai, aj
    <3> QED BY <2>1
  <2> QED BY <2>2, <2>3, <2>4
<1>5. g.vhp \in Seq(VarSet) /\ Len(g.vhp) = n
  <2> HIDE DEF g, n
  <2> QED BY <1>1, <1>4, LenProperties, SeqDef
<1>6. g.vhp[i] = h.vhp[j] /\ g.vhp[j] = h.vhp[i]
  BY <1>1, <1>2
<1>7. \A k \in 1 .. n : k # i /\ k # j => g.vhp[k] = h.vhp[k]
  BY <1>1, <1>2
<1>8. /\ g.pos[h.vhp[j]] = i /\ g.pos[h.vhp[i]] = j
      /\ \A v \in VarSet : v # h.vhp[i] /\ v # h.vhp[j] => g.pos[v] = h.pos[v]
  <2>1. h.vhp[i] = h.vhp[j] => i = j
    BY HeapTypes
  <2> QED BY <1>1, <1>2, <1>3, <2>1
<1> HIDE DEF g
<1>9. \A k \in 1 .. n : h.pos[h.vhp[k]] = k
  BY DEF HeapOK
<1>10. \A k \in 1 .. n : g.pos[g.vhp[k]] = k
  <2> TAKE k \in 1 .. n
  <2>1. CASE k = i \/ k = j
    BY <2>1, <1>6, <1>8
  <2>2. CASE k # i /\ k # j
    <3>1. g.vhp[k] = h.vhp[k] /\ h.vhp[k] \in VarSet
      BY <2>2, <1>7, HeapTypes
    <3>2. h.vhp[k] # h.vhp[i] /\ h.vhp[k] # h.vhp[j]
      BY <2>2, HeapTypes
    <3> QED BY <3>1, <3>2, <1>8, <1>9
  <2> QED BY <2>1, <2>2
<1>11. ASSUME NEW v \in VarSet
       PROVE  /\ g.pos[v] # 0 <=> h.pos[v] # 0
              /\ g.pos[v] # 0 => g.pos[v] \in 1 .. n /\ g.vhp[g.pos[v]] = v
  <2>0. i # 0 /\ j # 0 /\ h.pos[h.vhp[i]] = i /\ h.pos[h.vhp[j]] = j
    BY <1>9
  <2>1. CASE v = h.vhp[i] \/ v = h.vhp[j]
    BY <2>0, <2>1, <1>6, <1>8
  <2>2. CASE v # h.vhp[i] /\ v # h.vhp[j]
    <3>1. g.pos[v] = h.pos[v]
      BY <2>2, <1>8
    <3>2. h.pos[v] # 0 => h.pos[v] \in 1 .. n /\ h.vhp[h.pos[v]] = v
      BY DEF HeapOK
    <3>3. ASSUME h.pos[v] # 0 PROVE g.vhp[h.pos[v]] = v
      <4>1. h.pos[v] \in 1 .. n /\ h.vhp[h.pos[v]] = v /\ h.pos[v] # i /\ h.pos[v] # j
        BY <3>3, <3>2, <2>2
      <4> QED BY <4>1, <1>7
    <3> QED BY <3>1, <3>2, <3>3
  <2> QED BY <2>1, <2>2
<1>12. HeapOK(g)
  BY <1>2, <1>4, <1>5, <1>10, <1>11 DEF HeapOK
<1>13. SameVars(g, h)
  BY <1>5, <1>11 DEF SameVars, Has
<1> QED BY <1>6, <1>7, <1>12, <1>13 DEF g

-----------------------------------------------------------------------------
(* Up: only the variable at j may be hotter than its parent, and is not    *)
(* then when the loop ends.                                                *)
UpRun == INSTANCE FoldProofs WITH op <- UpBody

LEMMA UpRounds ==
  ASSUME NEW s, NEW par, NEW n \in Nat
  PROVE  \E f : UpRun!Steps(f, s, par, n) /\ Rounds(UpBody, s, par, n) = f[n]
<1> DEFINE f == CHOOSE f : UpRun!Iterates(f, s, par, n)
<1>1. UpRun!Iterates(f, s, par, n)
  BY UpRun!IterExists
<1>2. Rounds(UpBody, s, par, n) = f[n]
  BY DEF Rounds, UpRun!Iterates
<1> HIDE DEF f
<1>3. UpRun!Steps(f, s, par, n)
  BY <1>1, UpRun!IterSteps
<1> QED BY <1>2, <1>3

UpInv(s, h, ht) ==
  /\ s = [h |-> s.h, j |-> s.j]
  /\ HeapOK(s.h) /\ SameVars(s.h, h) /\ s.j \in 1 .. Len(h.vhp)
  /\ \A k \in 2 .. Len(h.vhp) : k # s.j => Above(s.h, ht, k)
  /\ \A k \in 2 .. Len(h.vhp) :
       k \div 2 = s.j /\ s.j \div 2 # 0 => ht[s.h.vhp[k]] <= ht[s.h.vhp[s.j \div 2]]

UpDone(s, ht) == s.j \div 2 = 0 \/ ht[s.h.vhp[s.j]] <= ht[s.h.vhp[s.j \div 2]]

LEMMA UpStep ==
  ASSUME NEW ht \in Heats, NEW h, NEW s, UpInv(s, h, ht)
  PROVE  LET t == UpBody(s, ht)
         IN  /\ UpInv(t, h, ht)
             /\ UpDone(s, ht) => t = s
             /\ ~ UpDone(s, ht) => t.j < s.j
<1>1. CASE UpDone(s, ht)
  BY <1>1 DEF UpDone, UpBody
<1>2. CASE ~ UpDone(s, ht)
  <2> DEFINE i == s.j \div 2
  <2> DEFINE j == s.j
  <2> DEFINE n == Len(h.vhp)
  <2> DEFINE a == s.h.vhp
  <2> DEFINE g == Swap(s.h, i, j)
  <2> DEFINE b == g.vhp
  <2>1. n = Len(s.h.vhp) /\ j \in 1 .. n /\ n \in Nat
    BY DEF UpInv, SameVars, HeapOK
  <2>2. i # 0 /\ ~ (ht[a[j]] <= ht[a[i]])
    BY <1>2 DEF UpDone
  <2>3. i \in 1 .. n /\ i < j /\ j \in 2 .. n
    BY <2>1, <2>2
  <2>4. UpBody(s, ht) = [h |-> g, j |-> i]
    BY <2>2 DEF UpBody
  <2>5. /\ HeapOK(g) /\ SameVars(g, s.h) /\ b[i] = a[j] /\ b[j] = a[i]
        /\ \A k \in 1 .. n : k # i /\ k # j => b[k] = a[k]
    BY <2>1, <2>3, SwapFacts DEF UpInv
  <2>6. \A k \in 1 .. n : a[k] \in VarSet /\ ht[a[k]] \in Nat
    BY <2>1, HeapTypes DEF UpInv, Heats
  <2>7. ht[a[i]] < ht[a[j]]
    BY <2>2, <2>3, <2>6
  <2>8. \A k \in 2 .. n : k # j => ht[a[k]] <= ht[a[k \div 2]]
    BY DEF UpInv, Above
  <2>9. \A k \in 2 .. n : k \div 2 = j => ht[a[k]] <= ht[a[i]]
    BY <2>2 DEF UpInv
  <2> HIDE DEF a, b, i, j, g
  <2>10. ASSUME NEW k \in 2 .. n, k # i
         PROVE  ht[b[k]] <= ht[b[k \div 2]]
    <3>1. k \div 2 \in 1 .. n /\ k \div 2 < k /\ k \in 1 .. n /\ i \in 1 .. n /\ j \in 1 .. n
      BY <2>1, <2>3
    <3>2. CASE k = j
      BY <3>2, <2>5, <2>7, <2>6, <3>1 DEF i, j
    <3>3. CASE k # j /\ k \div 2 = j
      <4>1. b[k] = a[k] /\ b[k \div 2] = a[i]
        BY <3>1, <3>3, <2>5, <2>10
      <4> QED BY <4>1, <3>3, <2>9
    <3>4. CASE k # j /\ k \div 2 = i
      <4>1. b[k] = a[k] /\ b[k \div 2] = a[j] /\ ht[a[k]] <= ht[a[i]]
        BY <3>1, <3>4, <2>5, <2>8, <2>10
      <4> QED BY <4>1, <2>7, <2>6, <3>1
    <3>5. CASE k # j /\ k \div 2 # i /\ k \div 2 # j
      <4>1. b[k] = a[k] /\ b[k \div 2] = a[k \div 2]
        BY <3>1, <3>5, <2>5, <2>10
      <4> QED BY <4>1, <3>5, <2>8
    <3> QED BY <3>2, <3>3, <3>4, <3>5
  <2>11. ASSUME NEW k \in 2 .. n, k \div 2 = i, i \div 2 # 0
         PROVE  ht[b[k]] <= ht[b[i \div 2]]
    <3>1. /\ i \in 2 .. n /\ i \div 2 \in 1 .. n /\ i \div 2 < i /\ i < j /\ i < k
          /\ k \in 1 .. n /\ i \in 1 .. n /\ j \in 1 .. n
      BY <2>1, <2>3, <2>11
    <3>2. b[i \div 2] = a[i \div 2] /\ ht[a[i]] <= ht[a[i \div 2]]
      BY <3>1, <2>5, <2>8
    <3>3. CASE k = j
      BY <3>3, <3>2, <2>5
    <3>4. CASE k # j
      <4>1. b[k] = a[k] /\ ht[a[k]] <= ht[a[i]]
        BY <3>1, <3>4, <2>5, <2>8, <2>11
      <4> QED BY <4>1, <3>1, <3>2, <2>6
    <3> QED BY <3>3, <3>4
  <2>12. SameVars(g, h)
    BY <2>5 DEF UpInv, SameVars
  <2> DEFINE t == [h |-> g, j |-> i]
  <2>13. UpInv(t, h, ht)
    <3>1. t = [h |-> t.h, j |-> t.j] /\ t.h = g /\ t.j = i /\ t.h.vhp = b
      BY DEF b
    <3> HIDE DEF t
    <3> QED BY <3>1, <2>3, <2>5, <2>10, <2>11, <2>12 DEF UpInv, Above
  <2> QED BY <1>2, <2>3, <2>4, <2>13 DEF j
<1> QED BY <1>1, <1>2

LEMMA UpFacts ==
  ASSUME NEW ht \in Heats, NEW h, NEW j, UpInv([h |-> h, j |-> j], h, ht)
  PROVE  LET g == Up(h, ht, j)
         IN  HeapOK(g) /\ SameVars(g, h) /\ Ordered(g, ht)
<1> DEFINE base == [h |-> h, j |-> j]
<1> DEFINE n == Len(h.vhp)
<1>1. n \in Nat /\ j \in 1 .. n
  BY DEF UpInv, HeapOK
<1>0. n = Len(h.vhp) /\ base = [h |-> h, j |-> j] /\ Up(h, ht, j) = Rounds(UpBody, base, ht, n).h
  BY DEF Up
<1> HIDE DEF base, n
<1>2. PICK f : UpRun!Steps(f, base, ht, n) /\ Rounds(UpBody, base, ht, n) = f[n]
  BY <1>1, UpRounds
<1>3. Up(h, ht, j) = f[n].h
  BY <1>0, <1>2
<1>4. f[0] = base
  BY <1>2 DEF UpRun!Steps
<1> DEFINE T == {k \in 0 .. n : UpInv(f[k], h, ht) /\ (UpDone(f[k], ht) \/ f[k].j + k <= n)}
<1>5. 0 \in T
  BY <1>0, <1>1, <1>4
<1>6. ASSUME NEW k \in 0 .. (n - 1), k \in T PROVE k + 1 \in T
  <2>1. f[k + 1] = UpBody(f[k], ht) /\ k + 1 \in 0 .. n /\ k \in Nat
    BY <1>1, <1>2 DEF UpRun!Steps
  <2>2. UpInv(f[k], h, ht)
    BY <1>6
  <2>3. /\ UpInv(f[k + 1], h, ht)
        /\ UpDone(f[k], ht) => f[k + 1] = f[k]
        /\ ~ UpDone(f[k], ht) => f[k + 1].j < f[k].j
    BY <2>1, <2>2, UpStep
  <2>4. f[k].j \in Nat /\ f[k + 1].j \in Nat
    BY <1>0, <1>1, <2>2, <2>3 DEF UpInv
  <2> QED BY <1>1, <1>6, <2>1, <2>3, <2>4
<1> HIDE DEF T
<1>7. n \in T
  BY <1>1, <1>5, <1>6, UpRun!Induct
<1>8. UpInv(f[n], h, ht) /\ UpDone(f[n], ht)
  <2>1. UpInv(f[n], h, ht) /\ (UpDone(f[n], ht) \/ f[n].j + n <= n)
    BY <1>7 DEF T
  <2>2. f[n].j \in 1 .. n
    BY <1>0, <2>1 DEF UpInv
  <2> QED BY <1>1, <2>1, <2>2
<1> DEFINE g == f[n].h
<1>9. HeapOK(g) /\ SameVars(g, h) /\ Len(g.vhp) = n
  BY <1>0, <1>8 DEF UpInv, SameVars
<1>10. ASSUME NEW k \in 2 .. n PROVE Above(g, ht, k)
  <2>1. CASE k # f[n].j
    BY <1>0, <2>1, <1>8 DEF UpInv
  <2>2. CASE k = f[n].j
    <3>1. k \div 2 # 0
      BY <1>1
    <3> QED BY <3>1, <2>2, <1>8 DEF UpDone, Above
  <2> QED BY <2>1, <2>2
<1> QED BY <1>3, <1>9, <1>10 DEF Ordered

-----------------------------------------------------------------------------
(* Down, in the first n: among the children of variables from lo on, only  *)
(* those of the variable at i may be hotter than it.  What is behind n     *)
(* stays where it is.                                                      *)
DownRun == INSTANCE FoldProofs WITH op <- DownBody

LEMMA DownRounds ==
  ASSUME NEW s, NEW par, NEW n \in Nat
  PROVE  \E f : DownRun!Steps(f, s, par, n) /\ Rounds(DownBody, s, par, n) = f[n]
<1> DEFINE f == CHOOSE f : DownRun!Iterates(f, s, par, n)
<1>1. DownRun!Iterates(f, s, par, n)
  BY DownRun!IterExists
<1>2. Rounds(DownBody, s, par, n) = f[n]
  BY DEF Rounds, DownRun!Iterates
<1> HIDE DEF f
<1>3. DownRun!Steps(f, s, par, n)
  BY <1>1, DownRun!IterSteps
<1> QED BY <1>2, <1>3

DownInv(s, h, ht, lo, n) ==
  /\ s = [h |-> s.h, i |-> s.i]
  /\ HeapOK(s.h) /\ SameVars(s.h, h) /\ s.i \in lo .. Len(h.vhp)
  /\ \A k \in 1 .. Len(h.vhp) : k > n => s.h.vhp[k] = h.vhp[k]
  /\ \A k \in 2 .. n : k \div 2 >= lo /\ k \div 2 # s.i => Above(s.h, ht, k)
  /\ \A k \in 2 .. n :
       k \div 2 = s.i /\ s.i \div 2 >= lo => ht[s.h.vhp[k]] <= ht[s.h.vhp[s.i \div 2]]

DownDone(s, par) ==
  \/ 2 * s.i > par.n
  \/ par.heat[s.h.vhp[Child(s.h, par.heat, s.i, par.n)]] <= par.heat[s.h.vhp[s.i]]

(* The child is the hotter one. *)
LEMMA ChildFacts ==
  ASSUME NEW ht \in Heats, NEW h, HeapOK(h), NEW n \in 0 .. Len(h.vhp),
         NEW i \in 1 .. Len(h.vhp), 2 * i <= n
  PROVE  LET j == Child(h, ht, i, n)
         IN  /\ j \in 2 .. n /\ j \div 2 = i
             /\ \A k \in 2 .. n : k \div 2 = i => ht[h.vhp[k]] <= ht[h.vhp[j]]
<1> DEFINE a == h.vhp
<1> DEFINE j == Child(h, ht, i, n)
<1>1. Len(a) \in Nat /\ \A k \in 1 .. Len(a) : ht[a[k]] \in Nat
  BY HeapTypes DEF Heats, HeapOK
<1>2. j = IF 2 * i < n /\ ht[a[2 * i]] <= ht[a[2 * i + 1]] THEN 2 * i + 1 ELSE 2 * i
  BY DEF Child
<1> HIDE DEF a, j
<1>3. n \in Nat /\ n <= Len(a) /\ i \in Nat /\ i >= 1 /\ 2 * i \in 1 .. Len(a)
  BY <1>1 DEF a
<1>4. j \in 2 .. n /\ j \div 2 = i
  BY <1>2, <1>3
<1>5. ASSUME NEW k \in 2 .. n, k \div 2 = i
      PROVE  ht[a[k]] <= ht[a[j]]
  <2>0. k = 2 * i \/ k = 2 * i + 1
    BY <1>3, <1>5
  <2>1. /\ k # 2 * i => k = 2 * i + 1 /\ 2 * i < n
        /\ k \in 1 .. Len(a) /\ j \in 1 .. Len(a)
    BY <1>1, <1>3, <1>4, <2>0
  <2>2. ht[a[k]] \in Nat /\ ht[a[j]] \in Nat /\ ht[a[2 * i]] \in Nat
    BY <1>1, <1>3, <2>1
  <2>3. 2 * i < n => ht[a[2 * i + 1]] \in Nat
    BY <1>1, <1>3
  <2> QED BY <1>2, <2>1, <2>2, <2>3
<1> QED BY <1>4, <1>5 DEF a, j

LEMMA DownStep ==
  ASSUME NEW ht \in Heats, NEW h, NEW lo \in Nat \ {0}, NEW n \in 0 .. Len(h.vhp),
         NEW s, DownInv(s, h, ht, lo, n)
  PROVE  LET par == [heat |-> ht, n |-> n]
             t == DownBody(s, par)
         IN  /\ DownInv(t, h, ht, lo, n)
             /\ DownDone(s, par) => t = s
             /\ ~ DownDone(s, par) => t.i > s.i
<1> DEFINE par == [heat |-> ht, n |-> n]
<1>1. CASE DownDone(s, par)
  BY <1>1 DEF DownDone, DownBody
<1>2. CASE ~ DownDone(s, par)
  <2> DEFINE i == s.i
  <2> DEFINE j == Child(s.h, ht, i, n)
  <2> DEFINE m == Len(h.vhp)
  <2> DEFINE a == s.h.vhp
  <2> DEFINE g == Swap(s.h, i, j)
  <2> DEFINE b == g.vhp
  <2>0. par.heat = ht /\ par.n = n
    OBVIOUS
  <2>1. m = Len(s.h.vhp) /\ m \in Nat /\ i \in 1 .. m /\ i >= lo /\ n \in 0 .. m
    BY DEF DownInv, SameVars, HeapOK
  <2>2. 2 * i <= n /\ ~ (ht[a[j]] <= ht[a[i]])
    BY <1>2, <2>0, <2>1 DEF DownDone
  <2>3. /\ j \in 2 .. n /\ j \div 2 = i
        /\ \A k \in 2 .. n : k \div 2 = i => ht[a[k]] <= ht[a[j]]
    BY <2>1, <2>2, ChildFacts DEF DownInv
  <2>4. DownBody(s, par) = [h |-> g, i |-> j]
    BY <1>2, <2>0 DEF DownBody, DownDone
  <2> HIDE DEF par
  <2>30. i < j /\ j \in 1 .. m
    <3> HIDE DEF i, j, m
    <3> QED BY <2>1, <2>3
  <2>5. /\ HeapOK(g) /\ SameVars(g, s.h) /\ b[i] = a[j] /\ b[j] = a[i]
        /\ \A k \in 1 .. m : k # i /\ k # j => b[k] = a[k]
    BY <2>1, <2>30, SwapFacts DEF DownInv
  <2>6. \A k \in 1 .. m : a[k] \in VarSet /\ ht[a[k]] \in Nat
    BY <2>1, HeapTypes DEF DownInv, Heats
  <2>7. ht[a[i]] < ht[a[j]]
    <3>1. i \in 1 .. m /\ ht[a[i]] \in Nat /\ ht[a[j]] \in Nat
      BY <2>1, <2>30, <2>6
    <3> HIDE DEF a, i, j
    <3> QED BY <2>2, <3>1
  <2>8. \A k \in 2 .. n : k \div 2 >= lo /\ k \div 2 # i => ht[a[k]] <= ht[a[k \div 2]]
    BY DEF DownInv, Above
  <2>9. \A k \in 2 .. n : k \div 2 = i /\ i \div 2 >= lo => ht[a[k]] <= ht[a[i \div 2]]
    BY DEF DownInv
  <2>10. \A k \in 1 .. m : k > n => a[k] = h.vhp[k]
    BY DEF DownInv
  <2> HIDE DEF a, b, i, j, g, m
  <2>11. ASSUME NEW k \in 2 .. n, k \div 2 >= lo, k \div 2 # j
         PROVE  ht[b[k]] <= ht[b[k \div 2]]
    <3>1. k \div 2 \in 1 .. m /\ k \div 2 < k /\ k \in 1 .. m /\ i \in 1 .. m /\ j \in 1 .. m
      BY <2>1, <2>30
    <3>2. CASE k \div 2 = i
      <4>1. k # i /\ b[k \div 2] = a[j] /\ ht[a[k]] <= ht[a[j]]
        BY <3>1, <3>2, <2>3, <2>5
      <4>2. CASE k = j
        BY <4>1, <4>2, <2>5, <2>6, <2>7, <3>1
      <4>3. CASE k # j
        BY <4>1, <4>3, <2>5, <3>1
      <4> QED BY <4>2, <4>3
    <3>3. CASE k = i
      <4>1. k \div 2 # i /\ i \div 2 >= lo
        BY <3>1, <3>3, <2>11
      <4>2. ht[a[j]] <= ht[a[i \div 2]]
        BY <2>3, <2>9, <4>1
      <4>3. b[k] = a[j] /\ b[k \div 2] = a[k \div 2]
        BY <3>1, <3>3, <4>1, <2>5, <2>11
      <4> QED BY <4>2, <4>3, <3>3
    <3>4. CASE k \div 2 # i /\ k # i
      <4>1. k # j
        BY <2>3, <3>4
      <4>2. b[k] = a[k] /\ b[k \div 2] = a[k \div 2]
        BY <3>1, <3>4, <4>1, <2>5, <2>11
      <4> QED BY <4>2, <3>4, <2>8, <2>11
    <3> QED BY <3>2, <3>3, <3>4
  <2>12. ASSUME NEW k \in 2 .. n, k \div 2 = j, j \div 2 >= lo
         PROVE  ht[b[k]] <= ht[b[j \div 2]]
    <3>1. k \in 1 .. m /\ j < k /\ i < k /\ j \div 2 = i /\ k \div 2 # i /\ j \in Nat /\ lo <= j
      BY <2>1, <2>30, <2>12, <2>3
    <3>2. b[k] = a[k] /\ b[i] = a[j] /\ ht[a[k]] <= ht[a[j]]
      BY <3>1, <2>5, <2>8, <2>12
    <3> QED BY <3>1, <3>2
  <2>13. \A k \in 1 .. m : k > n => b[k] = h.vhp[k]
    <3> SUFFICES ASSUME NEW k \in 1 .. m, k > n PROVE b[k] = h.vhp[k]
      OBVIOUS
    <3>1. k # i /\ k # j
      BY <2>1, <2>30, <2>3
    <3> QED BY <3>1, <2>5, <2>10
  <2>14. SameVars(g, h)
    BY <2>5 DEF DownInv, SameVars
  <2> DEFINE t == [h |-> g, i |-> j]
  <2>15. t = [h |-> t.h, i |-> t.i] /\ t.h = g /\ t.i = j /\ t.h.vhp = b
    BY DEF b
  <2>16. j \in lo .. m
    BY <2>1, <2>30
  <2>17. DownInv(t, h, ht, lo, n)
    <3> HIDE DEF t
    <3> QED BY <2>15, <2>16, <2>5, <2>11, <2>12, <2>13, <2>14 DEF DownInv, Above, m
  <2> QED BY <1>2, <2>30, <2>4, <2>17 DEF i, j, par, m
<1> QED BY <1>1, <1>2

(* Where Down ends. *)
LEMMA DownFacts ==
  ASSUME NEW ht \in Heats, NEW h, NEW lo \in Nat \ {0}, NEW n \in 0 .. Len(h.vhp),
         DownInv([h |-> h, i |-> lo], h, ht, lo, n)
  PROVE  LET g == Down(h, ht, lo, n)
         IN  /\ HeapOK(g) /\ SameVars(g, h)
             /\ \A k \in 1 .. Len(h.vhp) : k > n => g.vhp[k] = h.vhp[k]
             /\ \A k \in 2 .. n : k \div 2 >= lo => Above(g, ht, k)
<1> DEFINE base == [h |-> h, i |-> lo]
<1> DEFINE par == [heat |-> ht, n |-> n]
<1>1. n \in Nat /\ Len(h.vhp) \in Nat
  BY DEF DownInv, HeapOK
<1>0. /\ base = [h |-> h, i |-> lo] /\ par = [heat |-> ht, n |-> n] /\ base.i = lo /\ par.n = n
      /\ Down(h, ht, lo, n) = Rounds(DownBody, base, par, n).h
  BY DEF Down
<1> HIDE DEF base, par
<1>21. n \in Nat
  BY <1>1
<1>2. PICK f : DownRun!Steps(f, base, par, n) /\ Rounds(DownBody, base, par, n) = f[n]
  BY <1>21, DownRounds
<1>3. Down(h, ht, lo, n) = f[n].h
  BY <1>0, <1>2
<1>4. f[0] = base
  BY <1>2 DEF DownRun!Steps
<1> DEFINE T == {k \in 0 .. n : DownInv(f[k], h, ht, lo, n)
                                /\ (DownDone(f[k], par) \/ f[k].i > k)}
<1>5. 0 \in T
  BY <1>0, <1>1, <1>4
<1>6. ASSUME NEW k \in 0 .. (n - 1), k \in T PROVE k + 1 \in T
  <2>1. f[k + 1] = DownBody(f[k], par) /\ k + 1 \in 0 .. n /\ k \in Nat
    BY <1>1, <1>2 DEF DownRun!Steps
  <2>2. DownInv(f[k], h, ht, lo, n)
    BY <1>6
  <2>3. /\ DownInv(f[k + 1], h, ht, lo, n)
        /\ DownDone(f[k], par) => f[k + 1] = f[k]
        /\ ~ DownDone(f[k], par) => f[k + 1].i > f[k].i
    BY <2>1, <2>2, DownStep DEF par
  <2>4. f[k].i \in Nat /\ f[k + 1].i \in Nat
    BY <1>1, <2>2, <2>3 DEF DownInv
  <2> QED BY <1>1, <1>6, <2>1, <2>3, <2>4
<1> HIDE DEF T
<1>7. n \in T
  <2>1. \A k \in 0 .. (n - 1) : k \in T => k + 1 \in T
    BY <1>6
  <2>2. \A k \in 0 .. n : k \in T
    BY <1>21, <1>5, <2>1, DownRun!Induct, Zenon
  <2>3. n \in 0 .. n
    BY <1>21
  <2> QED BY <2>2, <2>3
<1>8. DownInv(f[n], h, ht, lo, n) /\ (DownDone(f[n], par) \/ f[n].i > n)
  BY <1>7 DEF T
<1> DEFINE g == f[n].h
<1> DEFINE i == f[n].i
<1>9. /\ HeapOK(g) /\ SameVars(g, h) /\ Len(g.vhp) = Len(h.vhp) /\ i \in lo .. Len(h.vhp)
      /\ \A k \in 1 .. Len(h.vhp) : k > n => g.vhp[k] = h.vhp[k]
      /\ \A k \in 2 .. n : k \div 2 >= lo /\ k \div 2 # i => Above(g, ht, k)
  BY <1>8 DEF DownInv, SameVars
<1>10. 2 * i <= n => par.heat = ht /\ ht[g.vhp[Child(g, ht, i, n)]] <= ht[g.vhp[i]]
  BY <1>0, <1>1, <1>8, <1>9 DEF DownDone
<1> HIDE DEF g, i
<1>11. ASSUME NEW k \in 2 .. n, k \div 2 = i PROVE Above(g, ht, k)
  <2>1. 2 * i <= n /\ i \in 1 .. Len(g.vhp) /\ n \in 0 .. Len(g.vhp) /\ k \in 1 .. Len(g.vhp)
    BY <1>1, <1>9, <1>11
  <2> DEFINE j == Child(g, ht, i, n)
  <2>2. j \in 2 .. n /\ ht[g.vhp[k]] <= ht[g.vhp[j]] /\ ht[g.vhp[j]] <= ht[g.vhp[i]]
    BY <1>9, <1>10, <1>11, <2>1, ChildFacts
  <2>3. ht[g.vhp[k]] \in Nat /\ ht[g.vhp[j]] \in Nat /\ ht[g.vhp[i]] \in Nat
    <3>1. j \in 1 .. Len(g.vhp)
      BY <2>1, <2>2
    <3> HIDE DEF j
    <3> QED BY <1>9, <2>1, <3>1, HeapTypes DEF Heats
  <2> HIDE DEF j
  <2> QED BY <1>11, <2>2, <2>3 DEF Above
<1> QED BY <1>3, <1>9, <1>11 DEF g, i

-----------------------------------------------------------------------------
(* Heapify: the children of the variables behind i are in order.           *)
HeapifyRun == INSTANCE FoldProofs WITH op <- HeapifyBody

LEMMA HeapifyRounds ==
  ASSUME NEW s, NEW par, NEW n \in Nat
  PROVE  \E f : HeapifyRun!Steps(f, s, par, n) /\ Rounds(HeapifyBody, s, par, n) = f[n]
<1> DEFINE f == CHOOSE f : HeapifyRun!Iterates(f, s, par, n)
<1>1. HeapifyRun!Iterates(f, s, par, n)
  BY HeapifyRun!IterExists
<1>2. Rounds(HeapifyBody, s, par, n) = f[n]
  BY DEF Rounds, HeapifyRun!Iterates
<1> HIDE DEF f
<1>3. HeapifyRun!Steps(f, s, par, n)
  BY <1>1, HeapifyRun!IterSteps
<1> QED BY <1>2, <1>3

HeapifyInv(s, h, ht) ==
  /\ s = [h |-> s.h, i |-> s.i]
  /\ HeapOK(s.h) /\ SameVars(s.h, h) /\ s.i \in Nat /\ 2 * s.i <= Len(h.vhp)
  /\ \A k \in 2 .. Len(h.vhp) : k \div 2 > s.i => Above(s.h, ht, k)

LEMMA HeapifyStep ==
  ASSUME NEW ht \in Heats, NEW h, NEW s, HeapifyInv(s, h, ht)
  PROVE  LET t == HeapifyBody(s, ht)
         IN  /\ HeapifyInv(t, h, ht)
             /\ s.i = 0 => t = s
             /\ s.i # 0 => t.i = s.i - 1
<1>1. CASE s.i = 0
  BY <1>1 DEF HeapifyBody
<1>2. CASE s.i # 0
  <2> DEFINE n == Len(h.vhp)
  <2> DEFINE i == s.i
  <2> DEFINE g == Down(s.h, ht, i, n)
  <2>1. /\ n = Len(s.h.vhp) /\ n \in Nat /\ i \in 1 .. n /\ i \in Nat \ {0}
        /\ 2 * i <= n /\ n \in 0 .. Len(s.h.vhp)
    <3>1. n = Len(s.h.vhp) /\ n \in Nat /\ i \in Nat /\ 2 * i <= n /\ i # 0
      BY <1>2 DEF HeapifyInv, SameVars, HeapOK
    <3> HIDE DEF n, i
    <3> QED BY <3>1
  <2>2. HeapifyBody(s, ht) = [h |-> g, i |-> i - 1]
    BY <1>2, <2>1 DEF HeapifyBody
  <2>3. DownInv([h |-> s.h, i |-> i], s.h, ht, i, n)
    <3> DEFINE d == [h |-> s.h, i |-> i]
    <3>1. d = [h |-> d.h, i |-> d.i] /\ d.h = s.h /\ d.i = i
      OBVIOUS
    <3>2. HeapOK(s.h) /\ SameVars(s.h, s.h)
      BY DEF HeapifyInv, SameVars
    <3>3. \A k \in 2 .. n : k \div 2 > i => Above(s.h, ht, k)
      BY DEF HeapifyInv
    <3> HIDE DEF d, n, i
    <3>4. \A k \in 2 .. n : k \div 2 >= i /\ k \div 2 # i => Above(s.h, ht, k)
      BY <2>1, <3>3
    <3>5. ~ (i \div 2 >= i) /\ i \in i .. n
      BY <2>1
    <3>6. DownInv(d, s.h, ht, i, n)
      BY <2>1, <3>1, <3>2, <3>4, <3>5 DEF DownInv
    <3> QED BY <3>6 DEF d
  <2> HIDE DEF n, i
  <2>4. /\ HeapOK(g) /\ SameVars(g, s.h)
        /\ \A k \in 2 .. n : k \div 2 >= i => Above(g, ht, k)
    BY <2>1, <2>3, DownFacts
  <2> HIDE DEF g
  <2> DEFINE t == [h |-> g, i |-> i - 1]
  <2>5. t = [h |-> t.h, i |-> t.i] /\ t.h = g /\ t.i = i - 1
    OBVIOUS
  <2>6. SameVars(g, h)
    BY <2>4 DEF HeapifyInv, SameVars
  <2>7. /\ i - 1 \in Nat /\ 2 * (i - 1) <= n
        /\ \A k \in 2 .. n : k \div 2 > i - 1 => k \div 2 >= i
    BY <2>1
  <2> HIDE DEF t
  <2>8. HeapifyInv(t, h, ht)
    BY <2>4, <2>5, <2>6, <2>7 DEF HeapifyInv, n
  <2> QED BY <1>2, <2>2, <2>5, <2>8 DEF i, t
<1> QED BY <1>1, <1>2

LEMMA HalfFacts ==
  ASSUME NEW n \in Nat
  PROVE  /\ n \div 2 \in Nat /\ 2 * (n \div 2) <= n /\ n \div 2 <= n
         /\ \A k \in 2 .. n : k \div 2 <= n \div 2 /\ k \div 2 \in Nat
OBVIOUS

LEMMA HeapifyFacts ==
  ASSUME NEW ht \in Heats, NEW h, HeapOK(h)
  PROVE  LET g == Heapify(h, ht)
         IN  HeapOK(g) /\ SameVars(g, h) /\ Ordered(g, ht)
<1> DEFINE n == Len(h.vhp)
<1> DEFINE base == [h |-> h, i |-> n \div 2]
<1>1. n \in Nat
  BY DEF HeapOK
<1>0. /\ n = Len(h.vhp) /\ base.h = h /\ base.i = n \div 2 /\ base = [h |-> base.h, i |-> base.i]
      /\ Heapify(h, ht) = Rounds(HeapifyBody, base, ht, n).h
  BY DEF Heapify
<1> HIDE DEF base, n
<1>2. PICK f : HeapifyRun!Steps(f, base, ht, n) /\ Rounds(HeapifyBody, base, ht, n) = f[n]
  BY <1>1, HeapifyRounds
<1> DEFINE T == {k \in 0 .. n : HeapifyInv(f[k], h, ht) /\ (f[k].i = 0 \/ f[k].i + k <= n)}
<1>5. 0 \in T
  <2>1. f[0] = base
    BY <1>2 DEF HeapifyRun!Steps
  <2>2. /\ base.i \in Nat /\ 2 * base.i <= n /\ base.i <= n
        /\ \A k \in 2 .. n : ~ (k \div 2 > base.i)
    <3> DEFINE m == n \div 2
    <3>1. /\ m \in Nat /\ 2 * m <= n /\ m <= n
          /\ \A k \in 2 .. n : k \div 2 <= m /\ k \div 2 \in Nat
      BY <1>1, HalfFacts
    <3>2. base.i = m
      BY <1>0
    <3> HIDE DEF m
    <3> QED BY <3>1, <3>2
  <2>3. HeapifyInv(base, h, ht)
    BY <1>0, <2>2 DEF HeapifyInv, SameVars
  <2> QED BY <1>1, <2>1, <2>2, <2>3
<1>6. ASSUME NEW k \in 0 .. (n - 1), k \in T PROVE k + 1 \in T
  <2>1. f[k + 1] = HeapifyBody(f[k], ht) /\ k + 1 \in 0 .. n /\ k \in Nat
    BY <1>1, <1>2 DEF HeapifyRun!Steps
  <2>2. HeapifyInv(f[k], h, ht)
    BY <1>6
  <2>3. /\ HeapifyInv(f[k + 1], h, ht)
        /\ f[k].i = 0 => f[k + 1] = f[k]
        /\ f[k].i # 0 => f[k + 1].i = f[k].i - 1
    BY <2>1, <2>2, HeapifyStep
  <2>4. f[k].i \in Nat /\ f[k + 1].i \in Nat
    BY <1>0, <1>1, <2>2, <2>3 DEF HeapifyInv
  <2> QED BY <1>1, <1>6, <2>1, <2>3, <2>4
<1> HIDE DEF T
<1>7. n \in T
  BY <1>1, <1>5, <1>6, HeapifyRun!Induct
<1>8. HeapifyInv(f[n], h, ht) /\ f[n].i = 0
  <2>1. HeapifyInv(f[n], h, ht) /\ (f[n].i = 0 \/ f[n].i + n <= n)
    BY <1>7 DEF T
  <2>2. f[n].i \in Nat
    BY <1>0, <2>1 DEF HeapifyInv
  <2> QED BY <1>1, <2>1, <2>2
<1>9. \A k \in 2 .. n : k \div 2 > 0
  BY <1>1
<1> QED BY <1>0, <1>2, <1>8, <1>9 DEF HeapifyInv, Ordered, SameVars

-----------------------------------------------------------------------------
(* Pop takes the first variable out. *)
LEMMA PopFacts ==
  ASSUME NEW ht \in Heats, NEW h, HeapOK(h), Ordered(h, ht), h.vhp # <<>>
  PROVE  LET g == Pop(h, ht)
         IN  /\ HeapOK(g) /\ Ordered(g, ht)
             /\ h.vhp[1] \in VarSet /\ Has(g) = Has(h) \ {h.vhp[1]}
<1> DEFINE n == Len(h.vhp)
<1> DEFINE e == Swap(h, 1, n)
<1> DEFINE d == Down(e, ht, 1, n - 1)
<1> DEFINE g == Pop(h, ht)
<1>1. n \in Nat \ {0} /\ 1 \in 1 .. n /\ n \in 1 .. n
  BY DEF HeapOK
<1>2. /\ HeapOK(e) /\ SameVars(e, h) /\ e.vhp[1] = h.vhp[n] /\ e.vhp[n] = h.vhp[1]
      /\ \A k \in 1 .. n : k # 1 /\ k # n => e.vhp[k] = h.vhp[k]
  BY <1>1, SwapFacts
<1>3. g = [vhp |-> SubSeq(d.vhp, 1, n - 1), pos |-> [d.pos EXCEPT ![d.vhp[n]] = 0]]
  BY DEF Pop
<1>4. h.vhp[1] \in VarSet
  BY <1>1, HeapTypes
<1> HIDE DEF e
<1>5. Len(e.vhp) = n /\ n - 1 \in 0 .. Len(e.vhp) /\ 1 \in Nat \ {0} /\ n - 1 \in Nat
  BY <1>1, <1>2 DEF SameVars
<1>6. DownInv([h |-> e, i |-> 1], e, ht, 1, n - 1)
  <2> DEFINE s == [h |-> e, i |-> 1]
  <2>1. s = [h |-> s.h, i |-> s.i] /\ s.h = e /\ s.i = 1
    OBVIOUS
  <2>2. ASSUME NEW k \in 2 .. (n - 1), k \div 2 >= 1, k \div 2 # 1
        PROVE  Above(e, ht, k)
    <3>1. /\ k \in 2 .. n /\ k \in 1 .. n /\ k # 1 /\ k # n
          /\ k \div 2 \in 1 .. n /\ k \div 2 # n
      BY <1>1, <2>2
    <3>2. e.vhp[k] = h.vhp[k] /\ e.vhp[k \div 2] = h.vhp[k \div 2]
      BY <1>2, <2>2, <3>1
    <3> QED BY <3>1, <3>2 DEF Above, Ordered
  <2>3. ~ (1 \div 2 >= 1) /\ 1 \in 1 .. Len(e.vhp)
    BY <1>1, <1>5
  <2>4. SameVars(e, e)
    BY DEF SameVars
  <2> HIDE DEF s
  <2>5. DownInv(s, e, ht, 1, n - 1)
    BY <1>2, <2>1, <2>2, <2>3, <2>4 DEF DownInv
  <2> QED BY <2>5 DEF s
<1>7. /\ HeapOK(d) /\ SameVars(d, e)
      /\ \A k \in 1 .. Len(e.vhp) : k > n - 1 => d.vhp[k] = e.vhp[k]
      /\ \A k \in 2 .. (n - 1) : k \div 2 >= 1 => Above(d, ht, k)
  BY <1>5, <1>6, DownFacts
<1> HIDE DEF d, g, n
<1>8. d.vhp[n] = h.vhp[1] /\ Len(d.vhp) = n /\ d.vhp \in Seq(VarSet) /\ d.pos \in [VarSet -> Nat]
  <2>1. Len(d.vhp) = n /\ d.vhp \in Seq(VarSet) /\ d.pos \in [VarSet -> Nat]
    BY <1>5, <1>7 DEF SameVars, HeapOK
  <2>2. d.vhp[n] = e.vhp[n]
    BY <1>1, <1>5, <1>7
  <2> QED BY <1>2, <2>1, <2>2
<1>9. /\ g.vhp \in Seq(VarSet) /\ Len(g.vhp) = n - 1
      /\ \A k \in 1 .. (n - 1) : g.vhp[k] = d.vhp[k]
  <2>1. g.vhp = SubSeq(d.vhp, 1, n - 1)
    BY <1>3
  <2> QED BY <1>1, <1>8, <2>1
<1>10. /\ g.pos \in [VarSet -> Nat] /\ g.pos[h.vhp[1]] = 0
       /\ \A v \in VarSet : v # h.vhp[1] => g.pos[v] = d.pos[v]
  <2>1. g.pos = [d.pos EXCEPT ![h.vhp[1]] = 0]
    BY <1>3, <1>8
  <2> QED BY <1>4, <1>8, <2>1
<1>11. g = [vhp |-> g.vhp, pos |-> g.pos]
  BY <1>3
<1>12. \A k \in 1 .. (n - 1) : g.pos[g.vhp[k]] = k
  <2> SUFFICES ASSUME NEW k \in 1 .. (n - 1) PROVE g.pos[g.vhp[k]] = k
    OBVIOUS
  <2>1. k \in 1 .. n /\ k # n
    BY <1>1
  <2>2. d.vhp[k] \in VarSet /\ d.vhp[k] # d.vhp[n] /\ d.pos[d.vhp[k]] = k
    BY <1>1, <1>7, <1>8, <2>1, HeapTypes DEF HeapOK
  <2> QED BY <1>8, <1>9, <1>10, <2>2
<1>13. ASSUME NEW v \in VarSet, g.pos[v] # 0
       PROVE  g.pos[v] \in 1 .. (n - 1) /\ g.vhp[g.pos[v]] = v
  <2>1. v # h.vhp[1] /\ d.pos[v] # 0 /\ g.pos[v] = d.pos[v]
    BY <1>10, <1>13
  <2>2. d.pos[v] \in 1 .. n /\ d.vhp[d.pos[v]] = v
    BY <1>7, <1>8, <2>1 DEF HeapOK
  <2>3. d.pos[v] # n
    BY <1>8, <2>1, <2>2
  <2>4. d.pos[v] \in 1 .. (n - 1)
    BY <1>1, <2>2, <2>3
  <2> QED BY <1>9, <2>1, <2>2, <2>4
<1>14. HeapOK(g)
  BY <1>9, <1>10, <1>11, <1>12, <1>13 DEF HeapOK
<1>15. Ordered(g, ht)
  <2> SUFFICES ASSUME NEW k \in 2 .. (n - 1) PROVE Above(g, ht, k)
    BY <1>9 DEF Ordered
  <2>1. k \div 2 >= 1 /\ k \div 2 \in 1 .. (n - 1) /\ k \in 1 .. (n - 1)
    BY <1>1
  <2> QED BY <1>7, <1>9, <2>1 DEF Above
<1>16. Has(g) = Has(h) \ {h.vhp[1]}
  <2>1. Has(d) = Has(h)
    BY <1>2, <1>7 DEF SameVars
  <2> QED BY <1>10, <2>1 DEF Has
<1> QED BY <1>4, <1>14, <1>15, <1>16 DEF g

-----------------------------------------------------------------------------
(* Guess: free variables stay in the heap, up to the one which is guessed. *)
PopRun == INSTANCE FoldProofs WITH op <- PopBody

LEMMA PopRounds ==
  ASSUME NEW s, NEW par, NEW n \in Nat
  PROVE  \E f : PopRun!Steps(f, s, par, n) /\ Rounds(PopBody, s, par, n) = f[n]
<1> DEFINE f == CHOOSE f : PopRun!Iterates(f, s, par, n)
<1>1. PopRun!Iterates(f, s, par, n)
  BY PopRun!IterExists
<1>2. Rounds(PopBody, s, par, n) = f[n]
  BY DEF Rounds, PopRun!Iterates
<1> HIDE DEF f
<1>3. PopRun!Steps(f, s, par, n)
  BY <1>1, PopRun!IterSteps
<1> QED BY <1>2, <1>3

PopInv(s) ==
  /\ HeapOK(s.h) /\ Ordered(s.h, heat) /\ Has(s.h) \subseteq Has(Hp)
  /\ s.v \in Has(Hp) \cup {0}
  /\ \A v \in Has(Hp) : Assigned(v) \/ v \in Has(s.h) \/ v = s.v

LEMMA PopStep ==
  ASSUME heat \in Heats, NEW s, PopInv(s)
  PROVE  PopInv(PopBody(s, heat))
<1>1. CASE s.h.vhp = <<>> \/ s.v # 0
  BY <1>1 DEF PopBody
<1>2. CASE s.h.vhp # <<>> /\ s.v = 0
  <2> DEFINE u == s.h.vhp[1]
  <2> DEFINE g == Pop(s.h, heat)
  <2> DEFINE t == PopBody(s, heat)
  <2>1. t.h = g /\ t.v = IF Assigned(u) THEN 0 ELSE u
    BY <1>2 DEF PopBody
  <2>2. HeapOK(g) /\ Ordered(g, heat) /\ u \in VarSet /\ Has(g) = Has(s.h) \ {u}
    BY <1>2, PopFacts DEF PopInv
  <2>3. u \in Has(s.h)
    <3>1. 1 \in 1 .. Len(s.h.vhp) /\ s.h.pos[u] = 1
      BY <1>2 DEF PopInv, HeapOK
    <3> QED BY <2>2, <3>1 DEF Has
  <2> HIDE DEF g, t, u
  <2>4. u \in Has(Hp)
    BY <2>3 DEF PopInv
  <2>5. t.v \in Has(Hp) \cup {0}
    BY <2>1, <2>4
  <2>6. ASSUME NEW v \in Has(Hp)
        PROVE  Assigned(v) \/ v \in Has(t.h) \/ v = t.v
    <3>1. Assigned(v) \/ v \in Has(s.h) \/ v = 0
      BY <1>2 DEF PopInv
    <3>2. v # 0
      BY DEF Has, VarSet
    <3> QED BY <2>1, <2>2, <3>1, <3>2
  <2>7. Has(t.h) \subseteq Has(Hp)
    BY <2>1, <2>2 DEF PopInv
  <2>8. PopInv(t)
    BY <2>1, <2>2, <2>5, <2>6, <2>7 DEF PopInv
  <2> QED BY <2>8 DEF t
<1> QED BY <1>1, <1>2

LEMMA PopFreeFacts ==
  ASSUME heat \in Heats, HeapOK(Hp), Ordered(Hp, heat)
  PROVE  PopInv(PopFree)
<1> DEFINE n == Len(vhp)
<1> DEFINE base == [h |-> Hp, v |-> 0]
<1>0. base.h = Hp /\ base.v = 0 /\ PopFree = Rounds(PopBody, base, heat, n)
  BY DEF PopFree
<1>1. n \in Nat
  BY DEF HeapOK, Hp
<1> HIDE DEF n, base
<1>2. PICK f : PopRun!Steps(f, base, heat, n) /\ Rounds(PopBody, base, heat, n) = f[n]
  BY <1>1, PopRounds
<1> DEFINE T == {k \in 0 .. n : PopInv(f[k])}
<1>3. 0 \in T
  <2>1. f[0] = base
    BY <1>2 DEF PopRun!Steps
  <2> QED BY <1>0, <1>1, <2>1 DEF PopInv
<1>4. ASSUME NEW k \in 0 .. (n - 1), k \in T PROVE k + 1 \in T
  <2>1. f[k + 1] = PopBody(f[k], heat) /\ k + 1 \in 0 .. n
    BY <1>1, <1>2 DEF PopRun!Steps
  <2> QED BY <1>4, <2>1, PopStep
<1> HIDE DEF T
<1>5. n \in T
  BY <1>1, <1>3, <1>4, PopRun!Induct
<1> QED BY <1>0, <1>2, <1>5 DEF T

-----------------------------------------------------------------------------
(***************************************************************************)
(* The invariant.  The heap holds variables up to top only, since what     *)
(* growToVar puts behind must not be there already.                        *)
(***************************************************************************)
GuessInv ==
  /\ HeapOK(Hp) /\ Ordered(Hp, heat)
  /\ heat \in Heats /\ bumpInc \in Nat /\ top \in 0 .. NVars /\ max \in 0 .. top
  /\ asg \subseteq LitSet /\ \A m \in asg : Var(m) <= top
  /\ \A v \in VarSet : v > top => pos[v] = 0
  /\ \A v \in 1 .. max : Assigned(v) \/ pos[v] # 0

LEMMA VarOfLit ==
  ASSUME NEW m \in LitSet
  PROVE  Var(m) \in VarSet /\ m \in {Pos(Var(m)), Not(Pos(Var(m)))}
BY NVarsAssumption DEF LitSet, VarSet, Var, Pos, Not

LEMMA LitsOfVar ==
  ASSUME NEW v \in VarSet
  PROVE  /\ Pos(v) \in LitSet /\ Not(Pos(v)) \in LitSet
         /\ Var(Pos(v)) = v /\ Var(Not(Pos(v))) = v
BY NVarsAssumption DEF LitSet, VarSet, Var, Pos, Not

LEMMA InvImpliesSound == GuessInv => HeapSound
<1> SUFFICES ASSUME GuessInv PROVE HeapSound
  OBVIOUS
<1>1. Hp.vhp = vhp /\ Hp.pos = pos
  BY DEF Hp
<1>2. DOMAIN vhp = 1 .. Len(vhp)
  BY <1>1 DEF GuessInv, HeapOK
<1> QED BY <1>1, <1>2 DEF GuessInv, HeapOK, Ordered, Above, HeapSound

(* The heap when it is made. *)
LEMMA InitInv == GuessInit => GuessInv
<1> SUFFICES ASSUME GuessInit PROVE GuessInv
  OBVIOUS
<1>1. top \in 0 .. NVars /\ max \in 0 .. top /\ max \in 0 .. NVars /\ bumpInc \in Nat /\ asg = {}
  BY NVarsAssumption DEF GuessInit, VarSet
<1>2. heat \in Heats
  <2>1. ASSUME NEW v \in VarSet
        PROVE  Cardinality(Occurrences(Pos(v)) \cup Occurrences(Not(Pos(v)))) \in Nat
    <3> DEFINE X == Shorts \X VarSet
    <3>1. IsFiniteSet(Shorts)
      BY GuessAssumption, FS_Subset DEF Shorts
    <3>2. IsFiniteSet(VarSet)
      BY NVarsAssumption, FS_Interval DEF VarSet
    <3>3. IsFiniteSet(X)
      BY <3>1, <3>2, FS_Product
    <3>4. Occurrences(Pos(v)) \cup Occurrences(Not(Pos(v))) \subseteq X
      BY DEF Occurrences
    <3> HIDE DEF X
    <3>5. IsFiniteSet(Occurrences(Pos(v)) \cup Occurrences(Not(Pos(v))))
      BY <3>3, <3>4, FS_Subset
    <3> QED BY <3>5, FS_CardinalityType
  <2> QED BY <2>1 DEF GuessInit, Heats
<1> DEFINE h == [vhp |-> [i \in 1 .. max |-> i], pos |-> [v \in VarSet |-> IF v > max THEN 0 ELSE v]]
<1>3. h.vhp = [i \in 1 .. max |-> i] /\ h.pos = [v \in VarSet |-> IF v > max THEN 0 ELSE v]
      /\ h = [vhp |-> h.vhp, pos |-> h.pos]
  OBVIOUS
<1>4. vhp = Heapify(h, heat).vhp /\ pos = Heapify(h, heat).pos
  BY DEF GuessInit
<1> HIDE DEF h
<1>5. HeapOK(h) /\ Has(h) = 1 .. max
  <2>1. h.vhp \in Seq(VarSet) /\ Len(h.vhp) = max
    <3>1. max \in Nat /\ h.vhp \in [1 .. max -> VarSet]
      BY <1>1, <1>3, NVarsAssumption DEF VarSet
    <3> QED BY <3>1
  <2>2. h.pos \in [VarSet -> Nat] /\ \A v \in VarSet : h.pos[v] = IF v > max THEN 0 ELSE v
    BY <1>1, <1>3 DEF VarSet
  <2>3. \A i \in 1 .. max : h.vhp[i] = i /\ i \in VarSet /\ ~ (i > max) /\ i # 0
    BY <1>1, <1>3, NVarsAssumption DEF VarSet
  <2>4. \A v \in VarSet : ~ (v > max) => v \in 1 .. max
    BY <1>1 DEF VarSet
  <2>5. HeapOK(h)
    BY <1>3, <2>1, <2>2, <2>3, <2>4 DEF HeapOK
  <2>6. Has(h) = 1 .. max
    BY <2>2, <2>3, <2>4 DEF Has
  <2> QED BY <2>5, <2>6
<1>6. HeapOK(Heapify(h, heat)) /\ SameVars(Heapify(h, heat), h) /\ Ordered(Heapify(h, heat), heat)
  BY <1>2, <1>5, HeapifyFacts
<1>7. Hp = Heapify(h, heat)
  BY <1>4, <1>6 DEF HeapOK, Hp
<1>8. Has(Hp) = 1 .. max /\ Hp.pos = pos
  BY <1>5, <1>6, <1>7 DEF SameVars, Hp
<1>9. \A v \in VarSet : pos[v] # 0 <=> v \in 1 .. max
  BY <1>8 DEF Has
<1>10. /\ \A v \in VarSet : v > top => pos[v] = 0
       /\ \A v \in 1 .. max : pos[v] # 0
  BY <1>1, <1>9, NVarsAssumption DEF VarSet
<1> QED BY <1>1, <1>2, <1>6, <1>7, <1>10 DEF GuessInv

LEMMA GuessKeeps == GuessInv /\ GuessGuess => GuessInv'
<1> SUFFICES ASSUME GuessInv, GuessGuess PROVE GuessInv'
  OBVIOUS
<1> DEFINE r == PopFree
<1>1. PopInv(r)
  BY PopFreeFacts DEF GuessInv
<1>2. /\ vhp' = r.h.vhp /\ pos' = r.h.pos
      /\ asg' = IF r.v = 0 THEN asg
                ELSE asg \cup {IF cache[r.v] = -1 THEN Not(Pos(r.v)) ELSE Pos(r.v)}
      /\ heat' = heat /\ bumpInc' = bumpInc /\ top' = top /\ max' = max
  BY DEF GuessGuess, SetHeap
<1> HIDE DEF r
<1>3. Hp' = r.h
  BY <1>1, <1>2 DEF PopInv, HeapOK, Hp
<1>4. HeapOK(Hp)' /\ Ordered(Hp, heat)'
  BY <1>1, <1>2, <1>3 DEF PopInv, HeapOK, Ordered, Above
<1>5. \A v \in VarSet : pos[v] # 0 <=> v \in Has(Hp)
  BY DEF Has, Hp
<1>6. \A v \in VarSet : pos'[v] # 0 <=> v \in Has(r.h)
  BY <1>2 DEF Has
<1>7. \A v \in VarSet : v > top => pos'[v] = 0
  BY <1>1, <1>5, <1>6 DEF GuessInv, PopInv
<1>8. r.v # 0 => r.v \in VarSet /\ r.v <= top
  BY <1>1, <1>5 DEF PopInv, GuessInv, Has, VarSet
<1>9. asg' \subseteq LitSet /\ (\A m \in asg' : Var(m) <= top) /\ asg \subseteq asg'
  BY <1>2, <1>8, LitsOfVar DEF GuessInv
<1>10. r.v # 0 => Pos(r.v) \in asg' \/ Not(Pos(r.v)) \in asg'
  BY <1>2
<1>11. ASSUME NEW v \in 1 .. max, ~ Assigned(v)' PROVE pos'[v] # 0
  <2>1. v \in VarSet /\ v # 0
    BY NVarsAssumption DEF GuessInv, VarSet
  <2>2. ~ Assigned(v) /\ v # r.v
    BY <1>9, <1>10, <1>11, <2>1 DEF Assigned
  <2>3. v \in Has(Hp)
    BY <1>5, <2>1, <2>2 DEF GuessInv
  <2> QED BY <1>1, <1>6, <2>1, <2>2, <2>3 DEF PopInv
<1> QED BY <1>2, <1>4, <1>7, <1>9, <1>11 DEF GuessInv

LEMMA PropagateKeeps == ASSUME NEW m \in LitSet PROVE GuessInv /\ Propagate(m) => GuessInv'
<1> SUFFICES ASSUME GuessInv, Propagate(m) PROVE GuessInv'
  OBVIOUS
<1>1. /\ Var(m) <= max /\ asg' = asg \cup {m} /\ Hp' = Hp /\ pos' = pos
      /\ heat' = heat /\ bumpInc' = bumpInc /\ top' = top /\ max' = max
  BY DEF Propagate, Hp
<1>2. \A v \in 1 .. max : Assigned(v) => Assigned(v)'
  BY <1>1 DEF Assigned
<1>0. Var(m) <= top
  BY <1>1, VarOfLit DEF GuessInv, VarSet
<1>3. HeapOK(Hp)' /\ Ordered(Hp, heat)'
  BY <1>1 DEF GuessInv, HeapOK, Ordered, Above
<1> QED BY <1>0, <1>1, <1>2, <1>3 DEF GuessInv

(* Pushing a variable puts it into the heap, up to its place. *)
LEMMA WithVarFacts ==
  ASSUME NEW h, NEW ht \in Heats, NEW v \in VarSet, HeapOK(h), Ordered(h, ht)
  PROVE  LET g == WithVar(h, ht, v)
         IN  HeapOK(g) /\ Ordered(g, ht) /\ Has(g) = Has(h) \cup {v}
<1>1. CASE h.pos[v] # 0
  BY <1>1 DEF WithVar, Has
<1>2. CASE h.pos[v] = 0
  <2> DEFINE n == Len(h.vhp)
  <2> DEFINE b == Behind(h, v)
  <2> DEFINE g == Up(b, ht, n + 1)
  <2>1. WithVar(h, ht, v) = g
    BY <1>2 DEF WithVar
  <2>3. /\ h.vhp \in Seq(VarSet) /\ h.pos \in [VarSet -> Nat] /\ n \in Nat
        /\ \A i \in 1 .. n : h.vhp[i] \in VarSet /\ h.pos[h.vhp[i]] = i
        /\ \A u \in VarSet : h.pos[u] # 0 => h.pos[u] \in 1 .. n /\ h.vhp[h.pos[u]] = u
    BY DEF HeapOK
  <2>4. /\ b = [vhp |-> b.vhp, pos |-> b.pos]
        /\ b.vhp = Append(h.vhp, v) /\ b.pos = [h.pos EXCEPT ![v] = n + 1]
    BY DEF Behind
  <2> HIDE DEF b, n, g
  <2>5. /\ b.vhp \in Seq(VarSet) /\ Len(b.vhp) = n + 1 /\ b.vhp[n + 1] = v
        /\ \A i \in 1 .. n : b.vhp[i] = h.vhp[i]
    BY <2>3, <2>4 DEF n
  <2>6. /\ b.pos \in [VarSet -> Nat] /\ b.pos[v] = n + 1
        /\ \A u \in VarSet : u # v => b.pos[u] = h.pos[u]
    BY <2>3, <2>4
  <2>7. ASSUME NEW i \in 1 .. (n + 1) PROVE b.pos[b.vhp[i]] = i
    <3>1. CASE i = n + 1
      BY <3>1, <2>5, <2>6
    <3>2. CASE i # n + 1
      <4>1. i \in 1 .. n /\ i # 0
        BY <2>3, <3>2
      <4>2. h.vhp[i] # v
        BY <1>2, <2>3, <4>1
      <4> QED BY <2>3, <2>5, <2>6, <4>1, <4>2
    <3> QED BY <3>1, <3>2
  <2>8. ASSUME NEW u \in VarSet, b.pos[u] # 0
        PROVE  b.pos[u] \in 1 .. (n + 1) /\ b.vhp[b.pos[u]] = u
    <3>1. CASE u = v
      BY <3>1, <2>3, <2>5, <2>6
    <3>2. CASE u # v
      <4>1. b.pos[u] = h.pos[u] /\ h.pos[u] \in 1 .. n /\ h.vhp[h.pos[u]] = u
        BY <2>3, <2>6, <2>8, <3>2
      <4> DEFINE k == h.pos[u]
      <4>2. k \in 1 .. n /\ h.vhp[k] = u /\ b.pos[u] = k
        BY <4>1
      <4> HIDE DEF k
      <4>3. k \in 1 .. (n + 1)
        BY <2>3, <4>2
      <4>4. b.vhp[k] = u
        BY <2>5, <4>2
      <4> QED BY <4>2, <4>3, <4>4
    <3> QED BY <3>1, <3>2
  <2>9. HeapOK(b) /\ Has(b) = Has(h) \cup {v}
    <3>1. HeapOK(b)
      BY <2>4, <2>5, <2>6, <2>7, <2>8 DEF HeapOK
    <3>2. n + 1 # 0
      BY <2>3
    <3>3. Has(b) = Has(h) \cup {v}
      BY <2>6, <3>2 DEF Has
    <3> QED BY <3>1, <3>3
  <2>10. UpInv([h |-> b, j |-> n + 1], b, ht)
    <3> DEFINE s == [h |-> b, j |-> n + 1]
    <3>1. s = [h |-> s.h, j |-> s.j] /\ s.h = b /\ s.j = n + 1
      OBVIOUS
    <3>2. ASSUME NEW k \in 2 .. (n + 1), k # n + 1 PROVE Above(b, ht, k)
      <4>1. k \in 2 .. n /\ k \in 1 .. n /\ k \div 2 \in 1 .. n
        BY <2>3, <3>2
      <4>2. Above(h, ht, k)
        BY <4>1 DEF Ordered, n
      <4> QED BY <2>5, <4>1, <4>2 DEF Above
    <3>3. \A k \in 2 .. (n + 1) : k \div 2 # n + 1
      BY <2>3
    <3>4. SameVars(b, b) /\ n + 1 \in 1 .. (n + 1)
      BY <2>3 DEF SameVars
    <3> HIDE DEF s
    <3>5. UpInv(s, b, ht)
      BY <2>5, <2>9, <3>1, <3>2, <3>3, <3>4 DEF UpInv
    <3> QED BY <3>5 DEF s
  <2>11. HeapOK(g) /\ SameVars(g, b) /\ Ordered(g, ht)
    BY <2>10, UpFacts DEF g
  <2> QED BY <2>1, <2>9, <2>11 DEF SameVars
<1> QED BY <1>1, <1>2

(* The heap a step sets, if it is one. *)
LEMMA HeapSet ==
  ASSUME NEW g, SetHeap(g), HeapOK(g), Ordered(g, heat), UNCHANGED heat
  PROVE  /\ HeapOK(Hp)' /\ Ordered(Hp, heat)'
         /\ \A u \in VarSet : pos'[u] # 0 <=> u \in Has(g)
<1>1. vhp' = g.vhp /\ pos' = g.pos
  BY DEF SetHeap
<1>2. Hp' = g
  BY <1>1 DEF HeapOK, Hp
<1>3. HeapOK(Hp)' /\ Ordered(Hp, heat)'
  BY <1>2 DEF HeapOK, Ordered, Above
<1> QED BY <1>1, <1>3 DEF Has

LEMMA HasHp == \A u \in VarSet : pos[u] # 0 <=> u \in Has(Hp)
BY DEF Has, Hp

(* Unassigning a variable puts it back. *)
LEMMA PushKeeps == ASSUME NEW m \in LitSet PROVE GuessInv /\ Push(m) => GuessInv'
<1> SUFFICES ASSUME GuessInv, Push(m) PROVE GuessInv'
  OBVIOUS
<1> DEFINE v == Var(m)
<1> DEFINE g == WithVar(Hp, heat, v)
<1>1. /\ m \in asg /\ asg' = asg \ {m} /\ v \in VarSet /\ v <= top /\ SetHeap(g)
      /\ heat' = heat /\ bumpInc' = bumpInc /\ top' = top /\ max' = max
  BY VarOfLit DEF Push, GuessInv
<1> HIDE DEF g
<1>2. HeapOK(g) /\ Ordered(g, heat) /\ Has(g) = Has(Hp) \cup {v}
  BY <1>1, WithVarFacts DEF GuessInv, g
<1>3. /\ HeapOK(Hp)' /\ Ordered(Hp, heat)'
      /\ \A u \in VarSet : pos'[u] # 0 <=> pos[u] # 0 \/ u = v
  BY <1>1, <1>2, HeapSet, HasHp
<1>4. asg' \subseteq LitSet /\ \A k \in asg' : Var(k) <= top
  BY <1>1 DEF GuessInv
<1>5. \A u \in VarSet : u > top => pos'[u] = 0
  BY <1>1, <1>3 DEF GuessInv, VarSet
<1>6. ASSUME NEW u \in 1 .. max, ~ Assigned(u)' PROVE pos'[u] # 0
  <2>1. u \in VarSet
    BY NVarsAssumption DEF GuessInv, VarSet
  <2>2. CASE u = v
    BY <1>3, <2>1, <2>2
  <2>3. CASE u # v
    <3>1. m # Pos(u) /\ m # Not(Pos(u))
      BY <2>1, <2>3, LitsOfVar
    <3>2. ~ Assigned(u)
      BY <1>1, <1>6, <3>1 DEF Assigned
    <3> QED BY <1>3, <2>1, <3>2 DEF GuessInv
  <2> QED BY <2>2, <2>3
<1> QED BY <1>1, <1>3, <1>4, <1>5, <1>6 DEF GuessInv

(* New variables are put behind, and the heap is made again. *)
LEMMA GrowFacts ==
  ASSUME GuessInv, NEW u \in VarSet, u > top
  PROVE  /\ HeapOK(GrowToVar(u)) /\ Ordered(GrowToVar(u), heat)
         /\ Has(GrowToVar(u)) = Has(Hp) \cup ((top + 1) .. u)
<1> DEFINE n == Len(vhp)
<1> DEFINE d == u - top
<1> DEFINE new == [i \in 1 .. d |-> top + i]
<1> DEFINE h == [vhp |-> vhp \o new,
                 pos |-> [v \in VarSet |-> IF v \in (top + 1) .. u THEN n + v - top ELSE pos[v]]]
<1> DEFINE g == Heapify(h, heat)
<1>1. GrowToVar(u) = g
  BY DEF GrowToVar
<1>2. Hp.vhp = vhp /\ Hp.pos = pos
  BY DEF Hp
<1>3. /\ vhp \in Seq(VarSet) /\ pos \in [VarSet -> Nat] /\ n \in Nat
      /\ \A i \in 1 .. n : vhp[i] \in VarSet /\ pos[vhp[i]] = i
      /\ \A v \in VarSet : pos[v] # 0 => pos[v] \in 1 .. n /\ vhp[pos[v]] = v
  BY <1>2 DEF GuessInv, HeapOK
<1>4. /\ h = [vhp |-> h.vhp, pos |-> h.pos] /\ h.vhp = vhp \o new
      /\ h.pos = [v \in VarSet |-> IF v \in (top + 1) .. u THEN n + v - top ELSE pos[v]]
  OBVIOUS
<1>5. top \in Nat /\ u \in Nat /\ d \in Nat /\ u <= NVars /\ NVars \in Nat
  BY NVarsAssumption DEF GuessInv, VarSet
<1>6. \A v \in VarSet : v > top => pos[v] = 0
  BY DEF GuessInv
<1> HIDE DEF h, g
<1>7. /\ new \in Seq(VarSet) /\ Len(new) = d /\ \A i \in 1 .. d : new[i] = top + i
  <2>1. new \in [1 .. d -> VarSet] /\ \A i \in 1 .. d : new[i] = top + i
    BY <1>5 DEF VarSet
  <2> HIDE DEF new, d
  <2> QED BY <1>5, <2>1
<1>0. d = u - top
  OBVIOUS
<1> HIDE DEF new, n, d
<1>8. /\ h.vhp \in Seq(VarSet) /\ Len(h.vhp) = n + d
      /\ \A i \in 1 .. n : h.vhp[i] = vhp[i]
      /\ \A i \in 1 .. d : h.vhp[n + i] = top + i
  <2>1. h.vhp \in Seq(VarSet) /\ Len(h.vhp) = n + d
    <3>1. vhp \in Seq(VarSet) /\ new \in Seq(VarSet) /\ Len(vhp) = n /\ Len(new) = d
      BY <1>3, <1>7 DEF n
    <3>2. vhp \o new \in Seq(VarSet) /\ Len(vhp \o new) = n + d
      BY <3>1, ConcatProperties
    <3> QED BY <1>4, <3>2
  <2>2. \A i \in 1 .. (n + d) : h.vhp[i] = IF i <= n THEN vhp[i] ELSE new[i - n]
    BY <1>3, <1>4, <1>7, ConcatProperties DEF n
  <2>3. \A i \in 1 .. n : i \in 1 .. (n + d) /\ i <= n
    BY <1>3, <1>5
  <2>4. \A i \in 1 .. d : n + i \in 1 .. (n + d) /\ ~ (n + i <= n) /\ (n + i) - n = i
    BY <1>3, <1>5
  <2>5. \A i \in 1 .. n : h.vhp[i] = vhp[i]
    BY <2>2, <2>3
  <2>6. \A i \in 1 .. d : h.vhp[n + i] = top + i
    <3> SUFFICES ASSUME NEW i \in 1 .. d PROVE h.vhp[n + i] = top + i
      OBVIOUS
    <3>1. h.vhp[n + i] = new[(n + i) - n]
      BY <2>2, <2>4
    <3>2. h.vhp[n + i] = new[i]
      BY <2>4, <3>1
    <3> QED BY <1>7, <3>2
  <2> QED BY <2>1, <2>5, <2>6
<1>9. /\ h.pos \in [VarSet -> Nat]
      /\ \A v \in VarSet : h.pos[v] = IF v > top /\ v <= u THEN n + v - top ELSE pos[v]
  BY <1>3, <1>4, <1>5 DEF VarSet
<1>10. ASSUME NEW i \in 1 .. (n + d) PROVE h.pos[h.vhp[i]] = i
  <2>1. CASE i <= n
    <3>1. i \in 1 .. n /\ i # 0
      BY <1>3, <2>1
    <3>2. ~ (vhp[i] > top)
      BY <1>3, <1>6, <3>1
    <3> QED BY <1>3, <1>8, <1>9, <3>1, <3>2
  <2>2. CASE ~ (i <= n)
    <3>1. i - n \in 1 .. d /\ n + (i - n) = i
      BY <1>3, <1>5, <2>2
    <3>2. h.vhp[i] = top + (i - n)
      BY <1>8, <3>1
    <3>3. top + (i - n) \in VarSet /\ top + (i - n) > top /\ top + (i - n) <= u
      BY <1>0, <1>3, <1>5, <3>1 DEF VarSet
    <3> QED BY <1>3, <1>5, <1>9, <3>1, <3>2, <3>3
  <2> QED BY <2>1, <2>2
<1>11. ASSUME NEW v \in VarSet, h.pos[v] # 0
       PROVE  h.pos[v] \in 1 .. (n + d) /\ h.vhp[h.pos[v]] = v
  <2>1. CASE v > top /\ v <= u
    <3>1. h.pos[v] = n + (v - top) /\ v - top \in 1 .. d
      BY <1>0, <1>3, <1>5, <1>9, <2>1 DEF VarSet
    <3>2. h.vhp[h.pos[v]] = top + (v - top)
      BY <1>8, <3>1
    <3> QED BY <1>3, <1>5, <3>1, <3>2 DEF VarSet
  <2>2. CASE ~ (v > top /\ v <= u)
    <3>1. h.pos[v] = pos[v] /\ pos[v] \in 1 .. n /\ vhp[pos[v]] = v
      BY <1>3, <1>9, <1>11, <2>2
    <3> QED BY <1>3, <1>5, <1>8, <3>1
  <2> QED BY <2>1, <2>2
<1>12. HeapOK(h)
  BY <1>4, <1>8, <1>9, <1>10, <1>11 DEF HeapOK
<1>13. HeapOK(g) /\ SameVars(g, h) /\ Ordered(g, heat)
  BY <1>12, HeapifyFacts DEF GuessInv, g
<1>14. ASSUME NEW v \in VarSet
       PROVE  h.pos[v] # 0 <=> pos[v] # 0 \/ v \in (top + 1) .. u
  <2>1. CASE v > top /\ v <= u
    <3>1. h.pos[v] = n + v - top /\ n + v - top # 0 /\ v \in (top + 1) .. u
      BY <1>3, <1>5, <1>9, <2>1 DEF VarSet
    <3> QED BY <3>1
  <2>2. CASE ~ (v > top /\ v <= u)
    <3>1. h.pos[v] = pos[v] /\ v \notin (top + 1) .. u
      BY <1>5, <1>9, <2>2 DEF VarSet
    <3> QED BY <3>1
  <2> QED BY <2>1, <2>2
<1>15. (top + 1) .. u \subseteq VarSet
  BY <1>5 DEF VarSet
<1>16. Has(h) = Has(Hp) \cup ((top + 1) .. u)
  BY <1>2, <1>14, <1>15 DEF Has
<1> QED BY <1>1, <1>13, <1>16 DEF SameVars

(* The loop of ensureLitCap. *)
PushRun == INSTANCE FoldProofs WITH op <- PushBody

LEMMA PushRounds ==
  ASSUME NEW s, NEW par, NEW n \in Nat
  PROVE  \E f : PushRun!Steps(f, s, par, n) /\ Rounds(PushBody, s, par, n) = f[n]
<1> DEFINE f == CHOOSE f : PushRun!Iterates(f, s, par, n)
<1>1. PushRun!Iterates(f, s, par, n)
  BY PushRun!IterExists
<1>2. Rounds(PushBody, s, par, n) = f[n]
  BY DEF Rounds, PushRun!Iterates
<1> HIDE DEF f
<1>3. PushRun!Steps(f, s, par, n)
  BY <1>1, PushRun!IterSteps
<1> QED BY <1>2, <1>3

(* What was put into the heap h before variable s.v is pushed. *)
PushInv(s, h, ht, last) ==
  /\ HeapOK(s.h) /\ Ordered(s.h, ht) /\ s.v \in (max + 1) .. (last + 1)
  /\ Has(s.h) = Has(h) \cup ((max + 1) .. (s.v - 1))

LEMMA PushStep ==
  ASSUME NEW ht \in Heats, NEW h, NEW s, NEW last \in VarSet, max \in Nat, PushInv(s, h, ht, last)
  PROVE  LET t == PushBody(s, [heat |-> ht, last |-> last])
         IN  /\ PushInv(t, h, ht, last)
             /\ t.v = IF s.v > last THEN s.v ELSE s.v + 1
<1> DEFINE par == [heat |-> ht, last |-> last]
<1>0. par.heat = ht /\ par.last = last
  OBVIOUS
<1> HIDE DEF par
<1>1. CASE s.v > last
  BY <1>0, <1>1 DEF PushBody, par
<1>2. CASE ~ (s.v > last)
  <2> DEFINE g == WithVar(s.h, ht, s.v)
  <2> DEFINE t == PushBody(s, par)
  <2>1. t.h = g /\ t.v = s.v + 1
    BY <1>0, <1>2 DEF PushBody
  <2>2. s.v \in VarSet /\ s.v \in (max + 1) .. last /\ last \in Nat
    BY <1>2, NVarsAssumption DEF PushInv, VarSet
  <2>3. HeapOK(g) /\ Ordered(g, ht) /\ Has(g) = Has(s.h) \cup {s.v}
    BY <2>2, WithVarFacts DEF PushInv
  <2> HIDE DEF g, t
  <2>4. (max + 1) .. (t.v - 1) = ((max + 1) .. (s.v - 1)) \cup {s.v}
    BY <2>1, <2>2
  <2>5. t.v \in (max + 1) .. (last + 1)
    BY <2>1, <2>2
  <2>6. PushInv(t, h, ht, last)
    BY <2>1, <2>3, <2>4, <2>5 DEF PushInv
  <2> QED BY <1>2, <2>1, <2>6 DEF t, par
<1> QED BY <1>1, <1>2

LEMMA PushAllFacts ==
  ASSUME NEW ht \in Heats, NEW h, NEW last \in VarSet, max \in Nat, max < last,
         HeapOK(h), Ordered(h, ht)
  PROVE  LET g == Rounds(PushBody, [h |-> h, v |-> max + 1], [heat |-> ht, last |-> last], last).h
         IN  HeapOK(g) /\ Ordered(g, ht) /\ Has(g) = Has(h) \cup ((max + 1) .. last)
<1> DEFINE base == [h |-> h, v |-> max + 1]
<1> DEFINE par == [heat |-> ht, last |-> last]
<1>0. base.h = h /\ base.v = max + 1 /\ par = [heat |-> ht, last |-> last]
  OBVIOUS
<1>1. last \in Nat
  BY NVarsAssumption DEF VarSet
<1> HIDE DEF base, par
<1>2. PICK f : PushRun!Steps(f, base, par, last) /\ Rounds(PushBody, base, par, last) = f[last]
  BY <1>1, PushRounds
<1> DEFINE Pushed(k) ==
      PushInv(f[k], h, ht, last) /\ (f[k].v > last \/ f[k].v = max + 1 + k)
<1> DEFINE S == {k \in 0 .. last : Pushed(k)}
<1>3. 0 \in S
  <2>1. f[0] = base
    BY <1>2 DEF PushRun!Steps
  <2>2. (max + 1) .. (base.v - 1) = {} /\ base.v \in (max + 1) .. (last + 1)
    BY <1>0, <1>1
  <2>3. PushInv(base, h, ht, last)
    BY <1>0, <2>2 DEF PushInv
  <2>4. base.v = max + 1 + 0
    BY <1>0
  <2> QED BY <1>1, <2>1, <2>3, <2>4
<1>4. ASSUME NEW k \in 0 .. (last - 1), k \in S PROVE k + 1 \in S
  <2>1. f[k + 1] = PushBody(f[k], par) /\ k + 1 \in 0 .. last
    BY <1>1, <1>2 DEF PushRun!Steps
  <2>2. Pushed(k)
    BY <1>4
  <2>3. /\ PushInv(f[k + 1], h, ht, last)
        /\ f[k + 1].v = IF f[k].v > last THEN f[k].v ELSE f[k].v + 1
    BY <1>0, <2>1, <2>2, PushStep
  <2>4. f[k + 1].v > last \/ f[k + 1].v = max + 1 + (k + 1)
    <3>1. CASE f[k].v > last
      BY <2>3, <3>1
    <3>2. CASE ~ (f[k].v > last)
      BY <1>1, <2>2, <2>3, <3>2
    <3> QED BY <3>1, <3>2
  <2> QED BY <2>1, <2>3, <2>4
<1>5. last \in S
  <2> HIDE DEF S
  <2> QED BY <1>1, <1>3, <1>4, PushRun!Induct
<1>6. PushInv(f[last], h, ht, last) /\ f[last].v = last + 1
  <2>1. PushInv(f[last], h, ht, last) /\ (f[last].v > last \/ f[last].v = max + 1 + last)
    BY <1>5
  <2>2. f[last].v \in (max + 1) .. (last + 1)
    BY <2>1 DEF PushInv
  <2> QED BY <1>1, <2>1, <2>2
<1>7. (last + 1) - 1 = last
  BY <1>1
<1> HIDE DEF S, Pushed
<1> QED BY <1>0, <1>2, <1>6, <1>7 DEF PushInv, base

(* A variable the client uses is in the heap, and so are those before it. *)
LEMMA EnsureKeeps ==
  ASSUME NEW v \in VarSet, NEW u \in VarSet
  PROVE  GuessInv /\ EnsureLitCap(v, u) => GuessInv'
<1> SUFFICES ASSUME GuessInv, EnsureLitCap(v, u) PROVE GuessInv'
  OBVIOUS
<1> DEFINE h == IF u = top THEN Hp ELSE GrowToVar(u)
<1> DEFINE g == Rounds(PushBody, [h |-> h, v |-> max + 1], [heat |-> heat, last |-> v], v).h
<1>1. /\ max < v /\ max' = v /\ top' = u /\ SetHeap(g)
      /\ (v < top /\ u = top) \/ (top <= v /\ v < u)
      /\ heat' = heat /\ bumpInc' = bumpInc /\ asg' = asg
  BY DEF EnsureLitCap
<1>2. /\ max \in Nat /\ top \in Nat /\ v \in Nat /\ u \in Nat /\ max <= top /\ NVars \in Nat
      /\ heat \in Heats
  BY NVarsAssumption DEF GuessInv, VarSet
<1>3. /\ u \in 0 .. NVars /\ v \in 0 .. u /\ top <= u
      /\ (u = top \/ u > top)
  BY <1>1, <1>2 DEF VarSet
<1> HIDE DEF g
<1>4. HeapOK(h) /\ Ordered(h, heat) /\ Has(h) = Has(Hp) \cup ((top + 1) .. u)
  <2>1. CASE u = top
    <3>1. (top + 1) .. u = {}
      BY <1>2, <2>1
    <3> QED BY <2>1, <3>1 DEF GuessInv
  <2>2. CASE u # top
    <3>1. u > top
      BY <1>3, <2>2
    <3> QED BY <2>2, <3>1, GrowFacts
  <2> QED BY <2>1, <2>2
<1> HIDE DEF h
<1>5. HeapOK(g) /\ Ordered(g, heat) /\ Has(g) = Has(h) \cup ((max + 1) .. v)
  BY <1>1, <1>2, <1>4, PushAllFacts DEF g
<1>6. /\ HeapOK(Hp)' /\ Ordered(Hp, heat)'
      /\ \A w \in VarSet : pos'[w] # 0 <=> \/ pos[w] # 0
                                          \/ w \in (top + 1) .. u
                                          \/ w \in (max + 1) .. v
  BY <1>1, <1>4, <1>5, HeapSet, HasHp
<1>7. ASSUME NEW w \in VarSet, w > u PROVE pos'[w] = 0
  <2>1. w > top /\ w \notin (top + 1) .. u /\ w \notin (max + 1) .. v
    BY <1>2, <1>3, <1>7 DEF VarSet
  <2> QED BY <1>6, <2>1 DEF GuessInv
<1>8. ASSUME NEW w \in 1 .. v, ~ Assigned(w)' PROVE pos'[w] # 0
  <2>1. w \in VarSet /\ (w \in 1 .. max \/ w \in (max + 1) .. v)
    BY <1>2 DEF VarSet
  <2>2. ~ Assigned(w)
    BY <1>1, <1>8 DEF Assigned
  <2> QED BY <1>6, <2>1, <2>2 DEF GuessInv
<1>9. asg' \subseteq LitSet /\ \A m \in asg' : Var(m) <= u
  <2>1. asg \subseteq LitSet /\ \A m \in asg : Var(m) <= top /\ Var(m) \in VarSet
    BY VarOfLit DEF GuessInv
  <2> QED BY <1>1, <1>2, <1>3, <2>1 DEF VarSet
<1> QED BY <1>1, <1>2, <1>3, <1>6, <1>7, <1>8, <1>9 DEF GuessInv

(* Down leaves a variable where it is whose children are not hotter. *)
LEMMA DownIdle ==
  ASSUME NEW h, NEW ht, NEW i, NEW n \in Nat, h = [vhp |-> h.vhp, pos |-> h.pos],
         DownDone([h |-> h, i |-> i], [heat |-> ht, n |-> n])
  PROVE  Down(h, ht, i, n) = h
<1> DEFINE base == [h |-> h, i |-> i]
<1> DEFINE par == [heat |-> ht, n |-> n]
<1>1. base.h = h /\ Down(h, ht, i, n) = Rounds(DownBody, base, par, n).h
  BY DEF Down
<1>2. DownBody(base, par) = base
  BY DEF DownBody, DownDone
<1> HIDE DEF base, par
<1>3. PICK f : DownRun!Steps(f, base, par, n) /\ Rounds(DownBody, base, par, n) = f[n]
  BY DownRounds
<1> DEFINE T == {k \in 0 .. n : f[k] = base}
<1>4. 0 \in T
  BY <1>3 DEF DownRun!Steps
<1>5. ASSUME NEW k \in 0 .. (n - 1), k \in T PROVE k + 1 \in T
  <2>1. f[k + 1] = DownBody(f[k], par) /\ k + 1 \in 0 .. n
    BY <1>3 DEF DownRun!Steps
  <2> QED BY <1>2, <1>5, <2>1
<1> HIDE DEF T
<1>6. n \in T
  BY <1>4, <1>5, DownRun!Induct
<1> QED BY <1>1, <1>3, <1>6 DEF T

(* Dividing keeps an order. *)
LEMMA DivMono ==
  ASSUME NEW a \in Nat, NEW b \in Nat, NEW c \in Nat \ {0}, a <= b
  PROVE  a \div c \in Nat /\ b \div c \in Nat /\ a \div c <= b \div c
OBVIOUS

(* The variable that is bumped is hotter than before, and the order of the *)
(* others stays, also when all heats are scaled.                           *)
LEMMA BumpHeats ==
  ASSUME GuessInv, NEW v \in VarSet, Bump(v)
  PROVE  /\ heat' \in Heats /\ bumpInc' \in Nat
         /\ \A u, w \in VarSet : u # v /\ heat[u] <= heat[w] => heat'[u] <= heat'[w]
<1> DEFINE hot == [heat EXCEPT ![v] = @ + bumpInc]
<1>1. heat \in Heats /\ bumpInc \in Nat
  BY DEF GuessInv
<1>2. hot \in Heats /\ \A u \in VarSet : hot[u] = IF u = v THEN heat[v] + bumpInc ELSE heat[u]
  BY <1>1 DEF Heats
<1>3. /\ heat' = IF hot[v] > BumpLim THEN [u \in VarSet |-> hot[u] \div BumpLim] ELSE hot
      /\ bumpInc' = IF hot[v] > BumpLim THEN 1 ELSE bumpInc
  BY DEF Bump
<1> HIDE DEF hot
<1>4. ASSUME NEW u \in VarSet, NEW w \in VarSet, u # v, heat[u] <= heat[w]
      PROVE  hot[u] <= hot[w]
  <2>1. heat[u] \in Nat /\ heat[w] \in Nat /\ hot[w] \in Nat
    BY <1>1, <1>2 DEF Heats
  <2> QED BY <1>1, <1>2, <1>4, <2>1
<1>5. \A u \in VarSet : hot[u] \in Nat
  BY <1>2 DEF Heats
<1>6. CASE hot[v] > BumpLim
  <2>1. \A u \in VarSet : heat'[u] = hot[u] \div BumpLim
    BY <1>3, <1>6
  <2>2. BumpLim \in Nat \ {0}
    BY GuessAssumption
  <2>3. heat' \in Heats
    <3>1. \A u \in VarSet : hot[u] \div BumpLim \in Nat
      BY <1>5, <2>2, DivMono
    <3> QED BY <1>3, <1>6, <3>1 DEF Heats
  <2>4. ASSUME NEW u \in VarSet, NEW w \in VarSet, u # v, heat[u] <= heat[w]
        PROVE  heat'[u] <= heat'[w]
    BY <1>4, <1>5, <2>1, <2>2, <2>4, DivMono
  <2> QED BY <1>3, <1>6, <2>3, <2>4
<1>7. CASE ~ (hot[v] > BumpLim)
  <2>1. heat' = hot /\ bumpInc' = bumpInc
    BY <1>3, <1>7
  <2> QED BY <1>1, <1>2, <1>4, <2>1
<1> QED BY <1>6, <1>7

LEMMA BumpKeeps == ASSUME NEW v \in VarSet PROVE GuessInv /\ Bump(v) => GuessInv'
<1> SUFFICES ASSUME GuessInv, Bump(v) PROVE GuessInv'
  OBVIOUS
<1> DEFINE n == Len(vhp)
<1> DEFINE p == pos[v]
<1>1. /\ heat' \in Heats /\ bumpInc' \in Nat
      /\ \A u, w \in VarSet : u # v /\ heat[u] <= heat[w] => heat'[u] <= heat'[w]
  BY BumpHeats
<1>2. top' = top /\ max' = max /\ asg' = asg
  BY DEF Bump
<1>3. /\ Hp.vhp = vhp /\ Hp.pos = pos /\ HeapOK(Hp) /\ n \in Nat /\ n = Len(Hp.vhp)
      /\ Hp = [vhp |-> Hp.vhp, pos |-> Hp.pos]
  BY DEF Hp, GuessInv, HeapOK
<1>4. \A k \in 1 .. n : vhp[k] \in VarSet /\ pos[vhp[k]] = k
  BY <1>3 DEF HeapOK
<1>5. \A k \in 2 .. n : heat[vhp[k]] <= heat[vhp[k \div 2]]
  BY <1>3 DEF GuessInv, Ordered, Above
<1> HIDE DEF n
<1>6. ASSUME NEW k \in 2 .. n, vhp[k] # v PROVE heat'[vhp[k]] <= heat'[vhp[k \div 2]]
  <2>1. k \in 1 .. n /\ k \div 2 \in 1 .. n
    BY <1>3
  <2> QED BY <1>1, <1>4, <1>5, <1>6, <2>1
<1>7. ASSUME HeapOK(Hp)', Ordered(Hp, heat)', \A u \in VarSet : pos'[u] # 0 <=> pos[u] # 0
      PROVE  GuessInv'
  <2>1. \A u \in VarSet : u > top => pos'[u] = 0
    BY <1>7 DEF GuessInv
  <2>2. \A u \in 1 .. max : Assigned(u)' \/ pos'[u] # 0
    <3> SUFFICES ASSUME NEW u \in 1 .. max, ~ Assigned(u)' PROVE pos'[u] # 0
      OBVIOUS
    <3>1. u \in VarSet /\ ~ Assigned(u)
      BY <1>2, NVarsAssumption DEF GuessInv, VarSet, Assigned
    <3> QED BY <1>7, <3>1 DEF GuessInv
  <2> QED BY <1>1, <1>2, <1>7, <2>1, <2>2 DEF GuessInv
<1>8. CASE p = 0
  <2>1. Hp' = Hp /\ vhp' = vhp /\ pos' = pos
    BY <1>8 DEF Bump, Hp
  <2>2. \A k \in 2 .. n : vhp[k] # v
    BY <1>4, <1>8, <1>3
  <2>3. HeapOK(Hp)'
    BY <1>3, <2>1 DEF HeapOK
  <2>4. Ordered(Hp, heat)'
    BY <1>3, <1>6, <2>1, <2>2 DEF Ordered, Above
  <2> QED BY <1>7, <2>1, <2>3, <2>4
<1>9. CASE p # 0
  <2> DEFINE d == Down(Hp, heat', p, n)
  <2> DEFINE g == Up(d, heat', p)
  <2>1. vhp' = g.vhp /\ pos' = g.pos
    BY <1>9 DEF Bump, SetHeap, n
  <2>2. p \in 1 .. n /\ vhp[p] = v
    BY <1>3, <1>9 DEF HeapOK
  <2> HIDE DEF p
  <2>3. \A k \in 2 .. n : k # p => vhp[k] # v
    BY <1>4, <2>2, <1>3
  <2>4. DownDone([h |-> Hp, i |-> p], [heat |-> heat', n |-> n])
    <3> DEFINE s == [h |-> Hp, i |-> p]
    <3> DEFINE par == [heat |-> heat', n |-> n]
    <3>1. s.h = Hp /\ s.i = p /\ par.heat = heat' /\ par.n = n
      OBVIOUS
    <3> HIDE DEF s, par
    <3>2. ASSUME 2 * p <= n PROVE heat'[vhp[Child(Hp, heat', p, n)]] <= heat'[vhp[p]]
      <4> DEFINE j == Child(Hp, heat', p, n)
      <4>1. j \in 2 .. n /\ j \div 2 = p
        BY <1>1, <1>3, <2>2, <3>2, ChildFacts
      <4> HIDE DEF j
      <4>2. j # p
        BY <1>3, <2>2, <4>1
      <4> QED BY <1>6, <2>3, <4>1, <4>2 DEF j
    <3>3. DownDone(s, par)
      BY <1>3, <2>2, <3>1, <3>2 DEF DownDone
    <3> QED BY <3>3 DEF s, par
  <2>5. d = Hp
    BY <1>3, <2>4, DownIdle
  <2>6. UpInv([h |-> Hp, j |-> p], Hp, heat')
    <3> DEFINE s == [h |-> Hp, j |-> p]
    <3>1. s = [h |-> s.h, j |-> s.j] /\ s.h = Hp /\ s.j = p
      OBVIOUS
    <3> HIDE DEF s
    <3>2. \A k \in 2 .. n : k # p => Above(Hp, heat', k)
      BY <1>3, <1>6, <2>3 DEF Above
    <3>3. ASSUME NEW k \in 2 .. n, k \div 2 = p, p \div 2 # 0
          PROVE  heat'[vhp[k]] <= heat'[vhp[p \div 2]]
      <4>1. p \in 2 .. n /\ k # p /\ k \in 1 .. n /\ p \in 1 .. n /\ p \div 2 \in 1 .. n
        BY <1>3, <2>2, <3>3
      <4>2. heat[vhp[k]] <= heat[vhp[p]] /\ heat[vhp[p]] <= heat[vhp[p \div 2]]
        BY <1>5, <3>3, <4>1
      <4>3. heat[vhp[k]] \in Nat /\ heat[vhp[p]] \in Nat /\ heat[vhp[p \div 2]] \in Nat
        BY <1>4, <4>1 DEF GuessInv, Heats
      <4>4. heat[vhp[k]] <= heat[vhp[p \div 2]]
        BY <4>2, <4>3
      <4> QED BY <1>1, <1>4, <2>3, <4>1, <4>4
    <3>4. SameVars(Hp, Hp)
      BY DEF SameVars
    <3>5. UpInv(s, Hp, heat')
      BY <1>3, <2>2, <3>1, <3>2, <3>3, <3>4 DEF UpInv
    <3> QED BY <3>5 DEF s
  <2> HIDE DEF d
  <2>7. g = Up(Hp, heat', p)
    BY <2>5
  <2> HIDE DEF g
  <2>8. HeapOK(g) /\ SameVars(g, Hp) /\ Ordered(g, heat')
    BY <1>1, <2>6, <2>7, UpFacts
  <2>9. Hp' = g
    BY <2>1, <2>8 DEF HeapOK, Hp
  <2>10. HeapOK(Hp)' /\ Ordered(Hp, heat)'
    BY <2>8, <2>9 DEF HeapOK, Ordered, Above
  <2>11. \A u \in VarSet : pos'[u] # 0 <=> pos[u] # 0
    BY <1>3, <2>1, <2>8 DEF SameVars, Has
  <2> QED BY <1>7, <2>10, <2>11
<1> QED BY <1>8, <1>9

LEMMA OtherKeeps ==
  GuessInv /\ (PhasesInit \/ GuessDecay \/ UNCHANGED guessVars) => GuessInv'
<1> SUFFICES ASSUME GuessInv, PhasesInit \/ GuessDecay \/ UNCHANGED guessVars PROVE GuessInv'
  OBVIOUS
<1>1. /\ vhp' = vhp /\ pos' = pos /\ heat' = heat /\ top' = top /\ max' = max /\ asg' = asg
      /\ bumpInc' \in Nat
  BY DEF PhasesInit, GuessDecay, guessVars, GuessInv
<1>2. Hp' = Hp /\ \A v \in 1 .. max : Assigned(v)' <=> Assigned(v)
  BY <1>1 DEF Hp, Assigned
<1>3. HeapOK(Hp)' /\ Ordered(Hp, heat)'
  BY <1>1, <1>2 DEF GuessInv, HeapOK, Ordered, Above
<1> QED BY <1>1, <1>2, <1>3 DEF GuessInv

(* The heap of xo.Guess stays a heap, and all free variables the client    *)
(* used are in it: swap, up, down, pop, growToVar and the pushes of        *)
(* ensureLitCap keep pos the inverse of vhp, and Bump and Push the order.  *)
THEOREM HeapStaysSound == GuessSpec => []HeapSound
<1>1. GuessInv /\ [GuessNext]_guessVars => GuessInv'
  <2> SUFFICES ASSUME GuessInv, [GuessNext]_guessVars PROVE GuessInv'
    OBVIOUS
  <2>1. CASE PhasesInit \/ GuessDecay \/ UNCHANGED guessVars
    BY <2>1, OtherKeeps
  <2>2. CASE GuessGuess
    BY <2>2, GuessKeeps
  <2>3. CASE \E m \in LitSet : Propagate(m) \/ Push(m)
    BY <2>3, PropagateKeeps, PushKeeps
  <2>4. CASE \E v \in VarSet : Bump(v) \/ \E u \in VarSet : EnsureLitCap(v, u)
    BY <2>4, BumpKeeps, EnsureKeeps
  <2> QED BY <2>1, <2>2, <2>3, <2>4 DEF GuessNext
<1> QED BY <1>1, InitInv, InvImpliesSound, PTL DEF GuessSpec
=============================================================================
