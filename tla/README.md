# TLA+ models of gini

gini is an incremental CDCL SAT solver in Go, with circuits, files, a server and
pools of solvers around it. This directory holds TLA+ specifications of them, the
TLC configurations that check them, and TLAPS proofs about the solver, its clause collector and
guess heap, the control of a running Solve, the exchange of requests, the variable maps and
CRISP. `PROJECT.json`
is the index: components, runs, mutants, the map from definitions to source lines,
findings, hazards and theorems.
References of the form `s.go:230` are to `src/internal/xo` unless another
directory is named.

## 1. The system

| Part | State | Operations | Interacts with |
|---|---|---|---|
| `z` literals | none | coding of literals, `Var`, `Not` | everything |
| `Trail`, `Vars`, `Watch` | assigned literals in order, head, level; values, levels, reasons, watch lists | `Assign`, `Back`, `Prop` | reads and permutes clauses of `Cdb`, pushes on `Guess` |
| `Cdb`, `CDat` | clauses, `Added`, `Learnts`, `Bot` | `Add`, `Learn`, `Remove`, `CheckModel` | links clauses into the watch lists |
| `Deriver` | marks (`Seen`, `Lvls`, `Rdnt`), scratch clauses | `Derive` | walks trail and reasons, calls `Learn` |
| `Guess`, phases, `Luby` | heap of variables by heat, cached signs, restart sequence | `Guess`, `Push`, `Bump`, `Decay` | popped by the search, pushed by `Back` |
| `S` | last conflict, failed literal, test levels, pending assumptions | `Add`, `Assume`, `Solve`, `Try`, `Test`, `Untest`, `Why`, `Reasons`, `Copy` | drives all of the above |
| `Ctl` | channels `cResult` and `cStopOrPause`, mutex; `S.gmu`, `S.rmu` | `Stop`, `Test`, `Try`, `Wait`, `Pause`, `Unpause`, `TryStats`, `Tick` | runs beside the Solve goroutine |
| `Cgc`, `Active` | clause heat, removal list, activation literals and their occurrences | `Remove`, `Compact`, `Activate`, `Deactivate` | relocates what reasons and watches name |
| `ax` | units (solvers), which are available, three channels | `Ex`, `TryEx`, `Stop` | copies solvers, one `Ctl` per running request |
| `crisp` | protocol state of client and server, cached model | one message per operation of `S` and `Ctl`, extensions | a `Gini` behind a socket |
| `sv.go`, `z/dv.go` | inner and outer variables | mapping in both directions | wraps an `S` |
| `logic`, `logic/aiger` | and-inverter graph, hash table, latches | constructors, `ToCnf`, sorting networks, unrolling, file formats | adds clauses to an `S` |
| `dimacs`, `gen`, `bench`, `cmd` | none of interest | reading, generating, running, printing | |

What is hard in it:

* the two-watched-literal scheme is a set of relations between the trail, the
  order of literals inside clauses and copies of literals in the watch lists,
  which hold only between certain steps and have to survive every history of
  conflicts, backjumps and learned clauses;
* the incremental interface keeps a conflict over from one call to the next
  and resolves it there, between clauses added, assumptions and scopes opened
  and closed in any order;
* assumptions, tested assumptions and guesses share one trail, and a learned
  clause may assert below the level it is assigned at;
* a running Solve is stopped, paused and copied by other goroutines, with a
  mutex that is locked by one goroutine and unlocked by another;
* clauses are removed in two stages and moved in memory while reasons, watches,
  occurrences of activation literals and the lists of clauses name them by
  location;
* client and server of CRISP each keep the state of one protocol, with one
  buffer for both directions, over a connection that may break;
* circuits are hashed, grown, copied, translated in pieces and read from files,
  and what an operation returns may be an older node or a constant.

## 2. The modules

| Module | Models | Lines |
|---|---|---|
| `Lits` | the coding of literals | constants and operators |
| `Trail` | `Trail`, `Vars`, watch lists, `Cdb.Add`/`Learn`, the guess heap as a set | state machine and its properties |
| `TrailProofs` | | theorems about `Trail` |
| `Solver` | `S` and `Deriver` on top of `Trail` | state machine and its properties |
| `FoldProofs` | | folds over sequences and recursive functions over depths, for any operator |
| `DeriveProofs` | | conflict analysis: what `Derive` of `Solver` yields |
| `SolverProofs` | | theorems about `Solver`: answers -1, panics, the fatal error |
| `ModelProofs` | | theorems about `Solver`: answers 1, the assumptions of open scopes, Why |
| `Cgc` | `Cgc`, `Active`, `CDat.Compact` and relocation, on top of `Trail` | state machine and its properties |
| `StoreProofs` | | theorems about `Cgc`, by way of those about `Trail` |
| `Guess` | the heap array, heats, phases | state machine and its property |
| `ClauseData` | `CDat` and `Chd`: the memory of the clauses | state machine and its property |
| `Ctl` | `Ctl`, `GoSolve`, locks, readers, `Try`'s deadline | state machine and its properties |
| `Exchange` | what `ax.T` promises | abstract specification |
| `Ax` | `ax`: pool, units, channels, `Stop` | state machine, its properties, refinement of `Exchange` |
| `GoroutineProofs` | | theorems about `Ctl` and about `Ax`, the refinement among them |
| `Circuit` | `logic.C`, `logic.S`, `CardSort`, `Roll` | state machine over circuits, algorithms as operators |
| `Aiger` | `logic/aiger`, on top of `Circuit` | operators, and a reader gate by gate |
| `Sv` | `z.Vars`, `svWrap` | state machine and its property |
| `Crisp` | `crisp.Client`, `Handler`, `netsolve` | state machine and its properties |
| `Codec` | `vu32io`, the form of messages | state machine and its property |
| `OuterProofs` | | theorems about `Sv`, `Crisp` and `Guess` |
| `MCTrail`, `MCSolver`, `MCStore`, `MCCtl`, `MCAx`, `MCOuter` | | instances for TLC; `MCStore` and `MCOuter` run several components, each on its own |

### Trail

The variables are the fields of the code: `D` with `head` and `Level` is the
trail, `vals`, `levels`, `reasons`, `watches` the arrays of `Vars`, `cls`,
`added`, `bot` the clause database, `heap` the set of variables in the heap.
A clause is a sequence of literals in memory order; its location is its index.
`Prop` and `Back` are loops and take one step per iteration: `PropTake` is
one round of the outer loop, `VisitBlocked`, `VisitBinary`, `VisitSatisfied`,
`VisitRewatch` and `VisitLast` are the exits of one round of the inner loop.
The compaction of the watch list that the code does with the index `j` is
modelled by its effect: a kept watch stays, a moved one is removed at once.

The `Client...` actions are the contract under which `S` uses the trail:
clauses are added at level 0 with unassigned literals of distinct variables;
while a conflict is unresolved nothing is assigned or propagated; a learned
clause is falsified, with one literal, the first, of the current level; it may
imply its first literal once the rest is false and that one is free; a level
is opened only when everything is propagated. The run `solver`
checks that every step of `Solver` satisfies it (`TrailContract`) until an added
clause becomes empty. Then it need not: a Test and an Untest may leave a conflict of
level 0 behind, with which the next clause is added; every later Solve and Test
answers -1 all the same. What the theorems about `TrailSpec` say of the trail inside
the solver is proved of the solver itself (`TrailInvInSolver`), and so is the contract
(`ContractKept`).

### Solver

`pc` names what the running call does next; a call waits for the loop of
`Trail` it has started. `Cleanup...` is `cleanupSolve`, `Assume...` is
`makeAssumptions`, `Search...` the loop of `Solve`. `Derive` is computed in one
step from the trail, as a fold over it, with `Seen`, the count of literals of
the current level and the marked levels as in the code; `Redundant` is the
recursive minimisation: the literals found redundant by a search of depth `n` follow
(`Follows`) from those found by a search of depth `n - 1`, and the number of variables
bounds the length of a chain of reasons. Marked levels left behind are kept in
`lvls`, since a later call reads them.

Which variable is guessed, with which sign, which assigned variables the heap
drops on the way and when a restart is due are nondeterministic, so the
properties hold for every order of the heap, every phase and every restart
sequence. `unresolved`, `formula`, `scopes`, `asked` and `calls` are history
variables: the answers are compared with the satisfiability of `formula`
together with the assumptions in force, evaluated over all assignments.

`Discipline` lists precautions of the client. They are there because without
them the code breaks its documentation (section 5): "final" is not to call again
after the formula itself was found unsatisfiable, "untest" to close the scopes
after an unsat Test before the next one, "solve" not to Solve between a failed
Test and its Untest. The run `forget` leaves out "final", `live` has a client
that tests again after unsat.

Not in the model: compaction of the clause database at a guess (`s.go:298`) and
activation literals, which `Cgc` has; growth of the arrays (`ensureLitCap`),
`Copy` and statistics.

### Cgc, Guess and ClauseData

`Cgc` extends `Trail`: a clause location is an index of `cls`, so that
`CompactCDat` shifts locations and `Relocate` is applied to reasons, watches,
`added`, `learnts` and `occs`, each where the code does it. `Freed(q)` are the clauses
whose memory goes: `CDat.Compact` walks the memory beside the sorted queue and stops
at a duplicate (`Met`), for which the queue is made unique when there are activation
literals. What is left of a slice or a list is `Sub`, the places kept in their order; the
location of a clause that is kept becomes its `Rank` among those. `Enqueue` and
`Unlink` are the first stage of removal. `Removable` is what `Compact` may
choose among learned clauses: those that are long enough and not `InUse`; which
of them the heat order takes is nondeterministic. `NextLit`, `ActivateWith` and
`Deactivate` are `Active`'s. The search around them is `SearchStep`, the client
of `Trail`; learned clauses are those conflict analysis could derive (`Implied`).
`Discipline = {"assigned"}` is a client which deactivates only literals that
have no value: see section 5. The clauses of the client (`AddSpace`) have distinct
variables and no activation variables (`AddSpaceAssumption`): only `ActivateWith` puts an
activation literal into a clause.

`Guess` has the arrays `vhp` and `pos` from index 1. A loop is what one round of it does
(`UpBody`, `DownBody`, `HeapifyBody`, `PopBody`, `PushBody`) and the state after as many
rounds as it can take (`Rounds`), where a round after the loop's exit changes nothing.
`EnsureLitCap` is `ensureLitCap` when the client uses a variable for the first time: the
arrays double until they have it (`GrowToVar`), and the variables from `max + 1` to it
are pushed. A clause of `GuessClauses` is there once its variables are used, has at most
`NVars` literals, and its length is read from its header (`HeaderSize`), which keeps the
remainder by `HeadMod`, 32 in the code. `ClauseData` has the words of memory; a header is a number
with its fields at their widths, which the run makes small so that sizes, distances
and heats overflow. The locations the client knows are relocated by the map that
`Compact` returns.

### Ctl

One goroutine per Solve, the client, the goroutine of `TryStats`, and readers
(`Copy`, `ReadStats`). Sends and receives on the unbuffered channels are joint
steps. `Tick` receives only from a goroutine that already waits, so a tick
without one is a stuttering step. The search itself is one state, `"run"`,
which may end by itself at any time. The client keeps to the comments of
`Ctl`: one call at a time, no call after the result was taken, `Unpause` after
a successful `Pause`. It reads the channel of `TryStats` until it is closed, as
`cmd/gini/main.go` does.

### Ax and Exchange

The goroutines are the clients, the serving goroutine (`mpc`) and one for each
request a unit solves (`upc`). `Accept` and `Receive` are the two exchanges, each
a joint step of a client in `Ex` or `TryEx` and the serving goroutine; a `TryEx`
that finds nobody ready changes nothing. `handleReq` and `handleResp` stop where
they block: for a free unit (`AwaitResp`) and for the client (`"deliver"`).
`Dispatch` is `getunit` with the growth of the pool and the start of the unit's
Solve. A unit's Solve is a value (`search`) that becomes decided at some time;
that Test and Stop of `Ctl` return and hand out the right result is what the run
`ctl` shows. `last` is the request a solver was last given, from which the data
of a response is read. `SetFlag` and `Limit` only matter for the next request
and are part of `NewRequest`.

`Exchange` has the accepted requests without response, the answered ones and
whether it was stopped. The refinement maps its `pending` to the requests that
are anywhere in the pool: in `handleReq`, with a unit, in `uRespChn` or in
`handleResp`.

### Circuit and Aiger

A circuit is a record of its nodes, its hash table and its capacity, and an
operation on it yields the new circuit and a literal, so the operators compose
as the methods do. `want` is the history of what was made, with the truth
table it should have. `CardSort` is the odd-even merge sort with its padding;
`At` is `Roll.At` with its cache. `Aiger` has the writers and readers as
operators from a system to a file and back, with numbers instead of characters;
`ReadAnd` is one gate of the binary reader as an action, for files that gini did
not write.

### Sv, Crisp and Codec

`Sv` follows `z.Vars` and three methods of its wrapper over a solver of units.

In `Crisp` the connection is a sequence of items each way; a client call appends
all its items in one step, since the client buffers and flushes them before it
waits. The user's goroutine (`user`) and the one `GoSolve` starts (`wire`) meet
on two unbuffered channels: joint steps. The handler takes one item at a time.
`Cut` breaks the connection at any time. The solver behind the handler ends by
itself (`SolverEnds`), which is what `Ctl` shows of its calls. Answers carry the
number of the solve they come from; `careful` says that the client kept to the
protocol so far, and `OrderKept` and `AnswersMatch` speak of such a client.

`Codec` is below it: numbers in bytes through one buffer with the indices `r`
and `w`, read in whatever pieces arrive, for ends that take turns; a message is
an op with a list, or a model packed in words.

## 3. The runs

| Run | Checks | Instance |
|---|---|---|
| `trail` | the inductive invariant of the proofs (types, consistency of trail and values, units kept, conflicts real, heap complete), reasons first, watch lists, no conflict and no unit missed; level 0 is permanent; loops end | 3 variables, 5 clauses of length 1 to 3 of which 4 may be stored, each added or learned |
| `solver` | answers, learned clauses implied, Why a core, tested assumptions kept; `SolverInv`: types, units asserted, scopes nested, `backWithLates` never needed, no fatal error; the solver drives the trail as `TrailSpec` says | a client that solves: 5 formulas of 3 variables, 2 calls, 1 assumption a call, a clause added late, 1 restart; and one that tests: 2 formulas, 4 calls, 2 nested scopes |
| `live` | every call returns; Test panics only if the tested assumptions are contradictory | 2 calls, a scope, a restart, cancellation and deadline; a client that tests after unsat |
| `store` | `Cgc`: reasons and watches survive collection and relocation, activation literals are clean, the problem keeps its clauses; `Guess`: the heap; `ClauseData`: the memory | 4 variables, 2 of them for activation; 4 variables, used one after another or some at once, the arrays grown in between, and 3 clauses, one with length 0 in its header; 3 clauses of length 1 to 5, headers of a few bits |
| `ctl` | `rmu` has one holder; no Solve is left behind; results reach their own connection; calls return; TryStats closes | 2 Solves, 2 readers |
| `ax` | a solver is in one place; requests wait only at the capacity; responses have their own data; the pool implements `Exchange`; accepted requests are answered | 2 clients, 2 units, 3 requests with or without limit, all for the model and the failed assumptions |
| `outer` | circuits mean what they should, also as clauses, in sorting networks, unrolled and through files; variables stay apart; CRISP order, answers and messages; calls are answered | 2 inputs with 2 operations, networks of up to 5 inputs, 2 latches to time 2, an input before or after a latch, 2 gates of a file; inner variables to 5; 5 calls, 2 of them solves; words of 5 bits in bytes of 2, a buffer of 4, 3 messages |
| `forget`, `deadline`, `ax_stop`, `crisp_stop`, `aiger_read` | expected violations, see section 5 | |

Bounds. Three variables are the least with which a clause of three literals
has a watch to move, a conflict can lie above two levels, and an assumption, a
guess and an implied literal meet. The clauses of `MCTrail`
share literals so that a clause can be reason, conflict and watched by the same
literal in one behaviour, and each may be added or learned. The formulas of
`MCSolver` have answers that need search, answers by propagation alone, and
an unsatisfiable core, and a last clause that is empty or contradicts level 0
when it is added; `Late` clauses are added after calls. `MaxClauses = 30`
is above what any behaviour of these instances learns and never cuts one off.
Two Solves are enough for a stale result to meet the next connection, and a
second reader for two of them to compete for `rmu`. Three requests are one more
than the units of `MCAx`, so that one waits in `handleReq` while responses come. In `MCStore` a variable is active, inactive, reused and active again, a clause
is a reason while another of its size is removed, and a removed clause is freed
together with, and apart from, its neighbour; the client is cut down to one order
of independent choices, as the comment there says. Two operations over two inputs
suffice for a node to be found again, for the table, which starts with two places,
to grow twice, and for an operation on a copy; the hash function of the run, a sum,
makes lists of several nodes. Five inputs of a network are padded to eight. A word of
5 bits in groups of 2 takes up to three bytes, the last incomplete, as 32 in
groups of 7 does, and a buffer of 4 is filled in the middle of a number.
Deadlock checking is off
in `MCTrail`, `MCSolver`, `MCStore` and `MCOuter`, where the bounds end every
behaviour, and in `MCAx`, where Stop does; it is on for `MCCtl`.

Every property has a mutant in `PROJECT.json`: an operator with the change of a
plausible bug, which TLC must then find. The operators stand before their
original and are marked "Mutant".

Fairness. `Trail` and `Solver` are sequential code that never waits: weak
fairness of the steps of a loop or call. `Ctl`: goroutines run; a running
search ticks, because every round of its loop propagates at least the guess and
`Tick` is called every `PropTick` propagations; timers fire; `select` chooses at
random among ready cases and so does not ignore an alarm for ever; Go's mutexes
pass to a starving waiter (strong fairness of taking `rmu`). That a search ends
by itself is not assumed, and `Wait` is not claimed to return. `Ax`: the same for
goroutines, timers and `select`; senders on a channel queue up (strong fairness
of `UnitSend`); a search ends by itself if its request has no limit; and a client
receives while a response waits, which `ax.go:255` asks of it. `Crisp`: handler and
reading goroutine run, channel operations that can happen do, and the server's solver
ends. Nothing is assumed of the user, who need not make another call.

## 4. The proofs

The theorems hold for every value of the constants that satisfies the assumptions
of the modules: `NVars` is a positive natural number, `ClauseSpace` and `AddSpace`
are sets of sequences of literals, `MaxClauses` and the other bounds are natural
numbers, `Clients` and `Readers` any sets. No property below is inductive; each proof
has a stronger invariant, one lemma per action, and a theorem for the invariant from
which the others follow. The inductive invariants were checked with TLC before they were
proved: `TrailInv` in the run `trail`, `AxInv`, `CtlInv`, `SvInv`, `CrispInv` and `StoreInv` over
all states of instances like those of the runs, `IInv` of the solver over random behaviours of a client
that adds any of 18 clauses over three variables and makes 12 calls, and so was
`ModelInv` (over 6 million states of a client with the three precautions). `HeapSound` is
checked in the run `store` on every state of its instance; of `WhyInv`, what it implies was
checked, `WhyIsCore` in the run `solver`.

### The trail

`TrailProofs` proves that `TrailSpec` implies each invariant of the run `trail` and
`Level0Permanent`. The solver goes on using its trail after an added clause became empty,
so the invariant is in two parts. `TrailCore` holds then too: types, `Consistent`,
`ReasonFirst`, `WatchesMatch` and the first three conjuncts below. `TrailInv` adds
what propagation means, `ConflictLast` and `WatchesCover`; it holds as long as there is no
empty clause. The conjuncts beyond the invariants of the run are

* `ModeOK`: what the loop variables mean in each mode;
* `LevelsOK`: levels lie in `0 .. Level`, each open level has a literal on the
  trail (so `Back` finds its target), and what is not yet propagated is of the
  current level (so undoing a level undoes it);
* `ClausesOK`: the variables of a clause are distinct;
* `WatchesCover`, the heart: a watched literal that is false is either `Unseen`
  (still to be propagated, later in the watch list being visited, or of a level
  about to be undone) or its clause is `TrueBelow` it: true by a literal whose
  level is not higher, so that the clause stays true as long as the watch is
  false. For an added clause both watched literals are covered, which gives
  `BcpComplete`. `Learn` does not choose its second watch by level, so for a
  learned clause only one of the two is covered after later backjumps; that is
  still enough for `NoFalsifiedClause`, and the reason why `CheckWatches`'
  third test would fail on learned clauses.

The lemmas under the actions say what `Assign` (`AssignFacts`, `AssignConsistent`,
`AssignLevels`, `AssignReasons`), swapping literals (`SwapKeeps`, `SwapWatches`,
`SwapCover`) and linking a clause (`LinkFacts`, `LinkMatch`) preserve.

### Conflict analysis

`DeriveProofs` proves of one call of `Derive`, from a conflict above level 0 and in a
state that satisfies the trail's invariant (`DerivedClause`): the clause follows from
the clauses; it is falsified; its first literal and no other is of the conflict's level;
the others are at most of the target level, which is below it. `Derive` is a fold
over the trail in which one step is a fold over a reason, and a recursive function over
depths for the minimisation. The library's induction theorems are out of the provers'
reach, so the induction is over what such a definition computes:
`FoldRun` shows, for any operator, that a fold is the last state of a run that takes one
element a step, and that what the base satisfies and each step keeps, the fold satisfies;
`IterExists` and `IterSteps` do the same for a recursive function of depth.
The walk's invariant is `WalkOK`: the marked literals not yet passed are counted
(`CountIs`), what was collected is false at lower levels (`AccOK`), and a model of the
formula makes one of the collected literals true or falsifies a marked literal of the
trail still to be passed (`Blames`). For the minimisation, `RdntFn` shows
that a literal dropped at any depth is false in every model that falsifies the
literals kept.

### The solver

`SolverProofs` proves, of `Spec` with any guesses, restarts and cancellations and any
client with the precaution "final": an answer -1 is right (`UnsatAnswersRight`), Test panics only if the
tested assumptions are contradictory (`PanicsRight`), a learned clause follows from
the added ones (`LearnedClausesFollow`), `CheckModel` never fails (`ModelsCheck`), the
derived literal is free when it is asserted (`UnitsAssert`), `backWithLates` is never
needed (`LatesNeverUsed`), scopes nest (`ScopesStayNested`), and the trail keeps its
invariant (`TrailInvInSolver`). `SolverInvAlways` puts the last of these together with the
type invariant; that a level is at most `NVars`, which bounds the marks of the analysis,
is the pigeonhole principle on the decisions (`LevelBound`). `ContractKept` says that each
step of the solver that changes the trail is a step of `TrailNext`: what is added
is free and at level 0, what is learned asserts, and a level is opened when everything is
propagated. The inductive invariant `IInv` has the two
properties of the answers, `NoFatal`, and one of two descriptions of the state:

* `Live`, without an empty clause. `TrailSound`: the trail's invariant, and added and
  learned clauses follow from the formula. `CallOK`: which call is running, and which
  loop it may have started. `LevelPlace`: where the level is relative to that of the
  scopes and of the assumptions. `ScopesOK`: the levels of the scopes are in order and
  the decisions of their levels (`DecWithin`) are assumptions of these scopes; it is what
  makes a conflict at such a level a contradiction to the assumptions. `AskedOK`: the
  same of the assumptions of the running call. `ConflictPlace`: where a conflict may be
  kept from one call to the next, and that a call which meets one still has a
  satisfiable formula. `DerivedPlace`: what has become of the clause last learned, up to
  its assertion below or above the level of the scopes.
* `Dead`, after a clause became empty: the formula is unsatisfiable, the level is 0,
  nothing is searched, and of the trail `TrailCore` holds (`TrailEmpty`); propagation may
  have stopped early, so `TrailInv` does not.

The theorems have the hypothesis `"final" \in Discipline`: a client that goes on after
the formula itself was found unsatisfiable meets the fatal error, as the run `forget`
shows. Nothing else is assumed of the client. In particular Solve between a failed Test
and its Untest answers -1 rightly; it is its answer 1 that may be wrong (section 5).

`ModelProofs` proves the other half: an answer 1 of Solve, Test or Untest is a model of
every clause as it was given to Add, not as it was stored, and of all assumptions, those
of the open Tests included (`SatAnswersRight`); and after a Test which did not fail the
assumptions of the open scopes stay true on the trail, through Solve and through deeper
Tests and back (`TestedStay`). When the search ends, every variable has a value and no stored
clause is falsified, which says nothing yet of the clauses that Add simplified, nor of
assumptions. `ModelInv` therefore adds to `IInv`:

* `FormulaStored`: for each clause given to Add, an added clause has only literals
  of it, or one of its literals is true at level 0, or it is a tautology. The simplification
  in `Cdb.Add` (`Simplified`) is where a literal could get lost.
* `ScopesTrue`: the assumptions of a scope are true, at a level at most that where the next
  scope begins (for the innermost: `endTestLevel`), so that no backjump above the level of
  the scopes and no Untest back to it takes one away.
* `AskedTrue`: an assumption of the running call waits in `assumes`, or is true at a level
  at most `assumptLevel`, to which the search goes back at the deepest.
* `Answered`: a Test that failed is `unresolved`, and no Back is running after an answer 1.

As in `SolverProofs` there is a second description, `DeadModel`, for the time after a clause
became empty: there is no answer 1 any more, and at most one scope is open. `ValuesKept` is
the lemma all steps share: what is true at a level that is not being undone stays
true. The hypothesis is that the client takes all three precautions, "final", "untest" and
"solve": without "solve" the property is false (section 5), and without "untest" the scopes opened
over a failed Test carry no true assumptions.

`WhyRight`: after an answer -1, what `Why` would return together with the added
clauses has no model. It needs "final" only. `WhyInv` adds to `IInv` that a returned
answer -1 left behind a conflict or a failed assumption which the trail refutes, with
decisions from the assumptions of the call and of the scopes alone, and that no later call is running that
could have changed it. `final` walks from the conflict through reasons; in the model
it is a recursive function of the number of steps. A reason's other literals stand earlier
on the trail, so after `NVars` steps the set of reached literals is closed under reasons;
if a model satisfied the clauses and all reached decisions, the earliest reached literal
that is false in it would have a reason whose other literals are all
false, which is no clause of that model.

### The clause store

`StoreProofs` proves of `Cgc`, for any clauses, activation variables and choice of the
clauses to collect: reasons are never removed (`ReasonsStayLive`), the watch lists are those of
the clauses not removed (`LiveStayWatched`), activation literals given back are clean
(`FreeLitsAreClean`), and no step but `Deactivate` takes a clause out of the problem, and that one
only clauses of its literal (`CollectionKeepsProblem`, an action property).

For the trail, a removed clause that is still in memory is as good as an empty one: nothing watches
it, it is no reason, and no property of the trail asks anything of it. `Tr` is an instance of
`TrailProofs` in which removed clauses are shown as empty (`Shown`). A step of `Cgc` which is
one of `Trail` is then one of `Tr` (`ShownFacts` and the lemmas after it), so `TrailInv`
holds after it by the lemmas of `TrailProofs`. What is left is what `Trail` does not have:

* Collecting. `Collects(f, K, L, O)` says that the clauses `K` are kept, renamed by `f` in
  trail, watches, reasons and lists, and all else is the same. `RenamedInv` shows that `TrailInv`
  survives such a step, whatever `f` is, as long as every reason is kept. `UnlinkCollects`
  shows that unlinking is such a step with `f` the identity, and `CompactCollects` that
  compaction is one with `f` the rank among the clauses kept; the latter needs that
  `relocateSlice`, applied to the reasons as to any list, leaves out nothing, that is, again
  that no reason is removed: otherwise the reasons of all higher variables would shift. `RankFacts` and
  `SubFacts` are about ranks and filtered sequences.
* Activation. `ActivateWith` adds a clause with a fresh literal, and `Deactivate` collects what
  `occs` names.

`StoreInv` adds to `Tr!TrailInv` that a live clause is added or learned, and, as long as
there are no activation literals, no clause is queued twice (`QueueOK`); that assigned variables alone
have reasons and decisions alone have none (`ReasonsOK`); that free literals are made, not active
and listed once (`ActiveOK`, `FreeOK`); and that activation literals occur only negated, only
while they are active, and exactly where the occurrences say (`LitsOK`, `OccsOK`). From `LitsOK`
and `OccsOK` comes that `Deactivate` removes no reason: all literals of a reason are assigned, and
each clause removed has a literal of the variable that is deactivated, which has no value.

The hypothesis is `"assigned" \in Discipline`. Without it `Deactivate` removes a reason
(section 5).

### Control, exchange, variable maps, CRISP

`GoroutineProofs`, of `Ctl`, for any number of Solves and readers: `rmu` has one holder
(`RmuHasOneHolder`), and a result handed out is of the Solve of the connection, none of
which is left running when it ends (`ResultsAreOwn`, an action property). `CtlInv`
says that only the last Solve is under way (`OneSolve`), who is in a method of `Ctl`
(`MuHeld`), which calls the connection allows (`ClientCall`, `StatsCall`), that a Solve is
under way exactly when somebody is there to take its result (`Connected`), and who holds
`rmu`, kind by kind (`RmuHeld`).

`GoroutineProofs`, of `Ax`, for any clients and capacity: units are free once, or run, or their response
is in the channel (`PoolPartitioned`); a response carries the data of its own request
(`ResponsesAreFit`); and the pool implements `Exchange` (`ExchangeImplemented`), step by
step, under the refinement mapping `pending <- Pending`, `stopped <- closed`. `AxInv` says where each unit
(`UnitPlaces`) and each request is (`RequestPlaces`: in one place only, so that it is
answered at most once), and what each goroutine has (`UnitWorks`, `ServeHas`).

`OuterProofs`, of `Sv`: the two maps stay inverse and what a variable is mapped to never changes while
they grow (`VarsStayInverse`, `VarsStay`). `SvInv` adds that the freed variables
are distinct, within the map, mapped to 0 and not in use.

`OuterProofs`, of `Crisp`, for any number of calls and solves: what a careful client sends
is what the handler expects when it takes it, and no answer is unread when another is
written (`ProtocolInStep`); what the client reads is of its own last solve
(`AnswersAreOwn`); and a running solver is only tested or stopped (`SolverLeftAlone`).
`CrispInv` describes the items under way, however many the client has buffered: each may
follow the one before it (`Neighbours`), the first fits what the handler is at
(`FirstFits`), the last what the client is at (`LastFits`), and only a client which waits
has sent what will be answered (`NoRequest`). From there on the two sides meet: what the
client waits for was asked last (`Pending`), the handler's solve is the client's last or the
one before (`Numbered`), an answer is alone on the connection and of the last solve
(`Answered`), a solve runs only while the client waits for it (`Runs`), and after a
solve, as long as nothing is added, assumed or reset, the handler takes queries
(`Fresh`). `Called` is what all calls of the client have in common, so that one lemma
(`CalledKeeps`) covers them; `TakenKeeps` and `AnsweredKeeps` do the same for the handler's
steps that answer nothing and those that answer.

### The guess heap

`OuterProofs` proves of `Guess`, for any number of variables and any clauses, that the heap
is one after every operation (`HeapStaysSound`). `GuessInv` is `HeapSound` with the types
and two more facts: the heap has no variable above `top`, since `growToVar` puts the new
ones behind it, and no variable above `top` is used. Five lemmas are about the loops, each
by an induction over the rounds that `Rounds` takes. `UpFacts`: if only the pair at `j` and
its parent may be out
of order, and what is below `j` is not hotter than that parent, then afterwards nothing
is. `DownFacts` is the same downwards, for the part of the heap from a given place on, so
that it serves `pop`, `Bump` and, place by place from the middle to the root,
`HeapifyFacts`. `PopFacts`: the hottest leaves, and the heap is whole again.
`PopFreeFacts`: what was popped before a free variable was found is assigned.
`PushAllFacts`: after the pushes of `ensureLitCap` each variable up to the used one is in
the heap; it rests on `WithVarFacts`, one push, and `GrowFacts`, the growth. `Bump`
calls `down` and then `up` at the position the variable had before: since heat only grows
`down` finds nothing to do, and scaling, which divides all heats, keeps their order.

### What is only model-checked

* Liveness (`LoopsTerminate`, `CallsReturn`, `StatsCloses`, `RequestsAnswered` and
  Crisp's): fairness and ENABLED are outside the prover.
* What recursive operators compute: the circuits, sorting networks and unrolling of
  `Circuit`, the codes of `Aiger` and the memory of `ClauseData`.
  The prover has no SMT backend in modules with a RECURSIVE operator.
* `MessagesArrive` of `Codec`: it is about powers of the word size and nested divisions
  by them, which the arithmetic of the provers does not reach.

## 5. What the checks found

Runs that show a violation:

* `forget`: a conflict at level 0 is forgotten by the next call
  (`s.go:646`). `Derive` at level 0 returns the literal `LitNull`, which is
  assigned, and the search that follows ends in `log.Fatalf`. A client is safe
  if it makes no further call after -1 without assumptions.
* `deadline`: the deadline of `Try` stays in force for later calls.
* `ax_stop`: Stop blocks the serving goroutine in cancelling a unit that has no
  request, contrary to `ax/ax.go:80`; units behind it are not cancelled.
* `crisp_stop`: Stop of a remote solve may take the result and then send a
  cancellation to a goroutine that has ended (`crisp/netsolve.go:42`).
* `aiger_read`: a gate that is simplified to a negated literal is read as its
  negation (`logic/aiger/aiger.go:685`).

A disagreement which a passing run shows: `CardSort.Less(b)` is true iff fewer than `b`
of the literals are true, where its document (`logic/card.go:65-66`) says "does not exceed
b". `LitsMean` has the meaning of the code, which is also that of
`logic/card_test.go:48-52`, and the run `outer` finds it for every bound; there
is no run that expects the violation of the other meaning, which differs for
every `b` from 0 to the number of literals.

Preconditions without which a property of a passing run does not hold:

* Solve between a failed Test and its Untest (without "solve" in `Discipline`)
  ignores the assumptions of that Test and may answer with a model in which one
  is false, though `s.go:562` says tested assumptions are never forgotten. So the
  hazard of `s.go:361`, that a failed Test leaves `endTestLevel` as it was, is listed
  without a property.
* Deactivating a literal that has a value of level 0 (without "assigned")
  removes its reason and breaks `ReasonsLive`. A recycled literal that is false at
  level 0 makes the next Activate panic. That there is no such literal is the
  client's doing, and what the property says of level 0 rests on it.
* `FilesMean` holds of the systems `AsciiCarries` and `BinaryCarries` describe.
  Both writers count every gate in the header and write those that are reachable,
  so a file of a system with another gate cannot be read back. `writeLit` writes
  true as 0, which is read as false; `forLit` writes both constants as 0. A text
  file's unknown initial value is accepted only if latches follow inputs in
  number. The binary writer writes initial value 0 for true and 1 for false
  (`aiger.go:399-402`), the reader reads 0 as false; it does not write the gates that
  only constraints need (`aiger.go:429-437`); and it takes the second conjunct for
  the one with the larger number, which holds only if gates were numbered in the
  order of the circuit: an input made after a latch is enough to break it.
* `AnswersMatch` and `OrderKept` hold for a client that asks for models and failed
  literals only of a solve that was neither ended nor followed by Add or Assume.
  An `<end>` that is answered with sat leaves the server in a state in which Model
  is out of order, and the client does not know; Value never looks whether its cached
  model is older than the last solve, a hazard (`crisp/client.go:259`) that no property
  covers.

Other observations from reading along: `minimize` can leave levels marked
(`derive.go:226`), which only makes the search for redundancy longer;
`backWithLates` never does more than return; after `C.Copy` the capacity of the
nodes is not the size of the hash table, so that a node can be made twice until the
table grows; `Chd.Bump` can carry heat into the learnt bit; `Cdb.Bot` and `S.x` are not
relocated by compaction; `CDat.CopyTo` does not copy the bump increment; `svWrap.Add`
passes literals on unmapped while Assume and Value map them, so that `SolveFits` of
module `Sv` does not hold; `Vars.Inner` first returns variable 0; `Eval64` leaves bit
63 of the constant unset; Client.Add ignores an error of `checkState`, and Model
returns no error for one; a handler that gives up leaves its solver running.

## 6. Not modelled

The planned modules are all there. Left out are: growth of the solver's arrays other than
those of the guess heap, `Copy` and `Reasons`; the errors of CRISP for items out of order
(`crisp/handler.go:155`, `handler.go:216`, `client.go:185`), which a careful client and the
handler never meet, as `OrderKept` shows; the Luby sequence; the accept loop of the CRISP server and the text of
its addresses; names, headers and characters of aiger files; the dimacs readers, which
work character by character and keep no state the solver depends on; generators,
benchmark runner and command line tools; statistics and tracing; the forwarding wrappers
`gini.go` and `inter`.

What could follow: `Cgc` and `Solver` in one state machine, to have activation and Test
scopes together.
