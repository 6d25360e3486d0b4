------------------------------- MODULE Crisp --------------------------------
(***************************************************************************)
(* A CRISP connection: crisp.Client, the GoSolve connection netsolve, and  *)
(* the Handler which serves the client with a solver of its own.           *)
(*                                                                         *)
(* The connection is a FIFO sequence of items in each direction: protocol  *)
(* points, and data.  A literal list up to its terminating 0 is the item   *)
(* "lits", a clause of an <add> is "cls"; a model or a list of failed      *)
(* literals carries the number of the solve it comes from.  A client call  *)
(* puts its items on the connection at once: those the client buffers are  *)
(* flushed before it waits for an answer.  The solver behind the handler   *)
(* is external to it: it runs, and ends with sat or unsat.                 *)
(*                                                                         *)
(* The client has a goroutine of the user, and the one of GoSolve, which   *)
(* meet at the unbuffered channels cancel and resChan.                     *)
(***************************************************************************)
EXTENDS Integers, Sequences, FiniteSets

CONSTANTS MaxCalls,   \* bound on the calls of the client
          MaxSolves   \* bound on those of Solve and GoSolve

ASSUME BoundsAssumption == MaxCalls \in Nat /\ MaxSolves \in Nat

VARIABLES
  c2s, s2c,  \* the items under way to the server and to the client
  cproto,    \* Client.proto
  lastSat,   \* Client.lastSat
  model,     \* Client.model, as the number of the solve it is of, or 0
  wire,      \* what the client reads: "idle", "solve", "deliver", or an answer
  sentEnd,   \* sentEnd of Client.Solve
  user,      \* where the user's goroutine is
  result,    \* what Client.Solve returned in the goroutine of GoSolve
  hpc,       \* where the handler is: "main", "adding", "closed"
  sproto,    \* Handler.proto
  solver,    \* the solve of Handler.solveConn
  calls,     \* how many calls were made
  solves,    \* how many of them were solves
  fresh,     \* nothing was added, assumed or reset since the last solve
  ended,     \* the last solve was ended by the client
  careful,   \* the client kept to the protocol, and see Value
  got        \* what was last read or given to the user, and what it was for

wireVars   == <<c2s, s2c>>
clientVars == <<cproto, lastSat, model, wire, sentEnd, user, result>>
serverVars == <<hpc, sproto, solver>>
ghostVars  == <<calls, solves, fresh, ended, careful, got>>
vars       == <<wireVars, clientVars, serverVars, ghostVars>>

Nothing == [kind |-> "none", id |-> 0, for |-> 0]

Init ==
  /\ c2s = <<>> /\ s2c = <<>>
  /\ cproto = "Unknown" /\ lastSat = 0 /\ model = 0
  /\ wire = "idle" /\ sentEnd = FALSE /\ user = "idle" /\ result = 0
  /\ hpc = "main" /\ sproto = "Unknown"
  /\ solver = [id |-> 0, running |-> FALSE, res |-> 0]
  /\ calls = 0 /\ solves = 0 /\ fresh = FALSE /\ ended = FALSE
  /\ careful = TRUE /\ got = Nothing

Op(p)    == [op |-> p, id |-> 0]
Ans(p, i) == [op |-> p, id |-> i]

-----------------------------------------------------------------------------
(***************************************************************************)
(* The client.                                                             *)
(***************************************************************************)
(* Mutant: the list of clauses is not ended. *)
EntersNoEnd(p) == <<Op(p)>>

(* Client.checkState: a list of clauses is ended before the next op. *)
Enters(p) == (IF cproto = "Add" THEN <<Op("End")>> ELSE <<>>) \o <<Op(p)>>

Call == user = "idle" /\ calls < MaxCalls /\ calls' = calls + 1

(* A call which the server does not answer. *)
Send(p, data) ==
  /\ Call
  /\ c2s' = c2s \o Enters(p) \o data /\ cproto' = p
  /\ fresh' = FALSE
  /\ UNCHANGED <<s2c, lastSat, model, wire, sentEnd, result, serverVars, solves, ended, careful, got>>

Add ==
  \/ cproto # "Add" /\ Send("Add", <<Op("cls")>>) /\ UNCHANGED user
  \/ /\ cproto = "Add" /\ Call
     /\ c2s' = Append(c2s, Op("cls"))
     /\ fresh' = FALSE
     /\ UNCHANGED <<s2c, clientVars, serverVars, solves, ended, careful, got>>

Assume == Send("Assume", <<Op("lits")>>) /\ UNCHANGED user

Quit == Send("Quit", <<>>) /\ user' = "gone"

Reset ==
  /\ Call
  /\ c2s' = c2s \o Enters("Reset") /\ cproto' = "Unknown"
  /\ fresh' = FALSE
  /\ UNCHANGED <<s2c, lastSat, model, wire, sentEnd, user, result, serverVars,
                 solves, ended, careful, got>>

(* A call which waits for the answer w. *)
Request(p, data, w) ==
  /\ Call
  /\ c2s' = c2s \o Enters(p) \o data /\ cproto' = p
  /\ wire' = w /\ user' = "call"
  /\ UNCHANGED <<s2c, lastSat, model, sentEnd, result, serverVars, solves, fresh, ended, got>>

GetExts == Request("Ext", <<>>, "exts") /\ UNCHANGED careful

(* What the client must see to before it asks for a model or for failed    *)
(* assumptions: that the last solve was not followed by an <add> or an     *)
(* <assume>, nor ended by an <end> from the client.                        *)
Asks == careful' = (careful /\ fresh /\ ~ ended)

Model == lastSat = 1 /\ Request("Model", <<>>, "model") /\ Asks

ModelFor == lastSat = 1 /\ Request("ModelFor", <<Op("lits")>>, "modelfor") /\ Asks

Why == lastSat = -1 /\ Request("Failed", <<>>, "failed") /\ Asks

WhySelect == lastSat = -1 /\ Request("FailedFor", <<Op("lits")>>, "failed") /\ Asks

(* Value asks for a model only if it has none: it keeps the first one. *)
Value ==
  \/ model = 0 /\ Model
  \/ /\ model # 0 /\ Call
     /\ careful' = (careful /\ fresh /\ model = solves)
     /\ got' = [kind |-> "model", id |-> model, for |-> solves]
     /\ UNCHANGED <<wireVars, clientVars, serverVars, solves, fresh, ended>>

StartSolve(u) ==
  /\ Call /\ solves < MaxSolves
  /\ c2s' = c2s \o Enters("Solve") /\ cproto' = "Solve"
  /\ wire' = "solve" /\ sentEnd' = FALSE /\ user' = u
  /\ solves' = solves + 1 /\ fresh' = TRUE /\ ended' = FALSE
  /\ UNCHANGED <<s2c, lastSat, model, result, serverVars, careful, got>>

Solve   == StartSolve("call")
GoSolve == StartSolve("holds")

Reading(w) == wire = w /\ s2c # <<>>

SatOf(p) == CASE p = "Sat" -> 1 [] p = "Unsat" -> -1 [] OTHER -> 0

(* Client.Solve returns, to its caller or to the goroutine of GoSolve. *)
SolveReturns(r, next) ==
  /\ result' = r
  /\ IF user = "call" THEN wire' = "idle" /\ user' = next
                      ELSE wire' = "deliver" /\ UNCHANGED user

ReadResult ==
  /\ Reading("solve") /\ Head(s2c).op \in {"Sat", "Unsat", "End"}
  /\ s2c' = Tail(s2c)
  /\ lastSat' = SatOf(Head(s2c).op)
  /\ got' = [kind |-> Head(s2c).op, id |-> Head(s2c).id, for |-> solves]
  /\ SolveReturns(lastSat', "idle")
  /\ UNCHANGED <<c2s, cproto, model, sentEnd, serverVars, calls, solves, fresh, ended, careful>>

(* An <unknown>, when nobody is sending on cancel. *)
ReadUnknown ==
  /\ Reading("solve") /\ Head(s2c).op = "Unknown" /\ ~ sentEnd /\ user # "stop"
  /\ s2c' = Tail(s2c)
  /\ c2s' = Append(c2s, Op("Continue"))
  /\ UNCHANGED <<clientVars, serverVars, ghostVars>>

(* An <unknown>, when Stop is sending on cancel. *)
ReadCancel ==
  /\ Reading("solve") /\ Head(s2c).op = "Unknown" /\ ~ sentEnd
  /\ user = "stop"
  /\ s2c' = Tail(s2c)
  /\ c2s' = Append(c2s, Op("End"))
  /\ sentEnd' = TRUE /\ user' = "stopRecv" /\ ended' = TRUE
  /\ UNCHANGED <<cproto, lastSat, model, wire, result, serverVars, calls, solves, fresh, careful, got>>

(* Mutant: the end of the connection is not an error. *)
ReadNoEof ==
  /\ wire \notin {"idle", "deliver"}
  /\ s2c # <<>> /\ Head(s2c).op = "Error" /\ s2c' = Tail(s2c)
  /\ IF wire = "solve" THEN SolveReturns(0, "gone")
     ELSE wire' = "idle" /\ user' = "gone" /\ UNCHANGED result
  /\ UNCHANGED <<c2s, cproto, lastSat, model, sentEnd, serverVars, ghostVars>>

(* An <error> or the end of the connection: the caller gets an error, and  *)
(* gives up.                                                               *)
ReadFailure ==
  /\ wire \notin {"idle", "deliver"}
  /\ \/ s2c # <<>> /\ Head(s2c).op = "Error" /\ s2c' = Tail(s2c)
     \/ s2c = <<>> /\ hpc = "closed" /\ UNCHANGED s2c
  /\ IF wire = "solve" THEN SolveReturns(0, "gone")
     ELSE wire' = "idle" /\ user' = "gone" /\ UNCHANGED result
  /\ UNCHANGED <<c2s, cproto, lastSat, model, sentEnd, serverVars, ghostVars>>

(* The answer to a call; a model is kept for Value. *)
ReadAnswer ==
  /\ wire \in {"model", "modelfor", "failed", "exts"} /\ s2c # <<>> /\ Head(s2c).op # "Error"
  /\ s2c' = Tail(s2c)
  /\ got' = [kind |-> Head(s2c).op, id |-> Head(s2c).id,
             for |-> IF wire = "exts" THEN 0 ELSE solves]
  /\ model' = IF wire = "model" THEN Head(s2c).id ELSE model
  /\ wire' = "idle" /\ user' = "idle"
  /\ UNCHANGED <<c2s, cproto, lastSat, sentEnd, result, serverVars,
                 calls, solves, fresh, ended, careful>>

(***************************************************************************)
(* netsolve.  A user who has the result no longer uses the connection.     *)
(***************************************************************************)
TakeResult(u) == user' = u /\ wire' = "idle"

NetUnchanged == UNCHANGED <<wireVars, cproto, lastSat, model, sentEnd, result, serverVars, ghostVars>>

(* Test when the result is there; otherwise it changes nothing. *)
NetTest == user = "holds" /\ wire = "deliver" /\ TakeResult("idle") /\ NetUnchanged

NetTry == user = "holds" /\ user' = "try" /\ UNCHANGED wire /\ NetUnchanged

TryResult == user = "try" /\ wire = "deliver" /\ TakeResult("idle") /\ NetUnchanged

(* Mutant: Try gives up without stopping the solve. *)
TryReturns == user = "try" /\ user' = "idle" /\ UNCHANGED wire /\ NetUnchanged

TryTimeout == user = "try" /\ user' = "stop" /\ UNCHANGED wire /\ NetUnchanged

NetStop == user = "holds" /\ user' = "stop" /\ UNCHANGED wire /\ NetUnchanged

(* Stop finds the result before it could cancel, and then sends on cancel  *)
(* all the same: the goroutine which receives from cancel has ended.       *)
StopResult == user = "stop" /\ wire = "deliver" /\ TakeResult("stopSend") /\ NetUnchanged

StopReceive == user = "stopRecv" /\ wire = "deliver" /\ TakeResult("idle") /\ NetUnchanged

NetSolve == NetTest \/ NetTry \/ TryResult \/ TryTimeout \/ NetStop \/ StopResult \/ StopReceive

ClientRead == ReadResult \/ ReadUnknown \/ ReadCancel \/ ReadFailure \/ ReadAnswer

ClientCall ==
  \/ Add \/ Assume \/ Solve \/ GoSolve \/ Model \/ ModelFor \/ Value \/ Why
  \/ WhySelect \/ GetExts \/ Reset \/ Quit

-----------------------------------------------------------------------------
(***************************************************************************)
(* The server's handler of the connection, Handler.Crisp.                  *)
(***************************************************************************)
Next1 == c2s[1].op

Receives(p) == hpc = "main" /\ c2s # <<>> /\ Next1 = p

(* The handler consumes n items and answers with a. *)
Handle(n, a) ==
  /\ Len(c2s) >= n
  /\ c2s' = SubSeq(c2s, n + 1, Len(c2s)) /\ s2c' = s2c \o a
  /\ UNCHANGED <<clientVars, ghostVars>>

(* Handler.Error, and the cleanup after an error or a <quit>: the          *)
(* connection is closed, and a running solve is left to itself.            *)
Close(n, a) == Handle(n, a) /\ hpc' = "closed" /\ sproto' = "Unknown" /\ UNCHANGED solver

Stays(p) == hpc' = "main" /\ sproto' = p

HandleAdd ==
  /\ Receives("Add") /\ Handle(1, <<>>)
  /\ hpc' = "adding" /\ sproto' = "Add" /\ UNCHANGED solver

HandleClause ==
  /\ hpc = "adding" /\ c2s # <<>> /\ Next1 = "cls"
  /\ Handle(1, <<>>) /\ UNCHANGED serverVars

HandleAddEnd ==
  /\ hpc = "adding" /\ c2s # <<>> /\ Next1 = "End"
  /\ Handle(1, <<>>) /\ hpc' = "main" /\ UNCHANGED <<sproto, solver>>

HandleAssume == Receives("Assume") /\ Handle(2, <<>>) /\ Stays("Assume") /\ UNCHANGED solver

(* Handler.handleStep and sendRes: the answer is what Test of the solve    *)
(* says, <unknown> while it runs.                                          *)
StepAnswer(s) ==
  <<Ans(CASE s.res = 1 -> "Sat" [] s.res = -1 -> "Unsat" [] OTHER -> "Unknown", s.id)>>

HandleSolve ==
  /\ Receives("Solve") /\ Stays("Solve")
  /\ \E r \in {-1, 0, 1} :
       LET s == [id |-> solver.id + 1, running |-> r = 0, res |-> r]
       IN  solver' = s /\ Handle(1, StepAnswer(s))

HandleContinue ==
  /\ Receives("Continue")
  /\ sproto = "Solve" /\ Stays("Solve") /\ Handle(1, StepAnswer(solver)) /\ UNCHANGED solver

(* Mutant: the solve is not stopped. *)
HandleEndRuns ==
  /\ Receives("End") /\ sproto = "Solve" /\ Stays("End")
  /\ Handle(1, <<Ans(CASE solver.res = 1 -> "Sat" [] solver.res = -1 -> "Unsat"
                     [] OTHER -> "End", solver.id)>>)
  /\ UNCHANGED solver

(* Handler.handleEnd stops the solve, which may have ended already. *)
HandleEnd ==
  /\ Receives("End") /\ sproto = "Solve" /\ Stays("End")
  /\ Handle(1, <<Ans(CASE solver.res = 1 -> "Sat" [] solver.res = -1 -> "Unsat"
                     [] OTHER -> "End", solver.id)>>)
  /\ solver' = [solver EXCEPT !.running = FALSE]

(* The four queries of the last solve. *)
Query(p, n, a) == Receives(p) /\ sproto = "Solve" /\ Handle(n, <<a>>) /\ UNCHANGED serverVars

HandleModel == Query("Model", 1, Ans("model", solver.id))
HandleModelFor == Query("ModelFor", 2, Ans("model", solver.id))
HandleFailed == Query("Failed", 1, Ans("failed", solver.id))
HandleFailedFor == Query("FailedFor", 2, Ans("failed", solver.id))

HandleExt == Receives("Ext") /\ Handle(1, <<Ans("exts", 0)>>) /\ UNCHANGED serverVars

HandleReset == Receives("Reset") /\ Handle(1, <<>>) /\ Stays("Unknown") /\ UNCHANGED solver

HandleQuit == Receives("Quit") /\ Close(1, <<>>)

(* An op which is out of order closes the connection, a query with <error>. *)
OutOfOrder ==
  /\ hpc = "main" /\ c2s # <<>> /\ sproto # "Solve"
  /\ \/ Next1 \in {"Continue", "End"} /\ Close(1, <<>>)
     \/ /\ Next1 \in {"Model", "ModelFor", "Failed", "FailedFor"}
        /\ Close(1, <<Ans("Error", 0)>>)

(* The solve behind the handler ends. *)
SolverEnds ==
  /\ solver.running
  /\ \E r \in {-1, 1} : solver' = [solver EXCEPT !.running = FALSE, !.res = r]
  /\ UNCHANGED <<wireVars, clientVars, hpc, sproto, ghostVars>>

(* The connection breaks: what is under way is lost. *)
Cut ==
  /\ hpc # "closed"
  /\ hpc' = "closed" /\ sproto' = "Unknown" /\ c2s' = <<>> /\ s2c' = <<>>
  /\ UNCHANGED <<clientVars, solver, ghostVars>>

HandlerStep ==
  \/ HandleAdd \/ HandleClause \/ HandleAddEnd \/ HandleAssume \/ HandleSolve
  \/ HandleContinue \/ HandleEnd \/ HandleModel \/ HandleModelFor \/ HandleFailed
  \/ HandleFailedFor \/ HandleExt \/ HandleReset \/ HandleQuit \/ OutOfOrder

Next == ClientCall \/ ClientRead \/ NetSolve \/ HandlerStep \/ SolverEnds \/ Cut

(* The handler and the client's reads go on, and a solve ends; a user who  *)
(* holds a connection takes what it gives.                                 *)
Fairness ==
  /\ WF_vars(HandlerStep) /\ WF_vars(ClientRead) /\ WF_vars(SolverEnds)
  /\ WF_vars(TryResult \/ TryTimeout \/ StopResult \/ StopReceive)

Spec == Init /\ [][Next]_vars /\ Fairness

-----------------------------------------------------------------------------
Queries == {"Model", "ModelFor", "Failed", "FailedFor"}

(* The client and the server agree on where the protocol is: what a client *)
(* sends in good order arrives when the handler takes it, and never shuts  *)
(* the connection; and nothing is unread when an answer is written, as the *)
(* one buffer of vu32io needs it.                                          *)
OrderKept ==
  careful /\ c2s # <<>> =>
    /\ s2c = <<>>
    /\ hpc = "main" =>
         /\ Next1 \notin {"cls", "lits"}
         /\ Next1 \in Queries \cup {"Continue", "End"} => sproto = "Solve"
    /\ hpc = "adding" => Next1 \in {"cls", "End"}

(* A result, a model or failed literals are those of the last solve the    *)
(* client asked for, however solves were ended.                            *)
AnswersMatch == careful => got.id = got.for

(* While a solve runs the handler does nothing with the solver but test or *)
(* stop it: the other methods of the solver would wait for the end of the  *)
(* solve or race with it.                                                  *)
QuietSolver ==
  solver.running /\ hpc # "closed" =>
    sproto = "Solve" /\ (c2s # <<>> => Next1 \in {"Continue", "End"})

(* A call which waits for the server comes to an end, with an answer or    *)
(* when the connection breaks.                                             *)
RequestsAnswered == (wire \notin {"idle", "deliver"}) ~> (wire \in {"idle", "deliver"})

(* Stop "stops the underlying Solve() call and returns the result".        *)
StopReturns == (user = "stop") ~> (user \in {"idle", "gone"})
=============================================================================
