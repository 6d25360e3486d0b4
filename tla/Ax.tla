--------------------------------- MODULE Ax ---------------------------------
(***************************************************************************)
(* The assumption exchange of package ax: a pool of solvers (units) behind *)
(* three channels.  The goroutines are the clients, the serving goroutine  *)
(* of the pool and one goroutine for each request that a unit solves.      *)
(*                                                                         *)
(* reqChn, respChn and cancel have no buffer, so a send and its receive    *)
(* are one step of two goroutines; uRespChn holds one response.  The Solve *)
(* of a unit is controlled through Ctl: it decides at some time, Test sees *)
(* whether it has, and Stop ends it.                                       *)
(***************************************************************************)
EXTENDS Integers, Sequences, FiniteSets

CONSTANTS
  Cap,      \* how many units there may be
  Clients,  \* goroutines which use the exchange
  Flags,    \* the values of ReqFlag that clients ask for
  MaxReqs   \* bound on the requests generated

ASSUME CapAssumption == Cap \in Nat \ {0}
ASSUME FlagsAssumption == Flags \subseteq SUBSET {"model", "why"}
ASSUME MaxReqsAssumption == MaxReqs \in Nat

Units == 0 .. Cap - 1
Requests == [Id : 0 .. MaxReqs - 1, Flag : Flags, Limit : BOOLEAN]
NoReq == [Id |-> -1, Flag |-> {}, Limit |-> FALSE]
Results == {"sat", "unsat", "unknown"}
Data == [kind : {"none", "model", "why"}, of : -1 .. MaxReqs - 1]
NoData == [kind |-> "none", of |-> -1]
Responses == [Req : Requests, Who : Units, Res : Results, Ms : Data]
NoResp == [Req |-> NoReq, Who |-> 0, Res |-> "unknown", Ms |-> NoData]

VARIABLES
  count,     \* RequestGen.count
  held,      \* the request each client has and has not submitted
  calling,   \* whether a client is blocked in Ex
  closed,    \* whether Stop closed reqChn
  answered,  \* history: the requests whose response was handed out
  mpc,       \* where the serving goroutine is
  mreq,      \* the request in handleReq
  mresp,     \* the response in handleResp
  next,      \* the next unit to cancel, in shutdown
  nunits,    \* len(us)
  avail,     \* the units which are free
  uRespChn,  \* the channel from the units, as a sequence
  upc,       \* where the goroutine of a unit is
  ureq,      \* its request
  search,    \* what its Solve has found
  last,      \* Id of the request its solver solved last
  uresp      \* the response it sends

clientVars == <<held, calling, closed, answered>>
serveVars == <<mpc, mreq, mresp, next>>
unitVars == <<upc, ureq, search, last, uresp>>
axVars == <<count, clientVars, serveVars, nunits, avail, uRespChn, unitVars>>

Init ==
  /\ count = 0
  /\ held = [c \in Clients |-> NoReq] /\ calling = [c \in Clients |-> FALSE]
  /\ closed = FALSE /\ answered = {}
  /\ mpc = "select" /\ mreq = NoReq /\ mresp = NoResp /\ next = 0
  /\ nunits = 1 /\ avail = <<0>> /\ uRespChn = <<>>
  /\ upc = [u \in Units |-> "idle"] /\ ureq = [u \in Units |-> NoReq]
  /\ search = [u \in Units |-> "unknown"] /\ last = [u \in Units |-> -1]
  /\ uresp = [u \in Units |-> NoResp]

-----------------------------------------------------------------------------
(***************************************************************************)
(* The clients.  Ex blocks until an exchange; TryEx makes one or returns   *)
(* at once, in which case nothing changes.  A client whose request was not *)
(* taken because it got a response submits it later.                       *)
(***************************************************************************)

(* SetFlag and Limit take effect in the next request that is generated, so *)
(* they are part of this step.                                             *)
NewRequest(c, f, d) ==
  /\ ~ closed /\ ~ calling[c] /\ held[c] = NoReq /\ count < MaxReqs
  /\ held' = [held EXCEPT ![c] = [Id |-> count, Flag |-> f, Limit |-> d]]
  /\ count' = count + 1
  /\ UNCHANGED <<calling, closed, answered, serveVars, nunits, avail,
                 uRespChn, unitVars>>

Ex(c) ==
  /\ ~ closed /\ ~ calling[c]
  /\ calling' = [calling EXCEPT ![c] = TRUE]
  /\ UNCHANGED <<count, held, closed, answered, serveVars, nunits, avail, uRespChn, unitVars>>

(* A send on a closed channel panics, so a client calls Stop only while no *)
(* other one is in Ex with a request.                                      *)
Stop(c) ==
  /\ ~ closed /\ ~ calling[c]
  /\ \A d \in Clients : calling[d] => held[d] = NoReq
  /\ closed' = TRUE
  /\ UNCHANGED <<count, held, calling, answered, serveVars, nunits, avail, uRespChn, unitVars>>

-----------------------------------------------------------------------------
(***************************************************************************)
(* The serving goroutine.                                                  *)
(***************************************************************************)

(* A client in Ex or TryEx submits its request ... *)
Accept(c) ==
  /\ mpc = "select" /\ ~ closed /\ held[c] # NoReq
  /\ mreq' = held[c] /\ mpc' = "handle"
  /\ held' = [held EXCEPT ![c] = NoReq]
  /\ calling' = [calling EXCEPT ![c] = FALSE]
  /\ UNCHANGED <<count, closed, answered, mresp, next, nunits, avail, uRespChn, unitVars>>

(* handleResp, until it blocks in sending the response *)
TakeResp ==
  /\ uRespChn # <<>>
  /\ mresp' = Head(uRespChn) /\ uRespChn' = Tail(uRespChn)
  /\ avail' = Append(avail, Head(uRespChn).Who)
  /\ mpc' = "deliver"

(* ... or a unit has responded, in the select ... *)
SelectResp ==
  /\ mpc = "select" /\ TakeResp
  /\ UNCHANGED <<count, clientVars, mreq, next, nunits, unitVars>>

(* ... or in handleReq, which needs a free unit. *)
AwaitResp ==
  /\ mpc = "handle" /\ avail = <<>> /\ TakeResp
  /\ UNCHANGED <<count, clientVars, mreq, next, nunits, unitVars>>

(* Mutant: handleReq returns after it has passed on a response. *)
ReceiveReturns(c) ==
  /\ mpc = "deliver" /\ (calling[c] \/ ~ closed)
  /\ answered' = answered \cup {mresp.Req}
  /\ mresp' = NoResp
  /\ mpc' = "select"
  /\ calling' = [calling EXCEPT ![c] = FALSE]
  /\ UNCHANGED <<count, held, closed, mreq, next, nunits, avail, uRespChn, unitVars>>

(* A client in Ex or TryEx receives the response. *)
Receive(c) ==
  /\ mpc = "deliver" /\ (calling[c] \/ ~ closed)
  /\ answered' = answered \cup {mresp.Req}
  /\ mresp' = NoResp
  /\ mpc' = IF mreq = NoReq THEN "select" ELSE "handle"
  /\ calling' = [calling EXCEPT ![c] = FALSE]
  /\ UNCHANGED <<count, held, closed, mreq, next, nunits, avail, uRespChn, unitVars>>

(* getunit grows the pool when the last free unit is about to be used, by  *)
(* a copy of its solver.                                                   *)
MustGrow == nunits < Cap /\ Len(avail) = 1

(* Mutant: the unit that is taken stays available. *)
TakeKeeps(a) == a

(* All scores are 0, so the first free unit is taken; the last one takes   *)
(* its place.                                                              *)
Taken(a) == SubSeq([a EXCEPT ![1] = a[Len(a)]], 1, Len(a) - 1)

(* The part of handleReq behind the wait, with unit.handleReq: the solver  *)
(* is given the assumptions and a Solve and its goroutine are started.     *)
Dispatch ==
  /\ mpc = "handle" /\ avail # <<>>
  /\ LET u == avail[1]
         copied == IF MustGrow THEN [last EXCEPT ![nunits] = last[u]] ELSE last
     IN /\ nunits' = IF MustGrow THEN nunits + 1 ELSE nunits
        /\ avail' = Taken(IF MustGrow THEN Append(avail, nunits) ELSE avail)
        /\ upc' = [upc EXCEPT ![u] = "run"]
        /\ ureq' = [ureq EXCEPT ![u] = mreq]
        /\ last' = [copied EXCEPT ![u] = mreq.Id]
  /\ mreq' = NoReq /\ mpc' = "select"
  /\ UNCHANGED <<count, clientVars, mresp, next, uRespChn, search, uresp>>

(* The select receives the close of reqChn; shutdown then cancels one unit *)
(* after the other, which each have to be in their select.                 *)
SeeClosed ==
  /\ mpc = "select" /\ closed
  /\ mpc' = "shutdown"
  /\ UNCHANGED <<count, clientVars, mreq, mresp, next, nunits, avail, uRespChn, unitVars>>

Cancel ==
  /\ mpc = "shutdown" /\ next < nunits /\ upc[next] = "run"
  /\ upc' = [upc EXCEPT ![next] = "cancel"]
  /\ next' = next + 1
  /\ UNCHANGED <<count, clientVars, mpc, mreq, mresp, nunits, avail, uRespChn,
                 ureq, search, last, uresp>>

ShutdownDone ==
  /\ mpc = "shutdown" /\ next = nunits
  /\ mpc' = "over"
  /\ UNCHANGED <<count, clientVars, mreq, mresp, next, nunits, avail, uRespChn, unitVars>>

-----------------------------------------------------------------------------
(***************************************************************************)
(* The goroutine of a unit.                                                *)
(***************************************************************************)
Decide(u) ==
  /\ upc[u] \in {"run", "stop"} /\ search[u] = "unknown"
  /\ \E r \in {"sat", "unsat"} : search' = [search EXCEPT ![u] = r]
  /\ UNCHANGED <<count, clientVars, serveVars, nunits, avail, uRespChn, upc, ureq, last, uresp>>

(* The data of a response, read from the solver. *)
DataOf(u, r) ==
  CASE r = "sat" /\ "model" \in ureq[u].Flag -> [kind |-> "model", of |-> last[u]]
    [] r = "unsat" /\ "why" \in ureq[u].Flag -> [kind |-> "why", of |-> last[u]]
    [] OTHER -> NoData

(* unit.handleResult, until it blocks in sending the response *)
HandleResult(u, r) ==
  /\ uresp' = [uresp EXCEPT ![u] = [Req |-> ureq[u], Who |-> u, Res |-> r, Ms |-> DataOf(u, r)]]
  /\ upc' = [upc EXCEPT ![u] = "send"]
  /\ search' = [search EXCEPT ![u] = "unknown"]

(* The ticker: Test succeeds. *)
UnitTick(u) ==
  /\ upc[u] = "run" /\ search[u] # "unknown"
  /\ HandleResult(u, search[u])
  /\ UNCHANGED <<count, clientVars, serveVars, nunits, avail, uRespChn, ureq, last>>

(* Mutant: without a limit the alarm goes off at once. *)
AlarmAlways(u) ==
  /\ upc[u] = "run" /\ search[u] = "unknown"
  /\ upc' = [upc EXCEPT ![u] = "stop"]
  /\ UNCHANGED <<count, clientVars, serveVars, nunits, avail, uRespChn,
                 ureq, search, last, uresp>>

(* The alarm of a request with a limit: if Test fails, the Solve is told   *)
(* to stop, and what it still finds is ignored.  (If Test succeeds this is *)
(* UnitTick.)                                                              *)
UnitAlarm(u) ==
  /\ upc[u] = "run" /\ ureq[u].Limit /\ search[u] = "unknown"
  /\ upc' = [upc EXCEPT ![u] = "stop"]
  /\ UNCHANGED <<count, clientVars, serveVars, nunits, avail, uRespChn,
                 ureq, search, last, uresp>>

UnitStopped(u) ==
  /\ upc[u] = "stop"
  /\ HandleResult(u, "unknown")
  /\ UNCHANGED <<count, clientVars, serveVars, nunits, avail, uRespChn, ureq, last>>

UnitSend(u) ==
  /\ upc[u] = "send" /\ Len(uRespChn) < 1
  /\ uRespChn' = Append(uRespChn, uresp[u])
  /\ upc' = [upc EXCEPT ![u] = "idle"] /\ ureq' = [ureq EXCEPT ![u] = NoReq]
  /\ uresp' = [uresp EXCEPT ![u] = NoResp]
  /\ UNCHANGED <<count, clientVars, serveVars, nunits, avail, search, last>>

UnitCancelled(u) ==
  /\ upc[u] = "cancel"
  /\ upc' = [upc EXCEPT ![u] = "gone"] /\ ureq' = [ureq EXCEPT ![u] = NoReq]
  /\ search' = [search EXCEPT ![u] = "unknown"]
  /\ UNCHANGED <<count, clientVars, serveVars, nunits, avail, uRespChn, last, uresp>>

-----------------------------------------------------------------------------
ClientStep ==
  \E c \in Clients :
    \/ \E f \in Flags, d \in BOOLEAN : NewRequest(c, f, d)
    \/ Ex(c) \/ Stop(c)

ServeStep ==
  \/ \E c \in Clients : Accept(c) \/ Receive(c)
  \/ SelectResp \/ AwaitResp \/ Dispatch \/ SeeClosed \/ Cancel \/ ShutdownDone

UnitStep(u) ==
  \/ Decide(u) \/ UnitTick(u) \/ UnitAlarm(u) \/ UnitStopped(u) \/ UnitSend(u)
  \/ UnitCancelled(u)

Next == ClientStep \/ ServeStep \/ \E u \in Units : UnitStep(u)

(***************************************************************************)
(* Goroutines run; timers fire; Stop of Ctl returns; select chooses at     *)
(* random among ready cases; the senders on a channel queue up.  A search  *)
(* ends by itself, but this is assumed only of requests without a limit.   *)
(* A client receives while there is something to receive: it "agrees to    *)
(* the API" (ax.go:255).                                                   *)
(***************************************************************************)
Fairness ==
  /\ SF_axVars(SelectResp) /\ WF_axVars(AwaitResp) /\ WF_axVars(Dispatch)
  /\ SF_axVars(SeeClosed) /\ WF_axVars(Cancel) /\ WF_axVars(ShutdownDone)
  /\ WF_axVars(\E c \in Clients : Receive(c))
  /\ \A u \in Units :
       /\ WF_axVars(Decide(u) /\ ~ ureq[u].Limit)
       /\ WF_axVars(UnitTick(u) \/ UnitAlarm(u)) /\ WF_axVars(UnitStopped(u))
       /\ SF_axVars(UnitSend(u)) /\ WF_axVars(UnitCancelled(u))

Spec == Init /\ [][Next]_axVars /\ Fairness

-----------------------------------------------------------------------------
(***************************************************************************)
(* Properties.                                                             *)
(***************************************************************************)

(* The type invariant of the exchange: the pool never exceeds its capacity. *)
AxTypeOK ==
  /\ count \in 0 .. MaxReqs
  /\ held \in [Clients -> Requests \cup {NoReq}] /\ calling \in [Clients -> BOOLEAN]
  /\ closed \in BOOLEAN /\ answered \subseteq Requests
  /\ mpc \in {"select", "handle", "deliver", "shutdown", "over"}
  /\ mreq \in Requests \cup {NoReq} /\ mresp \in Responses \cup {NoResp}
  /\ nunits \in 1 .. Cap /\ next \in 0 .. nunits
  /\ avail \in Seq(0 .. nunits - 1)
  /\ uRespChn \in Seq(Responses) /\ Len(uRespChn) =< 1
  /\ upc \in [Units -> {"idle", "run", "stop", "send", "cancel", "gone"}]
  /\ ureq \in [Units -> Requests \cup {NoReq}] /\ search \in [Units -> Results]
  /\ last \in [Units -> -1 .. MaxReqs - 1]
  /\ uresp \in [Units -> Responses \cup {NoResp}]

Free(u) == {i \in DOMAIN avail : avail[i] = u}
InChannel(u) == {i \in DOMAIN uRespChn : uRespChn[i].Who = u}

(* "We always have atleast one non-nil free u in m.us until the client     *)
(* requests len(m.us) solves": requests wait only when the pool cannot     *)
(* grow any more.                                                          *)
FreeUntilCap == nunits < Cap => avail # <<>>

(* A unit is in one place: once in avail, or its goroutine runs, or its    *)
(* response is in the channel.  So getunit gives a request only to a       *)
(* solver that is not solving, and copies only such a solver, which it     *)
(* does without pausing it.                                                *)
PoolPartition ==
  /\ AxTypeOK /\ FreeUntilCap
  /\ \A u \in 0 .. nunits - 1 :
       Cardinality(Free(u)) + Cardinality(InChannel(u)) = IF upc[u] = "idle" THEN 1 ELSE 0

(* On its way to the client a response has the result and the data of its  *)
(* own request, though the data is read from a solver that serves one      *)
(* request after the other, and it is undecided only if there was a limit. *)
ResponsesFit ==
  \A a \in {uresp[u] : u \in Units} \cup {uRespChn[i] : i \in DOMAIN uRespChn} \cup {mresp} :
    a # NoResp =>
      /\ a.Res = "unknown" => a.Req.Limit
      /\ a.Ms.kind # "none" => a.Ms.of = a.Req.Id
      /\ a.Ms.kind = "model" <=> a.Res = "sat" /\ "model" \in a.Req.Flag
      /\ a.Ms.kind = "why" <=> a.Res = "unsat" /\ "why" \in a.Req.Flag

(* The accepted requests without a response, wherever they are. *)
Pending ==
  ({mreq, mresp.Req} \cup {ureq[u] : u \in Units} \cup {uRespChn[i].Req : i \in DOMAIN uRespChn})
    \ {NoReq}

E == INSTANCE Exchange WITH pending <- Pending, stopped <- closed

(* The pool is an exchange: every accepted request is answered at most     *)
(* once, none is lost before Stop, and no more than Cap + 1 are accepted   *)
(* at a time.                                                              *)
ImplementsExchange == E!Spec

(* The accepted requests are all answered in the end (at most MaxReqs are  *)
(* submitted), unless the exchange is stopped: no response and no free     *)
(* unit is lost, whatever mix of limits, polling and blocking clients.     *)
RequestsAnswered == []<>(closed \/ Pending = {})

(* "When the ax receives a channel close on the request channel from the   *)
(* client, it immediately shuts down the u's": after Stop no goroutine of  *)
(* the exchange goes on for ever.                                          *)
StopEnds == closed ~> (mpc = "over" /\ \A u \in Units : upc[u] \in {"idle", "gone"})
=============================================================================
