-------------------------------- MODULE Ctl ---------------------------------
(***************************************************************************)
(* The control of a Solve that runs in a goroutine of its own: xo.Ctl with *)
(* S.GoSolve, S.Solve's locks and ticks, S.Try's deadline, and the readers *)
(* of the solver's data (S.Copy, S.ReadStats).                             *)
(*                                                                         *)
(* The goroutines: one for each Solve, the client which calls the methods  *)
(* of Ctl, the goroutine of TryStats, and readers.  The channels cResult   *)
(* and cStopOrPause have no buffer, so a send and its receive are one step *)
(* of two goroutines.  Tick receives only from a goroutine that is already *)
(* waiting to send; when there is none it changes nothing.                 *)
(*                                                                         *)
(* The client keeps to the documented contract: one call at a time, no     *)
(* call on a connection whose result was taken, Unpause after a successful *)
(* Pause before anything else.                                             *)
(***************************************************************************)
EXTENDS Naturals

CONSTANTS
  MaxSolves,  \* bound on the Solves started
  Readers     \* goroutines which copy the solver or read its statistics

ASSUME MaxSolvesAssumption == MaxSolves \in Nat

Solves == 1 .. MaxSolves
Callers == {"client", "stats"}  \* the goroutines which call methods of Ctl

VARIABLES
  gmu, rmu,  \* S.gmu, S.rmu: locked or not
  mu,        \* Ctl.mu: who holds it
  spc,       \* where each Solve is
  sres,      \* what it returns
  started,   \* how many Solves were started
  deadline,  \* S.deadline: unset, in the future or past
  pc,        \* where the call of each caller is
  op,        \* the method it calls
  rc,        \* where the goroutine of TryStats is
  rpc,       \* where each reader is
  conn,      \* what the client may do with the connection
  got        \* the last result the client was given: which Solve, and what

locks == <<gmu, rmu>>
solve == <<spc, sres, started>>
ctlVars == <<gmu, rmu, mu, spc, sres, started, deadline, pc, op, rc, rpc, conn, got>>

NoResult == [of |-> 0, val |-> "none"]

CtlInit ==
  /\ gmu = FALSE /\ rmu = FALSE /\ mu = "none"
  /\ spc = [i \in Solves |-> "off"] /\ sres = [i \in Solves |-> "none"]
  /\ started = 0 /\ deadline = "unset"
  /\ pc = [p \in Callers |-> "idle"] /\ op = [p \in Callers |-> "none"]
  /\ rc = "off" /\ rpc = [r \in Readers |-> "idle"]
  /\ conn = "none" /\ got = NoResult

-----------------------------------------------------------------------------
(***************************************************************************)
(* A Solve: S.lock, the search, S.unlock, and the send of the result.      *)
(***************************************************************************)
To(i, l) == spc' = [spc EXCEPT ![i] = l]

SolveLockG(i) ==
  /\ spc[i] = "begin" /\ ~ gmu
  /\ gmu' = TRUE /\ To(i, "lock")
  /\ UNCHANGED <<rmu, mu, sres, started, deadline, pc, op, rc, rpc, conn, got>>

SolveLockR(i) ==
  /\ spc[i] = "lock" /\ ~ rmu
  /\ rmu' = TRUE /\ To(i, "run")
  /\ UNCHANGED <<gmu, mu, sres, started, deadline, pc, op, rc, rpc, conn, got>>

SolveEnds(i, r) == To(i, "done") /\ sres' = [sres EXCEPT ![i] = r]

(* The search decides ... *)
SolveAnswers(i) ==
  /\ spc[i] = "run"
  /\ \E r \in {"sat", "unsat"} : SolveEnds(i, r)
  /\ UNCHANGED <<locks, mu, started, deadline, pc, op, rc, rpc, conn, got>>

(* ... or finds the deadline passed ... *)
SolveDeadline(i) ==
  /\ spc[i] = "run" /\ deadline = "past"
  /\ SolveEnds(i, "unknown")
  /\ UNCHANGED <<locks, mu, started, deadline, pc, op, rc, rpc, conn, got>>

(* Mutant: Tick goes on although it was told to end. *)
TickGoesOn(i, p) ==
  /\ spc[i] = "run" /\ pc[p] = "stop"
  /\ pc' = [pc EXCEPT ![p] = "await"]
  /\ UNCHANGED <<locks, mu, solve, deadline, op, rc, rpc, conn, got>>

(* ... or Tick receives true from a caller in stop, and ends it, ... *)
TickStop(i, p) ==
  /\ spc[i] = "run" /\ pc[p] = "stop"
  /\ SolveEnds(i, "unknown")
  /\ pc' = [pc EXCEPT ![p] = "await"]
  /\ UNCHANGED <<locks, mu, started, deadline, op, rc, rpc, conn, got>>

(* Mutant: Tick goes on instead of waiting to be unpaused. *)
TickNoWait(i, p) ==
  /\ spc[i] = "run" /\ pc[p] = "pause"
  /\ pc' = [pc EXCEPT ![p] = "unlockR"]
  /\ UNCHANGED <<locks, mu, solve, deadline, op, rc, rpc, conn, got>>

(* ... or false from a caller in Pause, and waits to be unpaused. *)
TickPause(i, p) ==
  /\ spc[i] = "run" /\ pc[p] = "pause"
  /\ To(i, "paused")
  /\ pc' = [pc EXCEPT ![p] = "unlockR"]
  /\ UNCHANGED <<locks, mu, sres, started, deadline, op, rc, rpc, conn, got>>

SolveUnlockG(i) ==
  /\ spc[i] = "done"
  /\ gmu' = FALSE /\ To(i, "unlock")
  /\ UNCHANGED <<rmu, mu, sres, started, deadline, pc, op, rc, rpc, conn, got>>

SolveUnlockR(i) ==
  /\ spc[i] = "unlock"
  /\ rmu' = FALSE /\ To(i, "send")
  /\ UNCHANGED <<gmu, mu, sres, started, deadline, pc, op, rc, rpc, conn, got>>

-----------------------------------------------------------------------------
(***************************************************************************)
(* The methods of Ctl.  A call first waits for Ctl.mu ("want"); then pc is *)
(* the operation the method blocks in.                                     *)
(***************************************************************************)
Ask(p, o) ==
  /\ pc' = [pc EXCEPT ![p] = "want"]
  /\ op' = [op EXCEPT ![p] = o]

Lock(p) ==
  /\ pc[p] = "want" /\ mu = "none"
  /\ mu' = p /\ pc' = [pc EXCEPT ![p] = op[p]]
  /\ UNCHANGED <<locks, solve, deadline, op, rc, rpc, conn, got>>

Leave(p) ==
  /\ mu' = "none"
  /\ pc' = [pc EXCEPT ![p] = "idle"] /\ op' = [op EXCEPT ![p] = "none"]

(* Stop, Test, Try, Wait and Pause take the result if there is one. *)
TakesResult == {"stop", "await", "test", "try", "wait", "pause"}

TakeResult(p, i) ==
  /\ pc[p] \in TakesResult /\ spc[i] = "send"
  /\ To(i, "off")
  /\ Leave(p)
  /\ got' = [of |-> i, val |-> sres[i]]
  /\ IF p = "client" THEN conn' = "none" /\ rc' = rc ELSE conn' = conn /\ rc' = "last"
  /\ UNCHANGED <<locks, sres, started, deadline, rpc>>

TestNothing ==
  /\ pc["client"] = "test" /\ \A i \in Solves : spc[i] # "send"
  /\ Leave("client")
  /\ UNCHANGED <<locks, solve, deadline, rc, rpc, conn, got>>

(* Mutant: Try gives up without stopping the Solve. *)
TryGivesUp ==
  /\ pc["client"] = "try"
  /\ Leave("client") /\ conn' = "none"
  /\ UNCHANGED <<locks, solve, deadline, rc, rpc, got>>

TryAlarm ==
  /\ pc["client"] = "try"
  /\ pc' = [pc EXCEPT !["client"] = "stop"]
  /\ UNCHANGED <<locks, mu, solve, deadline, op, rc, rpc, conn, got>>

PauseUnlock(p) ==
  /\ pc[p] = "unlockR"
  /\ rmu' = FALSE
  /\ Leave(p)
  /\ IF p = "client" THEN conn' = "paused" /\ rc' = rc ELSE conn' = conn /\ rc' = "read"
  /\ UNCHANGED <<gmu, solve, deadline, rpc, got>>

UnpauseLock(p) ==
  /\ pc[p] = "unpause" /\ ~ rmu
  /\ rmu' = TRUE /\ pc' = [pc EXCEPT ![p] = "resume"]
  /\ UNCHANGED <<gmu, mu, solve, deadline, op, rc, rpc, conn, got>>

Resume(p, i) ==
  /\ pc[p] = "resume" /\ spc[i] = "paused"
  /\ To(i, "run")
  /\ Leave(p)
  /\ IF p = "client" THEN conn' = "open" /\ rc' = rc ELSE conn' = conn /\ rc' = "select"
  /\ UNCHANGED <<locks, sres, started, deadline, rpc, got>>

-----------------------------------------------------------------------------
(***************************************************************************)
(* The goroutine of Ctl.TryStats.  Its select takes the result without     *)
(* Ctl.mu; the client reads the channel until it is closed.                *)
(***************************************************************************)
StatsAlarm ==
  /\ rc = "select"
  /\ rc' = "closed" /\ conn' = "open"
  /\ UNCHANGED <<locks, mu, solve, deadline, pc, op, rpc, got>>

StatsResult(i) ==
  /\ rc = "select" /\ spc[i] = "send"
  /\ To(i, "off") /\ rc' = "last"
  /\ got' = [of |-> i, val |-> sres[i]]
  /\ UNCHANGED <<locks, mu, sres, started, deadline, pc, op, rpc, conn>>

StatsTick ==
  /\ rc = "select"
  /\ Ask("stats", "pause") /\ rc' = "pausing"
  /\ UNCHANGED <<locks, mu, solve, deadline, rpc, conn, got>>

(* Mutant: the Solve is not resumed after the report. *)
ReportNoUnpause ==
  /\ rc = "read" /\ ~ rmu
  /\ rc' = "select"
  /\ UNCHANGED <<locks, mu, solve, deadline, pc, op, rpc, conn, got>>

(* ReadStats under rmu, the report to the client, and Unpause ... *)
StatsReport ==
  /\ rc = "read" /\ ~ rmu
  /\ Ask("stats", "unpause") /\ rc' = "unpausing"
  /\ UNCHANGED <<locks, mu, solve, deadline, rpc, conn, got>>

(* ... or the last report, with the result. *)
StatsLast ==
  /\ rc = "last" /\ ~ rmu
  /\ rc' = "closed" /\ conn' = "none"
  /\ UNCHANGED <<locks, mu, solve, deadline, pc, op, rpc, got>>

-----------------------------------------------------------------------------
(***************************************************************************)
(* Copy and ReadStats of another goroutine.                                *)
(***************************************************************************)
ReadAsk(r) ==
  /\ rpc[r] = "idle"
  /\ rpc' = [rpc EXCEPT ![r] = "want"]
  /\ UNCHANGED <<locks, mu, solve, deadline, pc, op, rc, conn, got>>

ReadLock(r) ==
  /\ rpc[r] = "want" /\ ~ rmu
  /\ rmu' = TRUE /\ rpc' = [rpc EXCEPT ![r] = "read"]
  /\ UNCHANGED <<gmu, mu, solve, deadline, pc, op, rc, conn, got>>

ReadUnlock(r) ==
  /\ rpc[r] = "read"
  /\ rmu' = FALSE /\ rpc' = [rpc EXCEPT ![r] = "idle"]
  /\ UNCHANGED <<gmu, mu, solve, deadline, pc, op, rc, conn, got>>

-----------------------------------------------------------------------------
(***************************************************************************)
(* The client.                                                             *)
(***************************************************************************)
ClientFree == pc["client"] = "idle" /\ rc \in {"off", "closed"}

Start ==
  /\ started < MaxSolves
  /\ started' = started + 1
  /\ To(started', "begin")

GoSolve ==
  /\ ClientFree /\ conn = "none" /\ Start
  /\ conn' = "open" /\ rc' = "off"
  /\ UNCHANGED <<locks, mu, sres, deadline, pc, op, rpc, got>>

(* Solve and Try called directly: the client waits for the return. *)
DirectSolve ==
  /\ ClientFree /\ conn = "none" /\ Start
  /\ pc' = [pc EXCEPT !["client"] = "solve"]
  /\ op' = [op EXCEPT !["client"] = "solve"]
  /\ UNCHANGED <<locks, mu, sres, deadline, rc, rpc, conn, got>>

DirectTry ==
  /\ ClientFree /\ conn = "none" /\ Start
  /\ pc' = [pc EXCEPT !["client"] = "solve"]
  /\ op' = [op EXCEPT !["client"] = "deadline"]
  /\ deadline' = "future"
  /\ UNCHANGED <<locks, mu, sres, rc, rpc, conn, got>>

DirectReturn ==
  /\ pc["client"] = "solve" /\ spc[started] = "send"
  /\ To(started, "off")
  /\ got' = [of |-> started, val |-> sres[started]]
  /\ pc' = [pc EXCEPT !["client"] = "idle"]
  /\ op' = [op EXCEPT !["client"] = "none"]
  /\ UNCHANGED <<locks, mu, sres, started, deadline, rc, rpc, conn>>

DeadlinePasses ==
  /\ deadline = "future" /\ deadline' = "past"
  /\ UNCHANGED <<locks, mu, solve, pc, op, rc, rpc, conn, got>>

ClientCalls ==
  /\ ClientFree
  /\ \/ conn = "open" /\ \E o \in {"stop", "test", "try", "wait", "pause"} : Ask("client", o)
     \/ conn = "paused" /\ Ask("client", "unpause")
  /\ UNCHANGED <<locks, mu, solve, deadline, rc, rpc, conn, got>>

ClientTryStats ==
  /\ ClientFree /\ conn = "open"
  /\ rc' = "select" /\ conn' = "stats"
  /\ UNCHANGED <<locks, mu, solve, deadline, pc, op, rpc, got>>

-----------------------------------------------------------------------------
SolveStep(i) ==
  \/ SolveLockG(i) \/ SolveLockR(i) \/ SolveUnlockG(i) \/ SolveUnlockR(i)
  \/ SolveAnswers(i) \/ SolveDeadline(i)
  \/ \E p \in Callers : TickStop(i, p) \/ TickPause(i, p)

CallStep ==
  \/ \E p \in Callers : \/ Lock(p) \/ PauseUnlock(p) \/ UnpauseLock(p)
                         \/ \E i \in Solves : TakeResult(p, i) \/ Resume(p, i)
  \/ TestNothing \/ TryAlarm \/ DirectReturn

StatsStep ==
  \/ StatsAlarm \/ StatsTick \/ StatsReport \/ StatsLast
  \/ \E i \in Solves : StatsResult(i)

ReadStep(r) == ReadAsk(r) \/ ReadLock(r) \/ ReadUnlock(r)

CallerStep == GoSolve \/ DirectSolve \/ DirectTry \/ ClientCalls \/ ClientTryStats

CtlNext ==
  \/ \E i \in Solves : SolveStep(i)
  \/ CallStep \/ StatsStep \/ CallerStep \/ DeadlinePasses
  \/ \E r \in Readers : ReadStep(r)

(***************************************************************************)
(* Goroutines run, a running search ticks (every PropTick propagations),   *)
(* timers fire, a select does not ignore a ready alarm for ever, and Go's  *)
(* mutexes do not starve a waiter.  That a search ever decides is not      *)
(* assumed.                                                                *)
(***************************************************************************)
CtlFairness ==
  /\ \A i \in Solves :
       /\ WF_ctlVars(SolveLockG(i)) /\ SF_ctlVars(SolveLockR(i))
       /\ WF_ctlVars(SolveUnlockG(i)) /\ WF_ctlVars(SolveUnlockR(i))
       /\ WF_ctlVars(\E p \in Callers : TickStop(i, p) \/ TickPause(i, p))
  /\ WF_ctlVars(CallStep)
  /\ SF_ctlVars(\E p \in Callers : UnpauseLock(p))
  /\ SF_ctlVars(StatsAlarm) /\ SF_ctlVars(StatsReport) /\ SF_ctlVars(StatsLast)
  /\ \A r \in Readers : SF_ctlVars(ReadLock(r)) /\ WF_ctlVars(ReadUnlock(r))

CtlSpec == CtlInit /\ [][CtlNext]_ctlVars /\ CtlFairness

-----------------------------------------------------------------------------
(***************************************************************************)
(* Properties.                                                             *)
(***************************************************************************)

(* The type invariant of the control. *)
CtlTypeOK ==
  /\ gmu \in BOOLEAN /\ rmu \in BOOLEAN /\ mu \in Callers \cup {"none"}
  /\ spc \in [Solves -> {"off", "begin", "lock", "run", "paused", "done", "unlock", "send"}]
  /\ sres \in [Solves -> {"none", "sat", "unsat", "unknown"}]
  /\ started \in 0 .. MaxSolves /\ deadline \in {"unset", "future", "past"}
  /\ pc \in [Callers -> {"idle", "want", "unlockR", "unpause", "resume", "solve"}
                         \cup TakesResult]
  /\ op \in [Callers -> {"none", "stop", "test", "try", "wait", "pause", "unpause",
                         "solve", "deadline"}]
  /\ rc \in {"off", "select", "pausing", "read", "unpausing", "last", "closed"}
  /\ rpc \in [Readers -> {"idle", "want", "read"}]
  /\ conn \in {"none", "open", "paused", "stats"}
  /\ got \in {NoResult} \cup [of : Solves, val : {"sat", "unsat", "unknown"}]

(* Who may touch the solver's data: a Solve from lock to unlock unless it  *)
(* is paused, a reader, and a caller that pauses or resumes the Solve and  *)
(* has rmu on its behalf.                                                  *)
Holders ==
  {<<"solve", i>> : i \in {j \in Solves : spc[j] \in {"run", "done", "unlock"}}}
  \cup {<<"reader", r>> : r \in {q \in Readers : rpc[q] = "read"}}
  \cup {<<"caller", p>> : p \in {q \in Callers : pc[q] \in {"unlockR", "resume"}}}

(* rmu, locked by one goroutine and unlocked by another when a Solve is    *)
(* paused, always has exactly one holder while it is locked: Copy and      *)
(* ReadStats never read data a Solve is changing, and no Unlock finds the  *)
(* mutex unlocked.                                                         *)
RmuOneHolder ==
  /\ CtlTypeOK
  /\ rmu <=> Holders # {}
  /\ \A h, k \in Holders : h = k

(* A result that is handed out belongs to the Solve of this connection,    *)
(* though all Solves of a solver share the channel cResult; and when the   *)
(* client has no connection and no call in progress, no Solve is left      *)
(* behind: it may use the solver itself.                                   *)
SolveOver ==
  conn = "none" /\ ClientFree => ~ gmu /\ \A i \in Solves : spc[i] = "off"

ResultIsOwn == [][SolveOver' /\ (got' # got => got'.of = started)]_ctlVars

(* Stop, Try, Test, Pause and Unpause return, even if the search would     *)
(* never end by itself.                                                    *)
CallsReturn ==
  \A o \in {"stop", "try", "test", "pause", "unpause"} :
    op["client"] = o ~> op["client"] # o

(* TryStats closes its channel. *)
StatsCloses == rc = "select" ~> rc = "closed"

(* "Solve returns -1 if unsat and 1 if sat": a Solve that nobody stops,    *)
(* called without a time limit, decides.                                   *)
SolveDecides ==
  [][pc["client"] = "solve" /\ op["client"] = "solve" /\ pc'["client"] = "idle"
       => got'.val # "unknown"]_ctlVars
=============================================================================
