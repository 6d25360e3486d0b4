--------------------------- MODULE GoroutineProofs --------------------------
(***************************************************************************)
(* Proofs about the goroutines of gini.                                    *)
(*                                                                         *)
(* About module Ctl: at most one Solve is under way, who holds rmu, and    *)
(* whose result is handed out.  About module Ax: where the units and the   *)
(* requests are, what the responses say, and that the pool implements      *)
(* Exchange.  The two do not use each other.                               *)
(***************************************************************************)
EXTENDS Ctl, Ax, FiniteSetTheorems, TLAPS

-----------------------------------------------------------------------------
(***************************************************************************)
(* PART 1: the control of a Solve.                                         *)
(***************************************************************************)
(***************************************************************************)
(* The inductive invariant.                                                *)
(***************************************************************************)
Active == \E i \in Solves : spc[i] # "off"
Paused == \E i \in Solves : spc[i] = "paused"

(* Only the Solve started last is under way; it holds gmu while it solves, *)
(* and has a result from the end of its search.                            *)
OneSolve ==
  /\ \A i \in Solves : spc[i] # "off" => i = started
  /\ gmu <=> \E i \in Solves : spc[i] \in {"lock", "run", "paused", "done"}
  /\ \A i \in Solves : spc[i] \in {"done", "unlock", "send"} => sres[i] # "none"

(* Ctl.mu is held by the caller that is in a method. *)
MuHeld == \A p \in Callers : mu = p <=> pc[p] \notin {"idle", "want", "solve"}

(* The client calls what its connection allows, ... *)
ClientCall ==
  /\ conn = "none" => pc["client"] \in {"idle", "solve"}
  /\ conn = "open" => /\ pc["client"] \in {"idle", "want", "unlockR"} \cup TakesResult
                      /\ pc["client"] = "want" => op["client"] \in TakesResult \ {"await"}
  /\ conn = "paused" => /\ pc["client"] \in {"idle", "want", "unpause", "resume"}
                        /\ pc["client"] = "want" => op["client"] = "unpause"
  /\ conn = "stats" => pc["client"] = "idle"

(* ... the goroutine of TryStats exists while the connection is its own,   *)
(* and pauses and resumes in turn.                                         *)
StatsCall ==
  /\ conn = "stats" <=> rc \notin {"off", "closed"}
  /\ rc \notin {"pausing", "unpausing"} => pc["stats"] = "idle"
  /\ rc = "pausing" => /\ pc["stats"] \in {"want", "pause", "unlockR"}
                       /\ pc["stats"] = "want" => op["stats"] = "pause"
  /\ rc = "unpausing" => /\ pc["stats"] \in {"want", "unpause", "resume"}
                         /\ pc["stats"] = "want" => op["stats"] = "unpause"

(* A Solve is under way exactly when somebody waits for its result, and    *)
(* paused exactly when somebody is to resume it.                           *)
Connected ==
  /\ Active <=> \/ conn \in {"open", "paused"} \/ pc["client"] = "solve"
                \/ rc \in {"select", "pausing", "read", "unpausing"}
  /\ Paused <=> \/ conn = "paused" \/ rc \in {"read", "unpausing"}
                \/ \E p \in Callers : pc[p] = "unlockR"

(* Who holds rmu, kind by kind. *)
SolveHolds(i) == spc[i] \in {"run", "done", "unlock"}
Reads(r) == rpc[r] = "read"
CallerHolds(p) == pc[p] \in {"unlockR", "resume"}

RmuHeld ==
  /\ rmu <=> \/ \E i \in Solves : SolveHolds(i)
             \/ \E r \in Readers : Reads(r)
             \/ \E p \in Callers : CallerHolds(p)
  /\ \A r \in Readers : Reads(r) =>
       /\ \A q \in Readers : Reads(q) => q = r
       /\ ~ \E i \in Solves : SolveHolds(i)
       /\ ~ \E p \in Callers : CallerHolds(p)

CtlInv ==
  /\ CtlTypeOK /\ OneSolve /\ MuHeld /\ ClientCall /\ StatsCall /\ Connected /\ RmuHeld

-----------------------------------------------------------------------------
(***************************************************************************)
(* Facts.                                                                  *)
(***************************************************************************)

(* A Solve is started only when none is under way.                         *)
LEMMA StartEffect ==
  ASSUME CtlInv, conn = "none", ClientFree, Start
  PROVE  /\ started' \in Solves /\ ~ Active /\ ~ Paused
         /\ \A i \in Solves : spc'[i] = IF i = started' THEN "begin" ELSE "off"
         /\ spc' \in [Solves -> {"off", "begin"}] /\ pc["client"] = "idle"
<1>1. CtlTypeOK /\ pc["client"] = "idle" /\ rc \in {"off",
   "closed"} /\ \A p \in Callers : pc[p] = "idle"
  BY DEF CtlInv, ClientFree, StatsCall, Callers
<1>2. ~ Active
  BY <1>1 DEF CtlInv, Connected
<1>3. started' \in Solves
  BY <1>1, MaxSolvesAssumption DEF CtlTypeOK, Start, Solves
<1>4. \A i \in Solves : spc[i] = "off"
  BY <1>2 DEF Active
<1>5. spc' = [spc EXCEPT ![started'] = "begin"]
  BY DEF Start, To
<1>6. \A i \in Solves : spc'[i] = IF i = started' THEN "begin" ELSE "off"
  BY <1>1, <1>3, <1>4, <1>5 DEF CtlTypeOK
<1> QED BY <1>1, <1>2, <1>3, <1>4, <1>5, <1>6 DEF Active, Paused, CtlTypeOK

(* The method a caller asks for.                                           *)
LEMMA WantedOp ==
  ASSUME CtlInv, NEW p \in Callers, pc[p] = "want"
  PROVE  op[p] \in {"stop", "test", "try", "wait", "pause", "unpause"}
BY DEF CtlInv, CtlTypeOK, ClientCall, StatsCall, TakesResult, Callers

(* A Solve that is under way is the one started last.                      *)
LEMMA ActiveSolve ==
  ASSUME CtlInv, Active
  PROVE  started \in Solves /\ spc[started] # "off"
BY DEF CtlInv, OneSolve, Active

-----------------------------------------------------------------------------
(***************************************************************************)
(* The parts of the invariant, step by step.                               *)
(***************************************************************************)

(* The type invariant: a caller enters only the methods it asked for, and a*)
(* result is handed out when there is one.                                 *)
LEMMA CtlTypeStep ==
  ASSUME CtlInv, CtlNext
  PROVE  CtlTypeOK'
<1> USE DEF locks, solve, To, SolveEnds, Leave, Ask, CtlTypeOK, TakesResult, Callers
<1>0. CtlTypeOK /\ OneSolve
  BY DEF CtlInv
<1>1. ASSUME UNCHANGED <<gmu, rmu, mu, spc, sres, started, deadline, pc, op, rc, rpc, conn, got>>
      PROVE  CtlTypeOK'
  BY <1>0, <1>1
<1>2. ASSUME NEW i \in Solves,
             SolveLockG(i) \/ SolveLockR(i) \/ SolveAnswers(i) \/ SolveDeadline(i) \/ SolveUnlockG(i) \/ SolveUnlockR(i)
      PROVE  CtlTypeOK'
  <2>1. CASE SolveLockG(i)
    BY <1>0, <2>1 DEF SolveLockG
  <2>2. CASE SolveLockR(i)
    BY <1>0, <2>2 DEF SolveLockR
  <2>3. CASE SolveAnswers(i)
    BY <1>0, <2>3 DEF SolveAnswers
  <2>4. CASE SolveDeadline(i)
    BY <1>0, <2>4 DEF SolveDeadline
  <2>5. CASE SolveUnlockG(i)
    <3>1. UNCHANGED <<rmu, mu, sres, started, deadline, pc, op, rc, rpc, conn, got>> /\ gmu' = FALSE
      BY <2>5 DEF SolveUnlockG
    <3>2. spc' \in [Solves -> {"off", "begin", "lock", "run", "paused", "done", "unlock", "send"}]
      BY <1>0, <2>5 DEF SolveUnlockG
    <3>3. gmu' \in BOOLEAN
      BY <3>1
    <3> QED BY <1>0, <3>1, <3>2, <3>3
  <2>6. CASE SolveUnlockR(i)
    <3>1. UNCHANGED <<gmu, mu, sres, started, deadline, pc, op, rc, rpc, conn, got>> /\ rmu' = FALSE
      BY <2>6 DEF SolveUnlockR
    <3>2. spc' \in [Solves -> {"off", "begin", "lock", "run", "paused", "done", "unlock", "send"}]
      BY <1>0, <2>6 DEF SolveUnlockR
    <3>3. rmu' \in BOOLEAN
      BY <3>1
    <3> QED BY <1>0, <3>1, <3>2, <3>3
  <2> QED BY <1>2, <2>1, <2>2, <2>3, <2>4, <2>5, <2>6
<1>3. ASSUME NEW i \in Solves, NEW p \in Callers, TickStop(i, p) \/ TickPause(i, p)
      PROVE  CtlTypeOK'
  <2>1. CASE TickStop(i, p)
    BY <1>0, <2>1 DEF TickStop
  <2>2. CASE TickPause(i, p)
    BY <1>0, <2>2 DEF TickPause
  <2> QED BY <1>3, <2>1, <2>2
<1>4. ASSUME NEW p \in Callers, Lock(p)
      PROVE  CtlTypeOK'
  BY <1>0, <1>4, WantedOp DEF Lock
<1>5. ASSUME NEW p \in Callers, NEW i \in Solves, TakeResult(p, i) \/ Resume(p, i)
      PROVE  CtlTypeOK'
  <2>1. CASE TakeResult(p, i)
    BY <1>0, <2>1 DEF TakeResult, OneSolve
  <2>2. CASE Resume(p, i)
    BY <1>0, <2>2 DEF Resume
  <2> QED BY <1>5, <2>1, <2>2
<1>6. ASSUME NEW p \in Callers, PauseUnlock(p) \/ UnpauseLock(p)
      PROVE  CtlTypeOK'
  <2>1. CASE PauseUnlock(p)
    BY <1>0, <2>1, ZenonT(40) DEF PauseUnlock
  <2>2. CASE UnpauseLock(p)
    BY <1>0, <2>2 DEF UnpauseLock
  <2> QED BY <1>6, <2>1, <2>2
<1>7. CASE TestNothing \/ TryAlarm
  <2>1. CASE TestNothing
    BY <1>0, <2>1 DEF TestNothing
  <2>2. CASE TryAlarm
    BY <1>0, <2>2 DEF TryAlarm
  <2> QED BY <1>7, <2>1, <2>2
<1>8. CASE StatsAlarm \/ StatsTick \/ StatsReport \/ StatsLast
  <2>1. CASE StatsAlarm
    BY <1>0, <2>1 DEF StatsAlarm
  <2>2. CASE StatsTick
    BY <1>0, <2>2 DEF StatsTick
  <2>3. CASE StatsReport
    BY <1>0, <2>3 DEF StatsReport
  <2>4. CASE StatsLast
    BY <1>0, <2>4 DEF StatsLast
  <2> QED BY <1>8, <2>1, <2>2, <2>3, <2>4
<1>9. ASSUME NEW i \in Solves, StatsResult(i)
      PROVE  CtlTypeOK'
  BY <1>0, <1>9 DEF StatsResult, OneSolve
<1>10. ASSUME NEW r \in Readers, ReadAsk(r) \/ ReadLock(r) \/ ReadUnlock(r)
      PROVE  CtlTypeOK'
  <2>1. CASE ReadAsk(r)
    BY <1>0, <2>1 DEF ReadAsk
  <2>2. CASE ReadLock(r)
    BY <1>0, <2>2 DEF ReadLock
  <2>3. CASE ReadUnlock(r)
    <3>1. UNCHANGED <<gmu, mu, spc, sres, started, deadline, pc, op, rc, conn, got>> /\ rmu' = FALSE
      BY <2>3 DEF ReadUnlock
    <3>2. rpc' \in [Readers -> {"idle", "want", "read"}]
      BY <1>0, <2>3 DEF ReadUnlock
    <3>3. rmu' \in BOOLEAN
      BY <3>1
    <3> QED BY <1>0, <3>1, <3>2, <3>3
  <2> QED BY <1>10, <2>1, <2>2, <2>3
<1>11. CASE GoSolve \/ DirectSolve \/ DirectTry
  <2>1. /\ started' \in Solves /\ spc' \in [Solves -> {"off", "begin"}]
        /\ UNCHANGED <<gmu, rmu, mu, sres, rpc, got>>
    BY <1>11, StartEffect DEF GoSolve, DirectSolve, DirectTry
  <2>2. /\ started' \in 0 .. MaxSolves
        /\ spc' \in [Solves -> {"off", "begin", "lock", "run", "paused", "done", "unlock", "send"}]
    BY <2>1, MaxSolvesAssumption DEF Solves
  <2>3. CASE GoSolve
    BY <1>0, <2>1, <2>2, <2>3 DEF GoSolve
  <2>4. CASE DirectSolve
    BY <1>0, <2>1, <2>2, <2>4 DEF DirectSolve
  <2>5. CASE DirectTry
    BY <1>0, <2>1, <2>2, <2>5 DEF DirectTry
  <2> QED BY <1>11, <2>3, <2>4, <2>5
<1>12. CASE DirectReturn
  <2>1. started \in Solves
    BY <1>0, <1>12, ActiveSolve DEF CtlInv, Connected, DirectReturn
  <2>2. got' \in [of : Solves, val : {"sat", "unsat", "unknown"}]
    BY <1>0, <1>12, <2>1 DEF DirectReturn, OneSolve
  <2> QED BY <1>0, <1>12, <2>2 DEF DirectReturn
<1>13. CASE DeadlinePasses
  BY <1>0, <1>13 DEF DeadlinePasses
<1>14. CASE ClientCalls \/ ClientTryStats
  <2>1. CASE ClientCalls
    BY <1>0, <2>1 DEF ClientCalls
  <2>2. CASE ClientTryStats
    BY <1>0, <2>2 DEF ClientTryStats
  <2> QED BY <1>14, <2>1, <2>2
<1> QED BY <1>1, <1>2, <1>3, <1>4, <1>5, <1>6, <1>7, <1>8, <1>9, <1>10, <1>11, <1>12, <1>13, <1>14
        DEF CtlNext, SolveStep, CallStep, StatsStep, ReadStep, CallerStep

(* One Solve at a time, and gmu is its own.                                *)
LEMMA OneSolveStep ==
  ASSUME CtlInv, CtlNext
  PROVE  OneSolve'
<1> USE DEF locks, solve, To, SolveEnds, Leave, Ask, CtlTypeOK, TakesResult, Callers, OneSolve,
           Active, ClientFree
<1>0. CtlTypeOK /\ OneSolve
  BY DEF CtlInv
<1>1. ASSUME UNCHANGED <<gmu, spc, sres, started>>
      PROVE  OneSolve'
  BY <1>0, <1>1
<1>2. ASSUME NEW i \in Solves,
             SolveLockG(i) \/ SolveLockR(i) \/ SolveAnswers(i) \/ SolveDeadline(i) \/ SolveUnlockG(i) \/ SolveUnlockR(i)
      PROVE  OneSolve'
  <2>1. CASE SolveLockG(i)
    BY <1>0, <2>1 DEF SolveLockG
  <2>2. CASE SolveLockR(i)
    BY <1>0, <2>2 DEF SolveLockR
  <2>3. CASE SolveAnswers(i)
    BY <1>0, <2>3 DEF SolveAnswers
  <2>4. CASE SolveDeadline(i)
    BY <1>0, <2>4 DEF SolveDeadline
  <2>5. CASE SolveUnlockG(i)
    BY <1>0, <2>5 DEF SolveUnlockG
  <2>6. CASE SolveUnlockR(i)
    BY <1>0, <2>6 DEF SolveUnlockR
  <2> QED BY <1>2, <2>1, <2>2, <2>3, <2>4, <2>5, <2>6
<1>3. ASSUME NEW i \in Solves, NEW p \in Callers, TickStop(i, p) \/ TickPause(i, p)
      PROVE  OneSolve'
  <2>1. CASE TickStop(i, p)
    BY <1>0, <2>1 DEF TickStop
  <2>2. CASE TickPause(i, p)
    BY <1>0, <2>2 DEF TickPause
  <2> QED BY <1>3, <2>1, <2>2
<1>4. ASSUME NEW p \in Callers, NEW i \in Solves, TakeResult(p, i) \/ Resume(p, i)
      PROVE  OneSolve'
  <2>1. CASE TakeResult(p, i)
    BY <1>0, <2>1 DEF TakeResult
  <2>2. CASE Resume(p, i)
    BY <1>0, <2>2 DEF Resume
  <2> QED BY <1>4, <2>1, <2>2
<1>5. ASSUME NEW i \in Solves, StatsResult(i)
      PROVE  OneSolve'
  BY <1>0, <1>5 DEF StatsResult
<1>6. CASE GoSolve \/ DirectSolve \/ DirectTry
  <2>1. CASE GoSolve
    BY <1>0, <2>1, StartEffect DEF GoSolve
  <2>2. CASE DirectSolve
    BY <1>0, <2>2, StartEffect DEF DirectSolve
  <2>3. CASE DirectTry
    BY <1>0, <2>3, StartEffect DEF DirectTry
  <2> QED BY <1>6, <2>1, <2>2, <2>3
<1>7. CASE DirectReturn
  BY <1>0, <1>7 DEF DirectReturn
<1> QED BY <1>1, <1>2, <1>3, <1>4, <1>5, <1>6, <1>7
        DEF CtlNext, SolveStep, CallStep, StatsStep, ReadStep, CallerStep, Lock, TestNothing,
            TryAlarm, PauseUnlock, UnpauseLock, StatsAlarm, StatsTick, StatsReport, StatsLast,
            ReadAsk, ReadLock, ReadUnlock, DeadlinePasses, ClientCalls, ClientTryStats

(* Lock takes Ctl.mu, and a method leaves it as it returns.                *)
LEMMA MuHeldStep ==
  ASSUME CtlInv, CtlNext
  PROVE  MuHeld'
<1> USE DEF locks, solve, To, SolveEnds, Leave, Ask, CtlTypeOK, TakesResult, Callers, MuHeld,
           ClientCall, StatsCall, ClientFree
<1>0. CtlTypeOK /\ OneSolve /\ MuHeld /\ ClientCall /\ StatsCall
  BY DEF CtlInv
<1>1. ASSUME UNCHANGED <<mu, pc>>
      PROVE  MuHeld'
  BY <1>0, <1>1
<1>2. ASSUME NEW i \in Solves, NEW p \in Callers, TickStop(i, p) \/ TickPause(i, p)
      PROVE  MuHeld'
  <2>1. CASE TickStop(i, p)
    BY <1>0, <2>1 DEF TickStop
  <2>2. CASE TickPause(i, p)
    BY <1>0, <2>2 DEF TickPause
  <2> QED BY <1>2, <2>1, <2>2
<1>3. ASSUME NEW p \in Callers, Lock(p) \/ PauseUnlock(p) \/ UnpauseLock(p)
      PROVE  MuHeld'
  <2>1. CASE Lock(p)
    BY <1>0, <2>1, WantedOp DEF Lock
  <2>2. CASE PauseUnlock(p)
    BY <1>0, <2>2 DEF PauseUnlock
  <2>3. CASE UnpauseLock(p)
    BY <1>0, <2>3 DEF UnpauseLock
  <2> QED BY <1>3, <2>1, <2>2, <2>3
<1>4. ASSUME NEW p \in Callers, NEW i \in Solves, TakeResult(p, i) \/ Resume(p, i)
      PROVE  MuHeld'
  <2>1. CASE TakeResult(p, i)
    BY <1>0, <2>1 DEF TakeResult
  <2>2. CASE Resume(p, i)
    BY <1>0, <2>2 DEF Resume
  <2> QED BY <1>4, <2>1, <2>2
<1>5. CASE TestNothing \/ TryAlarm \/ DirectReturn
  <2>1. CASE TestNothing
    BY <1>0, <2>1 DEF TestNothing
  <2>2. CASE TryAlarm
    BY <1>0, <2>2 DEF TryAlarm
  <2>3. CASE DirectReturn
    BY <1>0, <2>3 DEF DirectReturn
  <2> QED BY <1>5, <2>1, <2>2, <2>3
<1>6. CASE StatsTick \/ StatsReport
  <2>1. CASE StatsTick
    BY <1>0, <2>1 DEF StatsTick
  <2>2. CASE StatsReport
    BY <1>0, <2>2 DEF StatsReport
  <2> QED BY <1>6, <2>1, <2>2
<1>7. CASE DirectSolve \/ DirectTry
  <2>1. CASE DirectSolve
    BY <1>0, <2>1 DEF DirectSolve
  <2>2. CASE DirectTry
    BY <1>0, <2>2 DEF DirectTry
  <2> QED BY <1>7, <2>1, <2>2
<1>8. CASE ClientCalls
  BY <1>0, <1>8 DEF ClientCalls
<1> QED BY <1>1, <1>2, <1>3, <1>4, <1>5, <1>6, <1>7, <1>8
        DEF CtlNext, SolveStep, CallStep, StatsStep, ReadStep, CallerStep, SolveLockG, SolveLockR,
            SolveAnswers, SolveDeadline, SolveUnlockG, SolveUnlockR, StatsAlarm, StatsResult,
            StatsLast, ReadAsk, ReadLock, ReadUnlock, GoSolve, DeadlinePasses, ClientTryStats

(* The client calls what its connection allows.                            *)
LEMMA ClientCallStep ==
  ASSUME CtlInv, CtlNext
  PROVE  ClientCall'
<1> USE DEF locks, solve, To, SolveEnds, Leave, Ask, CtlTypeOK, TakesResult, Callers,
           ClientCall, StatsCall, ClientFree
<1>0. CtlTypeOK /\ OneSolve /\ ClientCall /\ StatsCall
  BY DEF CtlInv
<1>1. ASSUME UNCHANGED <<pc, op, conn>>
      PROVE  ClientCall'
  BY <1>0, <1>1
<1>2. ASSUME NEW i \in Solves, NEW p \in Callers, TickStop(i, p) \/ TickPause(i, p)
      PROVE  ClientCall'
  <2>1. CASE TickStop(i, p)
    BY <1>0, <2>1 DEF TickStop
  <2>2. CASE TickPause(i, p)
    BY <1>0, <2>2 DEF TickPause
  <2> QED BY <1>2, <2>1, <2>2
<1>3. ASSUME NEW p \in Callers, Lock(p) \/ PauseUnlock(p) \/ UnpauseLock(p)
      PROVE  ClientCall'
  <2>1. CASE Lock(p)
    BY <1>0, <2>1 DEF Lock
  <2>2. CASE PauseUnlock(p)
    BY <1>0, <2>2 DEF PauseUnlock
  <2>3. CASE UnpauseLock(p)
    BY <1>0, <2>3 DEF UnpauseLock
  <2> QED BY <1>3, <2>1, <2>2, <2>3
<1>4. ASSUME NEW p \in Callers, NEW i \in Solves, TakeResult(p, i) \/ Resume(p, i)
      PROVE  ClientCall'
  <2>1. CASE TakeResult(p, i)
    BY <1>0, <2>1 DEF TakeResult
  <2>2. CASE Resume(p, i)
    BY <1>0, <2>2 DEF Resume
  <2> QED BY <1>4, <2>1, <2>2
<1>5. CASE TestNothing \/ TryAlarm \/ DirectReturn
  <2>1. CASE TestNothing
    BY <1>0, <2>1 DEF TestNothing
  <2>2. CASE TryAlarm
    BY <1>0, <2>2 DEF TryAlarm
  <2>3. CASE DirectReturn
    BY <1>0, <2>3 DEF DirectReturn
  <2> QED BY <1>5, <2>1, <2>2, <2>3
<1>6. CASE StatsAlarm \/ StatsTick \/ StatsReport \/ StatsLast
  <2>1. CASE StatsAlarm
    BY <1>0, <2>1 DEF StatsAlarm
  <2>2. CASE StatsTick
    BY <1>0, <2>2 DEF StatsTick
  <2>3. CASE StatsReport
    BY <1>0, <2>3 DEF StatsReport
  <2>4. CASE StatsLast
    BY <1>0, <2>4 DEF StatsLast
  <2> QED BY <1>6, <2>1, <2>2, <2>3, <2>4
<1>7. CASE GoSolve \/ DirectSolve \/ DirectTry
  <2>1. CASE GoSolve
    BY <1>0, <2>1 DEF GoSolve
  <2>2. CASE DirectSolve
    BY <1>0, <2>2 DEF DirectSolve
  <2>3. CASE DirectTry
    BY <1>0, <2>3 DEF DirectTry
  <2> QED BY <1>7, <2>1, <2>2, <2>3
<1>8. CASE ClientCalls \/ ClientTryStats
  <2>1. CASE ClientCalls
    BY <1>0, <2>1 DEF ClientCalls
  <2>2. CASE ClientTryStats
    BY <1>0, <2>2 DEF ClientTryStats
  <2> QED BY <1>8, <2>1, <2>2
<1> QED BY <1>1, <1>2, <1>3, <1>4, <1>5, <1>6, <1>7, <1>8
        DEF CtlNext, SolveStep, CallStep, StatsStep, ReadStep, CallerStep, SolveLockG, SolveLockR,
            SolveAnswers, SolveDeadline, SolveUnlockG, SolveUnlockR, StatsResult, ReadAsk,
            ReadLock, ReadUnlock, DeadlinePasses

(* The goroutine of TryStats pauses and resumes in turn.                   *)
LEMMA StatsCallStep ==
  ASSUME CtlInv, CtlNext
  PROVE  StatsCall'
<1> USE DEF locks, solve, To, SolveEnds, Leave, Ask, CtlTypeOK, TakesResult, Callers,
           ClientCall, StatsCall, ClientFree
<1>0. CtlTypeOK /\ OneSolve /\ ClientCall /\ StatsCall
  BY DEF CtlInv
<1>1. ASSUME UNCHANGED <<pc, op, conn, rc>>
      PROVE  StatsCall'
  BY <1>0, <1>1
<1>2. ASSUME NEW i \in Solves, NEW p \in Callers, TickStop(i, p) \/ TickPause(i, p)
      PROVE  StatsCall'
  <2>1. CASE TickStop(i, p)
    BY <1>0, <2>1 DEF TickStop
  <2>2. CASE TickPause(i, p)
    BY <1>0, <2>2 DEF TickPause
  <2> QED BY <1>2, <2>1, <2>2
<1>3. ASSUME NEW p \in Callers, Lock(p) \/ PauseUnlock(p) \/ UnpauseLock(p)
      PROVE  StatsCall'
  <2>1. CASE Lock(p)
    BY <1>0, <2>1 DEF Lock
  <2>2. CASE PauseUnlock(p)
    BY <1>0, <2>2 DEF PauseUnlock
  <2>3. CASE UnpauseLock(p)
    BY <1>0, <2>3 DEF UnpauseLock
  <2> QED BY <1>3, <2>1, <2>2, <2>3
<1>4. ASSUME NEW p \in Callers, NEW i \in Solves, TakeResult(p, i) \/ Resume(p, i)
      PROVE  StatsCall'
  <2>1. CASE TakeResult(p, i)
    BY <1>0, <2>1 DEF TakeResult
  <2>2. CASE Resume(p, i)
    BY <1>0, <2>2 DEF Resume
  <2> QED BY <1>4, <2>1, <2>2
<1>5. CASE TestNothing \/ TryAlarm \/ DirectReturn
  <2>1. CASE TestNothing
    BY <1>0, <2>1 DEF TestNothing
  <2>2. CASE TryAlarm
    BY <1>0, <2>2 DEF TryAlarm
  <2>3. CASE DirectReturn
    BY <1>0, <2>3 DEF DirectReturn
  <2> QED BY <1>5, <2>1, <2>2, <2>3
<1>6. CASE StatsAlarm \/ StatsTick \/ StatsReport \/ StatsLast
  <2>1. CASE StatsAlarm
    BY <1>0, <2>1 DEF StatsAlarm
  <2>2. CASE StatsTick
    BY <1>0, <2>2 DEF StatsTick
  <2>3. CASE StatsReport
    BY <1>0, <2>3 DEF StatsReport
  <2>4. CASE StatsLast
    BY <1>0, <2>4 DEF StatsLast
  <2> QED BY <1>6, <2>1, <2>2, <2>3, <2>4
<1>7. ASSUME NEW i \in Solves, StatsResult(i)
      PROVE  StatsCall'
  BY <1>0, <1>7 DEF StatsResult
<1>8. CASE GoSolve \/ DirectSolve \/ DirectTry
  <2>1. CASE GoSolve
    BY <1>0, <2>1 DEF GoSolve
  <2>2. CASE DirectSolve
    BY <1>0, <2>2 DEF DirectSolve
  <2>3. CASE DirectTry
    BY <1>0, <2>3 DEF DirectTry
  <2> QED BY <1>8, <2>1, <2>2, <2>3
<1>9. CASE ClientCalls \/ ClientTryStats
  <2>1. CASE ClientCalls
    BY <1>0, <2>1 DEF ClientCalls
  <2>2. CASE ClientTryStats
    BY <1>0, <2>2 DEF ClientTryStats
  <2> QED BY <1>9, <2>1, <2>2
<1> QED BY <1>1, <1>2, <1>3, <1>4, <1>5, <1>6, <1>7, <1>8, <1>9
        DEF CtlNext, SolveStep, CallStep, StatsStep, ReadStep, CallerStep, SolveLockG, SolveLockR,
            SolveAnswers, SolveDeadline, SolveUnlockG, SolveUnlockR, ReadAsk, ReadLock,
            ReadUnlock, DeadlinePasses

(* Somebody waits for the Solve that is under way, and somebody resumes it *)
(* when it is paused.                                                      *)
LEMMA ConnectedStep ==
  ASSUME CtlInv, CtlNext
  PROVE  Connected'
<1> USE DEF locks, solve, To, SolveEnds, Leave, Ask, CtlTypeOK, TakesResult, Callers, OneSolve,
           ClientCall, StatsCall, Connected, Active, Paused, ClientFree
<1>0. CtlTypeOK /\ OneSolve /\ ClientCall /\ StatsCall /\ Connected
  BY DEF CtlInv
<1>1. ASSUME UNCHANGED <<spc, pc, conn, rc>>
      PROVE  Connected'
  BY <1>0, <1>1
<1>2. ASSUME NEW i \in Solves,
             SolveLockG(i) \/ SolveLockR(i) \/ SolveAnswers(i) \/ SolveDeadline(i) \/ SolveUnlockG(i) \/ SolveUnlockR(i)
      PROVE  Connected'
  <2>1. CASE SolveLockG(i)
    BY <1>0, <2>1 DEF SolveLockG
  <2>2. CASE SolveLockR(i)
    BY <1>0, <2>2 DEF SolveLockR
  <2>3. CASE SolveAnswers(i)
    BY <1>0, <2>3 DEF SolveAnswers
  <2>4. CASE SolveDeadline(i)
    BY <1>0, <2>4 DEF SolveDeadline
  <2>5. CASE SolveUnlockG(i)
    BY <1>0, <2>5 DEF SolveUnlockG
  <2>6. CASE SolveUnlockR(i)
    BY <1>0, <2>6 DEF SolveUnlockR
  <2> QED BY <1>2, <2>1, <2>2, <2>3, <2>4, <2>5, <2>6
<1>3. ASSUME NEW i \in Solves, NEW p \in Callers, TickStop(i, p) \/ TickPause(i, p)
      PROVE  Connected'
  <2>1. CASE TickStop(i, p)
    BY <1>0, <2>1 DEF TickStop
  <2>2. CASE TickPause(i, p)
    BY <1>0, <2>2 DEF TickPause
  <2> QED BY <1>3, <2>1, <2>2
<1>4. ASSUME NEW p \in Callers, Lock(p) \/ PauseUnlock(p) \/ UnpauseLock(p)
      PROVE  Connected'
  <2>1. CASE Lock(p)
    BY <1>0, <2>1 DEF Lock
  <2>2. CASE PauseUnlock(p)
    BY <1>0, <2>2 DEF PauseUnlock
  <2>3. CASE UnpauseLock(p)
    BY <1>0, <2>3 DEF UnpauseLock
  <2> QED BY <1>4, <2>1, <2>2, <2>3
<1>5. ASSUME NEW p \in Callers, NEW i \in Solves, TakeResult(p, i) \/ Resume(p, i)
      PROVE  Connected'
  <2>1. CASE TakeResult(p, i)
    BY <1>0, <2>1 DEF TakeResult
  <2>2. CASE Resume(p, i)
    BY <1>0, <2>2 DEF Resume
  <2> QED BY <1>5, <2>1, <2>2
<1>6. CASE TestNothing \/ TryAlarm \/ DirectReturn
  <2>1. CASE TestNothing
    BY <1>0, <2>1 DEF TestNothing
  <2>2. CASE TryAlarm
    BY <1>0, <2>2 DEF TryAlarm
  <2>3. CASE DirectReturn
    BY <1>0, <2>3 DEF DirectReturn
  <2> QED BY <1>6, <2>1, <2>2, <2>3
<1>7. CASE StatsAlarm \/ StatsTick \/ StatsReport \/ StatsLast
  <2>1. CASE StatsAlarm
    BY <1>0, <2>1 DEF StatsAlarm
  <2>2. CASE StatsTick
    BY <1>0, <2>2 DEF StatsTick
  <2>3. CASE StatsReport
    BY <1>0, <2>3 DEF StatsReport
  <2>4. CASE StatsLast
    BY <1>0, <2>4 DEF StatsLast
  <2> QED BY <1>7, <2>1, <2>2, <2>3, <2>4
<1>8. ASSUME NEW i \in Solves, StatsResult(i)
      PROVE  Connected'
  BY <1>0, <1>8 DEF StatsResult
<1>9. CASE GoSolve \/ DirectSolve \/ DirectTry
  <2>1. CASE GoSolve
    BY <1>0, <2>1, StartEffect DEF GoSolve
  <2>2. CASE DirectSolve
    BY <1>0, <2>2, StartEffect DEF DirectSolve
  <2>3. CASE DirectTry
    BY <1>0, <2>3, StartEffect DEF DirectTry
  <2> QED BY <1>9, <2>1, <2>2, <2>3
<1>10. CASE ClientCalls \/ ClientTryStats
  <2>1. CASE ClientCalls
    BY <1>0, <2>1 DEF ClientCalls
  <2>2. CASE ClientTryStats
    BY <1>0, <2>2 DEF ClientTryStats
  <2> QED BY <1>10, <2>1, <2>2
<1> QED BY <1>1, <1>2, <1>3, <1>4, <1>5, <1>6, <1>7, <1>8, <1>9, <1>10
        DEF CtlNext, SolveStep, CallStep, StatsStep, ReadStep, CallerStep, ReadAsk, ReadLock,
            ReadUnlock, DeadlinePasses

(* rmu is handed from the Solve to the caller that paused it, and back by  *)
(* the one that resumes it.                                                *)
LEMMA RmuHeldStep ==
  ASSUME CtlInv, CtlNext
  PROVE  RmuHeld'
<1> USE DEF locks, solve, To, SolveEnds, Leave, Ask, CtlTypeOK, TakesResult, Callers, OneSolve,
           ClientCall, StatsCall, Connected, Active, Paused, ClientFree, RmuHeld, SolveHolds,
           Reads, CallerHolds
<1>0. CtlTypeOK /\ OneSolve /\ ClientCall /\ StatsCall /\ Connected /\ RmuHeld
  BY DEF CtlInv
<1>1. ASSUME UNCHANGED <<rmu, spc, rpc, pc>>
      PROVE  RmuHeld'
  BY <1>0, <1>1
<1>2. ASSUME NEW i \in Solves,
             SolveLockG(i) \/ SolveLockR(i) \/ SolveAnswers(i) \/ SolveDeadline(i) \/ SolveUnlockG(i) \/ SolveUnlockR(i)
      PROVE  RmuHeld'
  <2>1. CASE SolveLockG(i)
    BY <1>0, <2>1 DEF SolveLockG
  <2>2. CASE SolveLockR(i)
    BY <1>0, <2>2 DEF SolveLockR
  <2>3. CASE SolveAnswers(i)
    BY <1>0, <2>3 DEF SolveAnswers
  <2>4. CASE SolveDeadline(i)
    BY <1>0, <2>4 DEF SolveDeadline
  <2>5. CASE SolveUnlockG(i)
    BY <1>0, <2>5 DEF SolveUnlockG
  <2>6. CASE SolveUnlockR(i)
    BY <1>0, <2>6 DEF SolveUnlockR
  <2> QED BY <1>2, <2>1, <2>2, <2>3, <2>4, <2>5, <2>6
<1>3. ASSUME NEW i \in Solves, NEW p \in Callers, TickStop(i, p) \/ TickPause(i, p)
      PROVE  RmuHeld'
  <2>1. CASE TickStop(i, p)
    BY <1>0, <2>1 DEF TickStop
  <2>2. CASE TickPause(i, p)
    BY <1>0, <2>2 DEF TickPause
  <2> QED BY <1>3, <2>1, <2>2
<1>4. ASSUME NEW p \in Callers, Lock(p) \/ PauseUnlock(p) \/ UnpauseLock(p)
      PROVE  RmuHeld'
  <2>1. CASE Lock(p)
    BY <1>0, <2>1 DEF Lock
  <2>2. CASE PauseUnlock(p)
    BY <1>0, <2>2 DEF PauseUnlock
  <2>3. CASE UnpauseLock(p)
    BY <1>0, <2>3 DEF UnpauseLock
  <2> QED BY <1>4, <2>1, <2>2, <2>3
<1>5. ASSUME NEW p \in Callers, NEW i \in Solves, TakeResult(p, i) \/ Resume(p, i)
      PROVE  RmuHeld'
  <2>1. CASE TakeResult(p, i)
    BY <1>0, <2>1 DEF TakeResult
  <2>2. CASE Resume(p, i)
    BY <1>0, <2>2 DEF Resume
  <2> QED BY <1>5, <2>1, <2>2
<1>6. CASE TestNothing \/ TryAlarm \/ DirectReturn
  <2>1. CASE TestNothing
    BY <1>0, <2>1 DEF TestNothing
  <2>2. CASE TryAlarm
    BY <1>0, <2>2 DEF TryAlarm
  <2>3. CASE DirectReturn
    BY <1>0, <2>3 DEF DirectReturn
  <2> QED BY <1>6, <2>1, <2>2, <2>3
<1>7. CASE StatsTick \/ StatsReport
  <2>1. CASE StatsTick
    BY <1>0, <2>1 DEF StatsTick
  <2>2. CASE StatsReport
    BY <1>0, <2>2 DEF StatsReport
  <2> QED BY <1>7, <2>1, <2>2
<1>8. ASSUME NEW i \in Solves, StatsResult(i)
      PROVE  RmuHeld'
  BY <1>0, <1>8 DEF StatsResult
<1>9. ASSUME NEW r \in Readers, ReadAsk(r) \/ ReadLock(r) \/ ReadUnlock(r)
      PROVE  RmuHeld'
  <2>1. CASE ReadAsk(r)
    BY <1>0, <2>1 DEF ReadAsk
  <2>2. CASE ReadLock(r)
    BY <1>0, <2>2 DEF ReadLock
  <2>3. CASE ReadUnlock(r)
    BY <1>0, <2>3 DEF ReadUnlock
  <2> QED BY <1>9, <2>1, <2>2, <2>3
<1>10. CASE GoSolve \/ DirectSolve \/ DirectTry
  <2>1. CASE GoSolve
    BY <1>0, <2>1, StartEffect DEF GoSolve
  <2>2. CASE DirectSolve
    BY <1>0, <2>2, StartEffect DEF DirectSolve
  <2>3. CASE DirectTry
    BY <1>0, <2>3, StartEffect DEF DirectTry
  <2> QED BY <1>10, <2>1, <2>2, <2>3
<1>11. CASE ClientCalls
  BY <1>0, <1>11 DEF ClientCalls
<1> QED BY <1>1, <1>2, <1>3, <1>4, <1>5, <1>6, <1>7, <1>8, <1>9, <1>10, <1>11
        DEF CtlNext, SolveStep, CallStep, StatsStep, ReadStep, CallerStep, StatsAlarm, StatsLast,
            DeadlinePasses, ClientTryStats

-----------------------------------------------------------------------------
(***************************************************************************)
(* The theorems.                                                           *)
(***************************************************************************)

(* Nothing is under way at first.                                          *)
LEMMA InitCtlInv == CtlInit => CtlInv
<1> SUFFICES ASSUME CtlInit PROVE CtlInv
  OBVIOUS
<1> USE DEF CtlInit, Callers
<1>1. CtlTypeOK
  <2>1. started \in 0 .. MaxSolves
    BY MaxSolvesAssumption
  <2>2. gmu \in BOOLEAN /\ rmu \in BOOLEAN
    OBVIOUS
  <2> QED BY <2>1, <2>2 DEF CtlTypeOK
<1>2. OneSolve
  BY DEF OneSolve
<1>3. MuHeld /\ ClientCall /\ StatsCall
  BY DEF MuHeld, ClientCall, StatsCall
<1>4. Connected
  BY DEF Connected, Active, Paused
<1>5. RmuHeld
  BY DEF RmuHeld, SolveHolds, Reads, CallerHolds
<1> QED BY <1>1, <1>2, <1>3, <1>4, <1>5 DEF CtlInv

(* Every step of every goroutine preserves the inductive invariant.        *)
THEOREM CtlInvariant == CtlSpec => []CtlInv
<1>1. CtlInv /\ [CtlNext]_ctlVars => CtlInv'
  <2> SUFFICES ASSUME CtlInv, [CtlNext]_ctlVars PROVE CtlInv'
    OBVIOUS
  <2>1. CASE CtlNext
    BY <2>1, CtlTypeStep, OneSolveStep, MuHeldStep, ClientCallStep, StatsCallStep, ConnectedStep,
       RmuHeldStep DEF CtlInv
  <2>2. CASE UNCHANGED ctlVars
    BY <2>2 DEF ctlVars, CtlInv, CtlTypeOK, OneSolve, MuHeld, ClientCall, StatsCall, Connected,
                RmuHeld, Active, Paused, SolveHolds, Reads, CallerHolds
  <2> QED BY <2>1, <2>2
<1> QED BY <1>1, InitCtlInv, PTL DEF CtlSpec

(* rmu has exactly one holder while it is locked, though one goroutine     *)
(* locks it and another unlocks it when a Solve is paused.                 *)
THEOREM RmuHasOneHolder == CtlSpec => []RmuOneHolder
<1>1. CtlInv => RmuOneHolder
  <2> SUFFICES ASSUME CtlInv PROVE RmuOneHolder
    OBVIOUS
  <2>1. CtlTypeOK /\ OneSolve /\ MuHeld /\ StatsCall /\ Connected /\ RmuHeld
    BY DEF CtlInv
  <2>2. rmu <=> Holders # {}
    BY <2>1 DEF RmuHeld, Holders, SolveHolds, Reads, CallerHolds
  <2>3. \A i, j \in Solves : SolveHolds(i) /\ SolveHolds(j) => i = j
    BY <2>1 DEF OneSolve, SolveHolds
  <2>4. \A p, q \in Callers : CallerHolds(p) /\ CallerHolds(q) => p = q
    BY <2>1 DEF MuHeld, CallerHolds
  <2>5. (\E p \in Callers : CallerHolds(p)) => Paused
    BY <2>1 DEF Connected, CallerHolds, StatsCall, ClientCall, CtlInv, CtlTypeOK, Callers,
       TakesResult
  <2>6. \A i \in Solves : SolveHolds(i) => ~ Paused
    BY <2>1 DEF OneSolve, SolveHolds, Paused
  <2>7. ASSUME NEW h \in Holders, NEW k \in Holders PROVE h = k
    <3>1. \/ \E i \in Solves : SolveHolds(i) /\ h = <<"solve", i>>
          \/ \E r \in Readers : Reads(r) /\ h = <<"reader", r>>
          \/ \E p \in Callers : CallerHolds(p) /\ h = <<"caller", p>>
      BY <2>7 DEF Holders, SolveHolds, Reads, CallerHolds
    <3>2. \/ \E i \in Solves : SolveHolds(i) /\ k = <<"solve", i>>
          \/ \E r \in Readers : Reads(r) /\ k = <<"reader", r>>
          \/ \E p \in Callers : CallerHolds(p) /\ k = <<"caller", p>>
      BY <2>7 DEF Holders, SolveHolds, Reads, CallerHolds
    <3>3. \A r \in Readers : Reads(r) =>
            /\ \A q \in Readers : Reads(q) => q = r
            /\ ~ \E i \in Solves : SolveHolds(i)
            /\ ~ \E p \in Callers : CallerHolds(p)
      BY <2>1 DEF RmuHeld
    <3> QED BY <2>3, <2>4, <2>5, <2>6, <3>1, <3>2, <3>3
  <2> QED BY <2>1, <2>2, <2>7 DEF RmuOneHolder
<1> QED BY <1>1, CtlInvariant, PTL

(* A result that is handed out belongs to the Solve of this connection,    *)
(* and no Solve is left behind when a connection ends.                     *)
THEOREM ResultsAreOwn == CtlSpec => ResultIsOwn
<1>1. CtlInv => SolveOver
  BY DEF CtlInv, SolveOver, OneSolve, Connected, StatsCall, ClientFree, Active
<1>2. CtlInv /\ [CtlNext]_ctlVars => got' = got \/ got'.of = started
  <2> SUFFICES ASSUME CtlInv, CtlNext, got' # got PROVE got'.of = started
    BY DEF ctlVars
  <2>1. \A i \in Solves : spc[i] = "send" => i = started
    BY DEF CtlInv, OneSolve
  <2>2. (\E i \in Solves : StatsResult(i) \/ \E p \in Callers : TakeResult(p, i)) \/ DirectReturn
    BY DEF CtlNext, SolveStep, CallStep, StatsStep, ReadStep, CallerStep, SolveLockG, SolveLockR,
           SolveAnswers, SolveDeadline, TickStop, TickPause, SolveUnlockG, SolveUnlockR, Lock,
           TestNothing, TryAlarm, PauseUnlock, UnpauseLock, Resume, StatsAlarm, StatsTick,
           StatsReport, StatsLast, ReadAsk, ReadLock, ReadUnlock, GoSolve, DirectSolve,
           DirectTry, DeadlinePasses, ClientCalls, ClientTryStats
  <2> QED BY <2>1, <2>2 DEF StatsResult, TakeResult, DirectReturn
<1>3. SolveOver' /\ (got' = got \/ got'.of = started)
        => [SolveOver' /\ (got' # got => got'.of = started)]_ctlVars
  OBVIOUS
<1> QED BY <1>1, <1>2, <1>3, CtlInvariant, PTL DEF CtlSpec, ResultIsOwn

-----------------------------------------------------------------------------
(***************************************************************************)
(* PART 2: the pool of solvers.                                            *)
(***************************************************************************)
(***************************************************************************)
(* The inductive invariant.                                                *)
(***************************************************************************)
Members(a) == {a[i] : i \in DOMAIN a}
Distinct(a) == \A i, j \in DOMAIN a : a[i] = a[j] => i = j
InChan == Members(uRespChn)

(* A response and its request fit, whatever goroutine has it. *)
Fits(a) ==
  /\ a.Res = "unknown" => a.Req.Limit
  /\ a.Ms.kind # "none" => a.Ms.of = a.Req.Id
  /\ a.Ms.kind = "model" <=> a.Res = "sat" /\ "model" \in a.Req.Flag
  /\ a.Ms.kind = "why" <=> a.Res = "unsat" /\ "why" \in a.Req.Flag

(* A unit of the pool is free, or its response is in the channel, or its   *)
(* goroutine runs; the units which do not exist yet do nothing.            *)
UnitPlaces ==
  /\ Distinct(avail)
  /\ \A u \in Members(avail) : upc[u] = "idle"
  /\ \A a \in InChan : a.Who < nunits /\ upc[a.Who] = "idle" /\ a.Who \notin Members(avail)
  /\ \A u \in 0 .. nunits - 1 :
       upc[u] = "idle" => u \in Members(avail) \/ \E a \in InChan : a.Who = u
  /\ \A u \in Units : u >= nunits => upc[u] = "idle"

(* What the goroutine of a unit has: its request, the solver that solved   *)
(* that request last, and the response to it.                              *)
UnitWorks(u) ==
  /\ ureq[u] = NoReq <=> upc[u] \in {"idle", "gone"}
  /\ upc[u] \in {"run", "stop", "send"} => last[u] = ureq[u].Id
  /\ upc[u] = "stop" => ureq[u].Limit
  /\ uresp[u] = NoResp <=> upc[u] # "send"
  /\ upc[u] = "send" => uresp[u].Who = u /\ uresp[u].Req = ureq[u] /\ Fits(uresp[u])
  /\ search[u] # "unknown" => upc[u] \in {"run", "stop", "cancel"}
  /\ upc[u] \in {"cancel", "gone"} => closed

(* What the serving goroutine has, and what is in the channel to it. *)
ServeHas ==
  /\ mpc \in {"select", "shutdown", "over"} => mreq = NoReq
  /\ mpc = "handle" => mreq # NoReq
  /\ mresp = NoResp <=> mpc # "deliver"
  /\ mresp # NoResp => Fits(mresp)
  /\ \A a \in InChan : Fits(a)
  /\ mpc \in {"shutdown", "over"} => closed

(* A request is in one place only, and once it is answered in none. *)
RequestPlaces ==
  /\ \A c, d \in Clients : held[c] = held[d] /\ held[c] # NoReq => c = d
  /\ \A u, v \in Units : ureq[u] = ureq[v] /\ ureq[u] # NoReq => u = v
  /\ \A c \in Clients : held[c] \notin Pending \cup answered
  /\ Pending \cap answered = {}
  /\ mreq # NoReq =>
       mreq # mresp.Req /\ (\A u \in Units : mreq # ureq[u]) /\ \A a \in InChan : mreq # a.Req
  /\ mresp # NoResp =>
       (\A u \in Units : mresp.Req # ureq[u]) /\ \A a \in InChan : mresp.Req # a.Req
  /\ \A a \in InChan : \A u \in Units : a.Req # ureq[u]
  /\ \A c \in Clients : held[c].Id < count
  /\ \A r \in Pending \cup answered : r.Id < count

AxInv ==
  /\ AxTypeOK /\ FreeUntilCap /\ UnitPlaces /\ (\A u \in Units : UnitWorks(u))
  /\ ServeHas /\ RequestPlaces

-----------------------------------------------------------------------------
(***************************************************************************)
(* Lemmas about the operators.                                             *)
(***************************************************************************)

(* NoReq is no request and NoResp no response. *)
LEMMA NoneFacts ==
  /\ NoReq \notin Requests /\ NoResp \notin Responses
  /\ \A r \in Requests : r.Id \in 0 .. MaxReqs - 1 /\ r.Limit \in BOOLEAN
  /\ \A a \in Responses : /\ a.Req \in Requests /\ a.Who \in Units
                          /\ a.Res \in Results /\ a.Ms \in Data
  /\ NoReq.Id = -1 /\ NoResp.Req = NoReq
  /\ 0 \in Units /\ IsFiniteSet(Units) /\ Cardinality(Units) = Cap
<1>1. NoReq \notin Requests /\ NoReq.Id = -1 /\ NoResp.Req = NoReq
  BY MaxReqsAssumption DEF NoReq, Requests, NoResp
<1>2. NoResp \notin Responses
  BY <1>1 DEF Responses
<1>3. \A a \in Responses : /\ a.Req \in Requests /\ a.Who \in Units
                           /\ a.Res \in Results /\ a.Ms \in Data
  BY DEF Responses
<1>4. \A r \in Requests : r.Id \in 0 .. MaxReqs - 1 /\ r.Limit \in BOOLEAN
  BY DEF Requests
<1>5. 0 \in Units /\ IsFiniteSet(Units) /\ Cardinality(Units) = Cap
  BY CapAssumption, FS_Interval DEF Units
<1> QED BY <1>1, <1>2, <1>3, <1>4, <1>5

(* A sequence of at most one member, as the channel from the units is. *)
LEMMA ShortFacts ==
  ASSUME NEW S, NEW q \in Seq(S), Len(q) <= 1
  PROVE  \/ q = <<>> /\ Members(q) = {}
         \/ \E a \in S : q = <<a>> /\ Members(q) = {a} /\ Head(q) = a /\ Tail(q) = <<>>
<1>1. CASE Len(q) = 0
  BY <1>1 DEF Members
<1>2. CASE Len(q) = 1
  <2>1. PICK a \in S : a = q[1]
    BY <1>2
  <2>2. q = <<a>>
    BY <1>2, <2>1
  <2> QED BY <2>2 DEF Members
<1>3. PICK n \in Nat : n = Len(q)
  OBVIOUS
<1>4. n = 0 \/ n = 1
  BY <1>3
<1> QED BY <1>1, <1>2, <1>3, <1>4, Zenon

(* Appending adds a member at the end. *)
LEMMA AppendFacts ==
  ASSUME NEW S, NEW a \in Seq(S), NEW x \in S
  PROVE  /\ Append(a, x) \in Seq(S) /\ Append(a, x) # <<>>
         /\ Len(Append(a, x)) = Len(a) + 1
         /\ a # <<>> => Append(a, x)[1] = a[1]
         /\ Members(Append(a, x)) = Members(a) \cup {x}
         /\ Members(a) \subseteq S
         /\ Distinct(a) /\ x \notin Members(a) => Distinct(Append(a, x))
<1>1. PICK n \in Nat : n = Len(a) /\ DOMAIN a = 1 .. n
  OBVIOUS
<1>2. /\ Append(a, x) \in Seq(S) /\ Append(a, x) # <<>> /\ Len(Append(a, x)) = n + 1
      /\ DOMAIN Append(a, x) = 1 .. (n + 1)
      /\ \A i \in 1 .. n : Append(a, x)[i] = a[i]
      /\ Append(a, x)[n + 1] = x
  BY <1>1
<1>3. Members(Append(a, x)) = Members(a) \cup {x} /\ Members(a) \subseteq S
  BY <1>1, <1>2 DEF Members
<1>4. ASSUME Distinct(a), x \notin Members(a)
      PROVE  Distinct(Append(a, x))
  <2>1. \A i \in 1 .. n : a[i] # x
    BY <1>1, <1>4 DEF Members
  <2> QED BY <1>1, <1>2, <1>4, <2>1 DEF Distinct
<1> QED BY <1>1, <1>2, <1>3, <1>4

(* Taken takes the first element away and keeps the others. *)
LEMMA TakenFacts ==
  ASSUME NEW S, NEW a \in Seq(S), a # <<>>, Distinct(a)
  PROVE  /\ Taken(a) \in Seq(S) /\ Len(Taken(a)) = Len(a) - 1
         /\ Distinct(Taken(a))
         /\ Members(Taken(a)) = Members(a) \ {a[1]}
         /\ a[1] \in Members(a)
<1> DEFINE b == [a EXCEPT ![1] = a[Len(a)]]
<1>1. Len(a) \in Nat \ {0} /\ DOMAIN a = 1 .. Len(a)
  OBVIOUS
<1>2. b \in Seq(S) /\ Len(b) = Len(a)
  BY <1>1
<1>3. /\ Taken(a) \in Seq(S) /\ Len(Taken(a)) = Len(a) - 1
      /\ \A i \in 1 .. (Len(a) - 1) : Taken(a)[i] = b[i]
  BY <1>1, <1>2 DEF Taken
<1>4. \A i \in 1 .. (Len(a) - 1) : Taken(a)[i] = IF i = 1 THEN a[Len(a)] ELSE a[i]
  BY <1>1, <1>3
<1> HIDE DEF b
<1>5. DOMAIN Taken(a) = 1 .. (Len(a) - 1)
  BY <1>1, <1>3
<1>6. Distinct(Taken(a))
  BY <1>1, <1>4, <1>5 DEF Distinct
<1>7. Members(Taken(a)) \subseteq Members(a) \ {a[1]}
  BY <1>1, <1>4, <1>5 DEF Members, Distinct
<1>8. ASSUME NEW i \in 2 .. Len(a)
      PROVE  a[i] \in Members(Taken(a))
  <2>1. CASE i = Len(a)
    BY <1>1, <1>4, <1>5, <2>1 DEF Members
  <2>2. CASE i # Len(a)
    <3>1. Len(a) \in Nat
      BY <1>1
    <3>2. i \in 1 .. (Len(a) - 1) /\ i # 1
      BY <2>2, <3>1
    <3>3. i \in DOMAIN Taken(a) /\ Taken(a)[i] = a[i]
      BY <3>2, <1>4, <1>5
    <3> QED BY <3>3 DEF Members
  <2> QED BY <2>1, <2>2
<1>9. Members(a) \ {a[1]} \subseteq Members(Taken(a))
  BY <1>1, <1>8 DEF Members
<1>10. a[1] \in Members(a)
  BY <1>1 DEF Members
<1>11. Members(Taken(a)) = Members(a) \ {a[1]}
  BY <1>7, <1>9
<1> QED BY <1>3, <1>6, <1>10, <1>11

-----------------------------------------------------------------------------
(***************************************************************************)
(* The invariant holds initially and is preserved.                         *)
(***************************************************************************)
LEMMA InitAxInv == Init => AxInv
<1> SUFFICES ASSUME Init PROVE AxInv
  OBVIOUS
<1> USE NoneFacts, CapAssumption, MaxReqsAssumption
<1>1. avail \in Seq(0 .. nunits - 1) /\ DOMAIN avail = {1} /\ avail[1] = 0 /\ avail # <<>>
  BY DEF Init
<1>2. AxTypeOK /\ FreeUntilCap
  <2>1. nunits \in 1 .. Cap /\ next \in 0 .. nunits /\ count \in 0 .. MaxReqs
    BY DEF Init
  <2>2. uRespChn \in Seq(Responses) /\ Len(uRespChn) =< 1
    BY DEF Init
  <2>3. /\ held \in [Clients -> Requests \cup {NoReq}] /\ calling \in [Clients -> BOOLEAN]
        /\ upc \in [Units -> {"idle", "run", "stop", "send", "cancel", "gone"}]
        /\ ureq \in [Units -> Requests \cup {NoReq}] /\ search \in [Units -> Results]
        /\ last \in [Units -> -1 .. MaxReqs - 1] /\ uresp \in [Units -> Responses \cup {NoResp}]
    BY DEF Init, Results
  <2>4. closed \in BOOLEAN /\ answered \subseteq Requests /\ mpc = "select"
        /\ mreq \in Requests \cup {NoReq} /\ mresp \in Responses \cup {NoResp}
    BY DEF Init
  <2> QED BY <1>1, <2>1, <2>2, <2>3, <2>4 DEF AxTypeOK, FreeUntilCap
<1>3. InChan = {} /\ Members(avail) = {0}
  BY <1>1 DEF Init, InChan, Members
<1>4. UnitPlaces
  BY <1>1, <1>3 DEF UnitPlaces, Distinct, Init
<1>5. ASSUME NEW u \in Units PROVE UnitWorks(u)
  BY DEF Init, UnitWorks
<1>6. ServeHas
  BY <1>3 DEF ServeHas, Init
<1>7. Pending = {}
  BY DEF Init, Pending
<1>8. RequestPlaces
  BY <1>3, <1>7 DEF RequestPlaces, Init
<1> QED BY <1>2, <1>4, <1>5, <1>6, <1>8 DEF AxInv

(* Sending a response makes it the only one in the channel. *)
LEMMA SendEffect ==
  ASSUME AxInv, NEW u \in Units, UnitSend(u)
  PROVE  /\ uresp[u] \in Responses /\ uresp[u] # NoResp /\ InChan = {} /\ InChan' = {uresp[u]}
         /\ uRespChn = <<>> /\ uRespChn' = <<uresp[u]>>
<1>1. uresp[u] \in Responses /\ uresp[u] # NoResp
  BY DEF AxInv, AxTypeOK, UnitWorks, UnitSend
<1>2. uRespChn = <<>>
  <2>1. uRespChn \in Seq(Responses) /\ Len(uRespChn) <= 1
    BY DEF AxInv, AxTypeOK
  <2>2. ASSUME NEW a \in Responses, uRespChn = <<a>> PROVE FALSE
    BY <2>2 DEF UnitSend
  <2> QED BY <2>1, <2>2, ShortFacts
<1>3. uRespChn' = <<uresp[u]>>
  BY <1>2 DEF UnitSend
<1> QED BY <1>1, <1>2, <1>3 DEF InChan, Members

(* Taking a response from the channel frees its unit. *)
LEMMA TakeEffect ==
  ASSUME AxInv, TakeResp
  PROVE  \E a \in Responses :
           /\ uRespChn = <<a>> /\ uRespChn' = <<>> /\ InChan = {a} /\ InChan' = {}
           /\ mresp' = a /\ mpc' = "deliver" /\ mresp' # NoResp
           /\ a.Who \in 0 .. nunits - 1
           /\ avail' \in Seq(0 .. nunits - 1) /\ avail' # <<>>
           /\ Members(avail') = Members(avail) \cup {a.Who} /\ Distinct(avail')
<1> DEFINE S == 0 .. nunits - 1
<1>1. PICK a \in Responses : /\ uRespChn = <<a>> /\ InChan = {a}
                             /\ Head(uRespChn) = a /\ Tail(uRespChn) = <<>>
  BY ShortFacts DEF AxInv, AxTypeOK, TakeResp, InChan
<1>2. /\ mresp' = a /\ uRespChn' = <<>> /\ avail' = Append(avail, a.Who)
      /\ mpc' = "deliver" /\ InChan' = {}
  BY <1>1 DEF TakeResp, InChan, Members
<1>3. a.Who \in S /\ a.Who \notin Members(avail)
  BY <1>1, NoneFacts DEF AxInv, AxTypeOK, UnitPlaces, Units
<1>4. avail \in Seq(S) /\ Distinct(avail)
  BY DEF AxInv, AxTypeOK, UnitPlaces
<1>5. a # NoResp
  BY NoneFacts
<1> HIDE DEF S
<1>6. /\ avail' \in Seq(S) /\ avail' # <<>>
      /\ Members(avail') = Members(avail) \cup {a.Who} /\ Distinct(avail')
  BY <1>2, <1>3, <1>4, AppendFacts
<1> QED BY <1>1, <1>2, <1>3, <1>5, <1>6 DEF S

(* Dispatching takes a free unit out of the pool; a unit which is new is   *)
(* free.                                                                   *)
LEMMA DispatchEffect ==
  ASSUME AxInv, Dispatch
  PROVE  \E u \in 0 .. nunits - 1, N \in SUBSET {nunits} :
           /\ u \in Members(avail) /\ upc[u] = "idle" /\ mreq \in Requests
           /\ nunits' \in 1 .. Cap /\ nunits <= nunits'
           /\ 0 .. nunits' - 1 = (0 .. nunits - 1) \cup N
           /\ Members(avail') = (Members(avail) \cup N) \ {u}
           /\ avail' \in Seq(0 .. nunits' - 1) /\ Distinct(avail')
           /\ nunits' < Cap => avail' # <<>>
           /\ upc' = [upc EXCEPT ![u] = "run"] /\ ureq' = [ureq EXCEPT ![u] = mreq]
           /\ last' \in [Units -> -1 .. MaxReqs - 1] /\ last'[u] = mreq.Id
           /\ \A v \in Units : v # u /\ v \notin N => last'[v] = last[v]
<1> DEFINE u == avail[1]
           N == IF MustGrow THEN {nunits} ELSE {}
           a == IF MustGrow THEN Append(avail, nunits) ELSE avail
           S == 0 .. nunits' - 1
<1>1. /\ avail \in Seq(0 .. nunits - 1) /\ avail # <<>> /\ nunits \in 1 .. Cap
      /\ Distinct(avail)
  BY DEF AxInv, AxTypeOK, UnitPlaces, Dispatch
<1>2. u \in Members(avail) /\ u \in 0 .. nunits - 1 /\ u \in Units /\ upc[u] = "idle"
  <2>1. 1 \in DOMAIN avail /\ avail[1] \in 0 .. nunits - 1
    BY <1>1
  <2> QED BY <1>1, <2>1, CapAssumption DEF Members, AxInv, UnitPlaces, Units
<1>3. mreq \in Requests
  BY DEF AxInv, AxTypeOK, ServeHas, Dispatch
<1>4. nunits' = IF MustGrow THEN nunits + 1 ELSE nunits
  BY DEF Dispatch
<1>5. nunits' \in 1 .. Cap /\ nunits <= nunits' /\ S = (0 .. nunits - 1) \cup N
  <2>1. CASE MustGrow
    BY <1>1, <1>4, <2>1, CapAssumption DEF MustGrow
  <2>2. CASE ~ MustGrow
    BY <1>1, <1>4, <2>2
  <2> QED BY <2>1, <2>2
<1>6. avail \in Seq(S) /\ Members(avail) \subseteq 0 .. nunits - 1
  BY <1>1, <1>5 DEF Members
<1>7. /\ a \in Seq(S) /\ Members(a) = Members(avail) \cup N
      /\ Distinct(a) /\ a # <<>> /\ a[1] = u
      /\ nunits' < Cap => Len(a) # 1
  <2>1. CASE MustGrow
    <3>1. /\ Len(avail) = 1 /\ a = Append(avail, nunits) /\ N = {nunits}
          /\ nunits \in S /\ nunits \notin Members(avail)
      BY <1>1, <1>4, <1>5, <1>6, <2>1 DEF MustGrow
    <3> HIDE DEF S, N
    <3> QED BY <1>1, <1>6, <3>1, AppendFacts
  <2>2. CASE ~ MustGrow
    BY <1>1, <1>4, <1>6, <2>2 DEF MustGrow
  <2> QED BY <2>1, <2>2
<1>8. avail' = Taken(a)
  BY DEF Dispatch
<1>9. /\ avail' \in Seq(S) /\ Len(avail') = Len(a) - 1 /\ Distinct(avail')
      /\ Members(avail') = Members(a) \ {u}
  <2> HIDE DEF S, a
  <2> QED BY <1>7, <1>8, TakenFacts
<1>10. nunits' < Cap => avail' # <<>>
  <2>1. SUFFICES ASSUME nunits' < Cap, avail' = <<>> PROVE FALSE
    OBVIOUS
  <2>2. PICK n \in Nat : n = Len(a)
    BY <1>7
  <2>3. n # 1 /\ n - 1 = 0
    BY <1>7, <1>9, <2>1, <2>2
  <2> QED BY <2>3
<1>11. last' = [(IF MustGrow THEN [last EXCEPT ![nunits] = last[u]] ELSE last)
                  EXCEPT ![u] = mreq.Id]
  BY DEF Dispatch
<1>12. /\ last' \in [Units -> -1 .. MaxReqs - 1] /\ last'[u] = mreq.Id
       /\ \A v \in Units : v # u /\ v \notin N => last'[v] = last[v]
  <2>1. last \in [Units -> -1 .. MaxReqs - 1] /\ mreq.Id \in -1 .. MaxReqs - 1
    BY <1>3, NoneFacts, MaxReqsAssumption DEF AxInv, AxTypeOK
  <2> QED BY <1>2, <1>11, <2>1
<1>13. upc' = [upc EXCEPT ![u] = "run"] /\ ureq' = [ureq EXCEPT ![u] = mreq]
  BY DEF Dispatch
<1>14. N \in SUBSET {nunits}
  OBVIOUS
<1>15. S = 0 .. nunits' - 1
  OBVIOUS
<1> HIDE DEF u, N, a, S
<1> QED BY <1>2, <1>3, <1>5, <1>7, <1>9, <1>10, <1>12, <1>13, <1>14, <1>15

-----------------------------------------------------------------------------
(***************************************************************************)
(* The parts of the invariant, step by step.                               *)
(***************************************************************************)
(* The type invariant, and that a unit is free while the pool can grow.    *)
LEMMA TypeStep ==
  ASSUME AxInv, Next
  PROVE  AxTypeOK' /\ FreeUntilCap'
<1> USE NoneFacts DEF AxTypeOK, FreeUntilCap, clientVars, serveVars, unitVars
<1>0. AxTypeOK /\ FreeUntilCap
  BY DEF AxInv
<1>1. ASSUME NEW c \in Clients, NEW f \in Flags, NEW d \in BOOLEAN, NewRequest(c, f, d)
      PROVE  AxTypeOK' /\ FreeUntilCap'
  <2>1. [Id |-> count, Flag |-> f, Limit |-> d] \in Requests
    BY <1>0, <1>1, MaxReqsAssumption DEF NewRequest, Requests
  <2>2. count' \in 0 .. MaxReqs
    BY <1>0, <1>1, MaxReqsAssumption, SMTT(40) DEF NewRequest
  <2> QED BY <1>0, <1>1, <2>1, <2>2 DEF NewRequest
<1>2. ASSUME NEW c \in Clients, Ex(c) \/ Stop(c) \/ Accept(c)
      PROVE  AxTypeOK' /\ FreeUntilCap'
  BY <1>0, <1>2, ZenonT(40) DEF Ex, Stop, Accept
<1>3. ASSUME NEW c \in Clients, Receive(c)
      PROVE  AxTypeOK' /\ FreeUntilCap'
  <2>1. mresp.Req \in Requests
    BY <1>0, <1>3 DEF Receive, AxInv, ServeHas
  <2> QED BY <1>0, <1>3, <2>1 DEF Receive
<1>4. CASE SelectResp \/ AwaitResp
  <2>1. TakeResp
    BY <1>4 DEF SelectResp, AwaitResp
  <2>2. PICK a \in Responses : /\ uRespChn' = <<>> /\ mresp' = a /\ mpc' = "deliver"
                               /\ avail' \in Seq(0 .. nunits - 1) /\ avail' # <<>>
    BY <2>1, TakeEffect
  <2>3. uRespChn' \in Seq(Responses) /\ Len(uRespChn') =< 1
    BY <2>2
  <2> QED BY <1>0, <1>4, <2>2, <2>3 DEF SelectResp, AwaitResp
<1>5. CASE Dispatch
  <2>1. PICK u \in 0 .. nunits - 1 :
          /\ mreq \in Requests /\ nunits' \in 1 .. Cap /\ nunits <= nunits'
          /\ avail' \in Seq(0 .. nunits' - 1) /\ (nunits' < Cap => avail' # <<>>)
          /\ upc' = [upc EXCEPT ![u] = "run"] /\ ureq' = [ureq EXCEPT ![u] = mreq]
          /\ last' \in [Units -> -1 .. MaxReqs - 1]
    BY <1>5, DispatchEffect
  <2>2. next' \in 0 .. nunits'
    BY <1>0, <1>5, <2>1, CapAssumption DEF Dispatch
  <2>3. /\ UNCHANGED <<count, held, calling, closed, answered, mresp, uRespChn, search, uresp>>
        /\ mreq' = NoReq /\ mpc' = "select"
    BY <1>5 DEF Dispatch
  <2> QED BY <1>0, <2>1, <2>2, <2>3
<1>6. CASE SeeClosed \/ Cancel \/ ShutdownDone
  <2>1. next' \in 0 .. nunits'
    BY <1>0, <1>6, CapAssumption, SMTT(40) DEF SeeClosed, Cancel, ShutdownDone
  <2> QED BY <1>0, <1>6, <2>1, ZenonT(40) DEF SeeClosed, Cancel, ShutdownDone
<1>7. ASSUME NEW u \in Units, Decide(u) \/ UnitAlarm(u) \/ UnitCancelled(u)
      PROVE  AxTypeOK' /\ FreeUntilCap'
  <2>1. CASE Decide(u)
    BY <1>0, <2>1 DEF Decide, Results
  <2>2. CASE UnitAlarm(u)
    BY <1>0, <2>2 DEF UnitAlarm
  <2>3. CASE UnitCancelled(u)
    BY <1>0, <2>3 DEF UnitCancelled, Results
  <2> QED BY <1>7, <2>1, <2>2, <2>3
<1>8. ASSUME NEW u \in Units, UnitTick(u) \/ UnitStopped(u)
      PROVE  AxTypeOK' /\ FreeUntilCap'
  <2>1. PICK r \in Results : HandleResult(u, r) /\ upc[u] \in {"run", "stop"}
    BY <1>0, <1>8 DEF UnitTick, UnitStopped, Results
  <2>2. [Req |-> ureq[u], Who |-> u, Res |-> r, Ms |-> DataOf(u, r)] \in Responses
    <3>1. ureq[u] \in Requests
      <4>1. UnitWorks(u) /\ ureq[u] \in Requests \cup {NoReq}
        BY <1>0 DEF AxInv
      <4> QED BY <2>1, <4>1 DEF UnitWorks
    <3>2. DataOf(u, r) \in Data
      BY <1>0, MaxReqsAssumption DEF DataOf, Data, NoData
    <3> QED BY <3>1, <3>2 DEF Responses
  <2> QED BY <1>0, <1>8, <2>1, <2>2, ZenonT(40) DEF HandleResult, UnitTick, UnitStopped, Results
<1>9. ASSUME NEW u \in Units, UnitSend(u)
      PROVE  AxTypeOK' /\ FreeUntilCap'
  <2>1. PICK a \in Responses : uRespChn' = <<a>>
    BY <1>9, SendEffect
  <2>2. uRespChn' \in Seq(Responses) /\ Len(uRespChn') =< 1
    BY <2>1
  <2> QED BY <1>0, <1>9, <2>2 DEF UnitSend
<1> QED BY <1>1, <1>2, <1>3, <1>4, <1>5, <1>6, <1>7, <1>8, <1>9
        DEF Next, ClientStep, ServeStep, UnitStep

(* A unit that leaves avail runs, one whose response is taken becomes free,*)
(* and shutdown touches only units which run.                              *)
LEMMA UnitPlacesStep ==
  ASSUME AxInv, Next
  PROVE  UnitPlaces'
<1> USE NoneFacts DEF clientVars, serveVars, unitVars
<1>0. /\ UnitPlaces /\ nunits \in 1 .. Cap
      /\ upc \in [Units -> {"idle", "run", "stop", "send", "cancel", "gone"}]
      /\ uRespChn \in Seq(Responses) /\ avail \in Seq(0 .. nunits - 1)
      /\ 0 .. nunits - 1 \subseteq Units
  BY CapAssumption DEF AxInv, AxTypeOK, Units
<1>1. ASSUME UNCHANGED <<nunits, avail, uRespChn, upc>>
      PROVE  UnitPlaces'
  <2>1. nunits' = nunits /\ avail' = avail /\ upc' = upc
    BY <1>1
  <2>2. InChan' = InChan
    BY <1>1 DEF InChan
  <2> QED BY <1>0, <2>1, <2>2 DEF UnitPlaces
<1>2. CASE SelectResp \/ AwaitResp
  <2>1. TakeResp /\ UNCHANGED <<nunits, upc>>
    BY <1>2 DEF SelectResp, AwaitResp
  <2>2. PICK a \in Responses :
          /\ InChan = {a} /\ InChan' = {}
          /\ Members(avail') = Members(avail) \cup {a.Who} /\ Distinct(avail')
    BY <2>1, TakeEffect
  <2> QED BY <1>0, <2>1, <2>2 DEF UnitPlaces
<1>3. CASE Dispatch
  <2>1. UNCHANGED uRespChn /\ InChan' = InChan
    BY <1>3 DEF Dispatch, InChan, Members
  <2>2. PICK u \in 0 .. nunits - 1, N \in SUBSET {nunits} :
           /\ u \in Members(avail) /\ upc[u] = "idle"
           /\ nunits' \in 1 .. Cap /\ nunits <= nunits'
           /\ 0 .. nunits' - 1 = (0 .. nunits - 1) \cup N
           /\ Members(avail') = (Members(avail) \cup N) \ {u} /\ Distinct(avail')
           /\ upc' = [upc EXCEPT ![u] = "run"]
    BY <1>3, DispatchEffect
  <2>3. \A v \in 0 .. nunits - 1 : v # nunits
    BY <1>0
  <2>4. \A v \in Units : v \notin 0 .. nunits - 1 => v >= nunits
    BY <1>0 DEF Units
  <2>5. Members(avail) \subseteq 0 .. nunits - 1
    BY <1>0 DEF Members
  <2>6. \A v \in Members(avail') : upc'[v] = "idle"
    BY <1>0, <2>2, <2>3, <2>4, <2>5, CapAssumption DEF UnitPlaces, Units
  <2>7. \A a \in InChan' : a.Who < nunits' /\ upc'[a.Who] = "idle" /\ a.Who \notin Members(avail')
    <3>1. ASSUME NEW a \in InChan
          PROVE  /\ a.Who \in Units /\ a.Who < nunits /\ upc[a.Who] = "idle"
                 /\ a.Who \notin Members(avail)
      BY <1>0 DEF UnitPlaces, InChan, Members
    <3>2. \A v \in Units : v < nunits => v < nunits' /\ v \notin N
      BY <1>0, <2>2 DEF Units
    <3> QED BY <1>0, <2>1, <2>2, <3>1, <3>2
  <2>8. \A v \in 0 .. nunits' - 1 :
          upc'[v] = "idle" => v \in Members(avail') \/ \E a \in InChan' : a.Who = v
    BY <1>0, <2>1, <2>2, <2>3, ZenonT(40) DEF UnitPlaces
  <2>9. \A v \in Units : v >= nunits' => upc'[v] = "idle"
    BY <1>0, <2>2 DEF UnitPlaces, Units
  <2> QED BY <2>2, <2>6, <2>7, <2>8, <2>9 DEF UnitPlaces
<1>4. ASSUME NEW u \in Units, NEW l, l # "idle", upc' = [upc EXCEPT ![u] = l],
             upc[u] # "idle", UNCHANGED <<nunits, avail, uRespChn>>
      PROVE  UnitPlaces'
  <2>1. InChan' = InChan /\ Members(avail') = Members(avail) /\ (Distinct(avail) => Distinct(avail'))
    BY <1>4 DEF InChan, Members, Distinct
  <2>2. \A a \in InChan : a.Who \in Units
    BY <1>0 DEF InChan, Members
  <2> QED BY <1>0, <1>4, <2>1, <2>2 DEF UnitPlaces
<1>5. ASSUME NEW u \in Units, UnitSend(u)
      PROVE  UnitPlaces'
  <2>1. /\ InChan = {} /\ InChan' = {uresp[u]} /\ uresp[u].Who = u /\ upc[u] = "send"
        /\ upc' = [upc EXCEPT ![u] = "idle"] /\ UNCHANGED <<nunits, avail>>
    BY <1>5, SendEffect DEF UnitSend, AxInv, UnitWorks
  <2>2. Members(avail') = Members(avail) /\ (Distinct(avail) => Distinct(avail'))
    BY <2>1 DEF Members, Distinct
  <2>3. u < nunits
    BY <1>0, <2>1 DEF UnitPlaces, Units
  <2> QED BY <1>0, <2>1, <2>2, <2>3 DEF UnitPlaces
<1>6. CASE Cancel
  <2>1. next \in Units
    BY <1>0, <1>6, CapAssumption DEF Cancel, Units, AxInv, AxTypeOK
  <2> QED BY <1>4, <1>6, <2>1 DEF Cancel
<1>7. ASSUME NEW u \in Units, UnitTick(u) \/ UnitStopped(u) \/ UnitAlarm(u) \/ UnitCancelled(u)
      PROVE  UnitPlaces'
  BY <1>4, <1>7 DEF UnitTick, UnitStopped, UnitAlarm, UnitCancelled, HandleResult
<1> QED BY <1>1, <1>2, <1>3, <1>5, <1>6, <1>7
        DEF Next, ClientStep, ServeStep, UnitStep, NewRequest, Ex, Stop, Accept, Receive,
            SeeClosed, ShutdownDone, Decide

(* The goroutine of a unit keeps its request, and the solver that solved it*)
(* last, until it sends; getunit copies a solver into a unit that is idle. *)
LEMMA UnitWorksStep ==
  ASSUME AxInv, Next, NEW u \in Units
  PROVE  UnitWorks(u)'
<1> USE NoneFacts DEF clientVars, serveVars, unitVars
<1>0. /\ UnitWorks(u) /\ AxTypeOK /\ 0 .. nunits - 1 \subseteq Units
  BY CapAssumption DEF AxInv, AxTypeOK, Units
<1>1. ASSUME upc'[u] = upc[u], ureq'[u] = ureq[u], last'[u] = last[u],
             uresp'[u] = uresp[u], search'[u] = search[u], closed => closed'
      PROVE  UnitWorks(u)'
  BY <1>0, <1>1 DEF UnitWorks, Fits
<1>2. ASSUME NEW v \in Units, UnitStep(v), v # u
      PROVE  UnitWorks(u)'
  BY <1>0, <1>1, <1>2
     DEF UnitStep, Decide, UnitTick, UnitStopped, UnitAlarm, UnitCancelled, UnitSend,
         HandleResult, AxTypeOK
<1>3. CASE Decide(u)
  BY <1>0, <1>3 DEF Decide, UnitWorks, Fits, AxTypeOK
<1>4. CASE UnitTick(u) \/ UnitStopped(u)
  <2>1. PICK r \in Results :
          /\ HandleResult(u, r) /\ upc[u] \in {"run", "stop"}
          /\ r = "unknown" => ureq[u].Limit
          /\ UNCHANGED <<closed, ureq, last>>
    BY <1>0, <1>4 DEF UnitTick, UnitStopped, Results, UnitWorks, AxTypeOK
  <2>2. /\ uresp'[u] = [Req |-> ureq[u], Who |-> u, Res |-> r, Ms |-> DataOf(u, r)]
        /\ upc'[u] = "send" /\ search'[u] = "unknown"
    BY <1>0, <2>1 DEF HandleResult, AxTypeOK
  <2>3. ureq[u] # NoReq /\ last[u] = ureq[u].Id
    BY <1>0, <2>1 DEF UnitWorks
  <2>4. Fits(uresp'[u])
    BY <2>1, <2>2, <2>3 DEF Fits, DataOf, NoData, Results
  <2>5. uresp'[u] # NoResp
    BY <2>2, <2>3
  <2> QED BY <2>1, <2>2, <2>3, <2>4, <2>5 DEF UnitWorks, Fits
<1>5. CASE UnitAlarm(u)
  BY <1>0, <1>5 DEF UnitAlarm, UnitWorks, Fits, AxTypeOK
<1>6. CASE UnitSend(u)
  BY <1>0, <1>6 DEF UnitSend, UnitWorks, Fits, AxTypeOK
<1>7. CASE UnitCancelled(u)
  BY <1>0, <1>7 DEF UnitCancelled, UnitWorks, Fits, AxTypeOK
<1>8. CASE Cancel
  BY <1>0, <1>8 DEF Cancel, UnitWorks, Fits, AxTypeOK, AxInv, ServeHas
<1>9. CASE Dispatch
  <2>1. PICK w \in 0 .. nunits - 1, N \in SUBSET {nunits} :
           /\ upc[w] = "idle" /\ mreq \in Requests
           /\ upc' = [upc EXCEPT ![w] = "run"] /\ ureq' = [ureq EXCEPT ![w] = mreq]
           /\ last'[w] = mreq.Id
           /\ \A v \in Units : v # w /\ v \notin N => last'[v] = last[v]
    BY <1>9, DispatchEffect
  <2>2. UNCHANGED <<closed, search, uresp>>
    BY <1>9 DEF Dispatch
  <2>3. CASE u = w
    BY <1>0, <2>1, <2>2, <2>3 DEF UnitWorks, Fits, AxTypeOK
  <2>4. CASE u # w /\ u \notin N
    BY <1>0, <1>1, <2>1, <2>2, <2>4 DEF AxTypeOK
  <2>5. CASE u # w /\ u \in N
    <3>1. upc[u] = "idle"
      BY <1>0, <2>5 DEF AxInv, UnitPlaces, AxTypeOK
    <3>2. /\ upc'[u] = upc[u] /\ ureq'[u] = ureq[u] /\ uresp'[u] = uresp[u]
          /\ search'[u] = search[u] /\ closed' = closed
      BY <1>0, <2>1, <2>2, <2>5 DEF AxTypeOK
    <3> QED BY <1>0, <3>1, <3>2 DEF UnitWorks, Fits
  <2> QED BY <2>3, <2>4, <2>5
<1> QED BY <1>1, <1>2, <1>3, <1>4, <1>5, <1>6, <1>7, <1>8, <1>9
        DEF Next, ClientStep, ServeStep, UnitStep, NewRequest, Ex, Stop, Accept, Receive,
            SelectResp, AwaitResp, SeeClosed, ShutdownDone

(* handleReq has a request and handleResp a response, which fits it.       *)
LEMMA ServeHasStep ==
  ASSUME AxInv, Next
  PROVE  ServeHas'
<1> USE NoneFacts DEF clientVars, serveVars, unitVars
<1>0. ServeHas /\ AxTypeOK
  BY DEF AxInv
<1>1. ASSUME UNCHANGED <<mpc, mreq, mresp, uRespChn>>, closed => closed'
      PROVE  ServeHas'
  BY <1>0, <1>1 DEF ServeHas, InChan, Members, Fits
<1>2. CASE SelectResp \/ AwaitResp
  <2>1. TakeResp /\ UNCHANGED <<mreq, closed>>
    BY <1>2 DEF SelectResp, AwaitResp
  <2>2. PICK a \in Responses : /\ InChan = {a} /\ InChan' = {} /\ mresp' = a
                               /\ mpc' = "deliver" /\ mresp' # NoResp
    BY <2>1, TakeEffect
  <2> QED BY <1>0, <2>1, <2>2 DEF ServeHas, Fits
<1>3. CASE Dispatch
  BY <1>0, <1>3 DEF Dispatch, ServeHas, InChan, Members, Fits
<1>4. ASSUME NEW u \in Units, UnitSend(u)
      PROVE  ServeHas'
  <2>1. InChan' = {uresp[u]} /\ Fits(uresp[u]) /\ UNCHANGED <<mpc, mreq, mresp, closed>>
    BY <1>4, SendEffect DEF UnitSend, AxInv, UnitWorks
  <2> QED BY <1>0, <2>1 DEF ServeHas, Fits
<1>5. ASSUME NEW c \in Clients, Accept(c) \/ Receive(c)
      PROVE  ServeHas'
  BY <1>0, <1>5 DEF Accept, Receive, ServeHas, InChan, Members, Fits
<1>6. CASE SeeClosed \/ ShutdownDone
  BY <1>0, <1>6 DEF SeeClosed, ShutdownDone, ServeHas, InChan, Members, Fits
<1> QED BY <1>1, <1>2, <1>3, <1>4, <1>5, <1>6
        DEF Next, ClientStep, ServeStep, UnitStep, NewRequest, Ex, Stop, Cancel, Decide,
            UnitTick, UnitStopped, UnitAlarm, UnitCancelled, HandleResult

(***************************************************************************)
(* How the pending requests change.                                        *)
(***************************************************************************)
(* The pending requests, in terms of the places they are in.               *)
LEMMA PendingFacts ==
  /\ Pending = {r \in {mreq, mresp.Req} \cup {ureq[u] : u \in Units} \cup {a.Req : a \in InChan} :
                  r # NoReq}
  /\ \A r : r \in Pending <=> /\ r # NoReq
                              /\ \/ r = mreq \/ r = mresp.Req
                                 \/ \E u \in Units : r = ureq[u]
                                 \/ \E a \in InChan : r = a.Req
BY DEF Pending, InChan, Members

(* Which steps leave them alone, as a request moves from one place to the  *)
(* next.                                                                   *)
LEMMA PendingKept ==
  ASSUME AxInv, Next,
         ~ \E c \in Clients : Accept(c) \/ Receive(c), ~ \E u \in Units : UnitCancelled(u)
  PROVE  Pending' = Pending
<1> USE NoneFacts DEF clientVars, serveVars, unitVars
<1>0. AxTypeOK
  BY DEF AxInv
<1>1. ASSUME UNCHANGED <<mreq, mresp, ureq, uRespChn>>
      PROVE  Pending' = Pending
  BY <1>1 DEF Pending
<1>2. CASE SelectResp \/ AwaitResp
  <2>1. TakeResp /\ UNCHANGED <<mreq, ureq>> /\ mresp = NoResp
    BY <1>2 DEF SelectResp, AwaitResp, AxInv, ServeHas
  <2>2. PICK a \in Responses : uRespChn = <<a>> /\ uRespChn' = <<>> /\ mresp' = a
    BY <2>1, TakeEffect
  <2>3. {uRespChn[i].Req : i \in DOMAIN uRespChn} = {a.Req}
    BY <2>2
  <2>4. {uRespChn'[i].Req : i \in DOMAIN uRespChn'} = {}
    BY <2>2
  <2> QED BY <2>1, <2>2, <2>3, <2>4 DEF Pending
<1>3. CASE Dispatch
  <2>1. PICK u \in Units : mreq # NoReq /\ ureq[u] = NoReq /\ ureq' = [ureq EXCEPT ![u] = mreq]
    <3>1. PICK u \in 0 .. nunits - 1 :
            upc[u] = "idle" /\ mreq \in Requests /\ ureq' = [ureq EXCEPT ![u] = mreq]
      BY <1>3, DispatchEffect
    <3>2. u \in Units
      BY <1>0, <3>1, CapAssumption DEF AxTypeOK, Units
    <3> QED BY <3>1, <3>2 DEF AxInv, UnitWorks
  <2>2. mreq' = NoReq /\ UNCHANGED <<mresp, uRespChn>>
    BY <1>3 DEF Dispatch
  <2>3. {ureq'[v] : v \in Units} \cup {NoReq} = {ureq[v] : v \in Units} \cup {NoReq, mreq}
    BY <1>0, <2>1 DEF AxTypeOK
  <2> QED BY <2>2, <2>3 DEF Pending
<1>4. ASSUME NEW u \in Units, UnitSend(u)
      PROVE  Pending' = Pending
  <2>1. /\ uRespChn = <<>> /\ uRespChn' = <<uresp[u]>> /\ uresp[u].Req = ureq[u]
        /\ ureq' = [ureq EXCEPT ![u] = NoReq] /\ UNCHANGED <<mreq, mresp>>
    BY <1>4, SendEffect DEF UnitSend, AxInv, UnitWorks
  <2>2. {uRespChn[i].Req : i \in DOMAIN uRespChn} = {}
    BY <2>1
  <2>3. {uRespChn'[i].Req : i \in DOMAIN uRespChn'} = {ureq[u]}
    BY <2>1
  <2>4. {ureq'[v] : v \in Units} \cup {ureq[u], NoReq} = {ureq[v] : v \in Units} \cup {NoReq}
    BY <1>0, <2>1 DEF AxTypeOK
  <2> QED BY <2>1, <2>2, <2>3, <2>4 DEF Pending
<1> QED BY <1>1, <1>2, <1>3, <1>4
        DEF Next, ClientStep, ServeStep, UnitStep, NewRequest, Ex, Stop, SeeClosed, Cancel,
            ShutdownDone, Decide, UnitTick, UnitStopped, UnitAlarm, HandleResult

(* Accepting a request, answering and cancelling one. *)
LEMMA PendingAccept ==
  ASSUME AxInv, NEW c \in Clients, Accept(c)
  PROVE  /\ Pending' = Pending \cup {held[c]} /\ held[c] \in Requests
         /\ UNCHANGED <<answered, closed>> /\ ~ closed
<1>1. held[c] \in Requests /\ mreq = NoReq /\ held[c] # NoReq /\ mreq' = held[c]
  BY DEF AxInv, AxTypeOK, ServeHas, Accept
<1> QED BY <1>1 DEF Pending, Accept, serveVars, unitVars

(* Receive answers a pending request, which is pending nowhere else.       *)
LEMMA PendingReceive ==
  ASSUME AxInv, NEW c \in Clients, Receive(c)
  PROVE  /\ Pending' = Pending \ {mresp.Req} /\ answered' = answered \cup {mresp.Req}
         /\ mresp.Req \in Pending /\ mresp.Req \in Requests /\ UNCHANGED closed
<1>1. /\ mresp # NoResp /\ mresp \in Responses /\ mresp.Req \in Requests
      /\ mresp' = NoResp /\ mresp'.Req = NoReq
      /\ UNCHANGED <<mreq, ureq, uRespChn, closed>> /\ answered' = answered \cup {mresp.Req}
  BY NoneFacts DEF AxInv, AxTypeOK, ServeHas, Receive, unitVars
<1>2. /\ mresp.Req # NoReq /\ mreq # mresp.Req /\ \A u \in Units : mresp.Req # ureq[u]
      /\ \A i \in DOMAIN uRespChn : mresp.Req # uRespChn[i].Req
  BY <1>1, NoneFacts DEF AxInv, RequestPlaces, InChan, Members
<1>3. mresp.Req \in Pending
  BY <1>2 DEF Pending
<1>4. Pending' = Pending \ {mresp.Req}
  BY <1>1, <1>2 DEF Pending
<1> QED BY <1>1, <1>3, <1>4

(* A cancelled unit drops its request, after Stop only.                    *)
LEMMA PendingCancelled ==
  ASSUME AxInv, NEW u \in Units, UnitCancelled(u)
  PROVE  /\ Pending' = Pending \ {ureq[u]} /\ closed /\ UNCHANGED <<answered, closed>>
         /\ ureq[u] \in Requests
<1>1. /\ ureq[u] # NoReq /\ ureq[u] \in Requests /\ closed
      /\ ureq' = [ureq EXCEPT ![u] = NoReq] /\ ureq \in [Units -> Requests \cup {NoReq}]
      /\ UNCHANGED <<mreq, mresp, uRespChn, answered, closed>>
  <2>1. UnitWorks(u) /\ AxTypeOK
    BY DEF AxInv
  <2> QED BY <2>1 DEF UnitWorks, AxTypeOK, UnitCancelled, clientVars, serveVars
<1>2. /\ mreq # ureq[u] /\ mresp.Req # ureq[u]
      /\ \A v \in Units : ureq[v] = ureq[u] => v = u
      /\ \A i \in DOMAIN uRespChn : ureq[u] # uRespChn[i].Req
  BY <1>1, NoneFacts DEF AxInv, RequestPlaces, InChan, Members
<1>3. {ureq'[v] : v \in Units} \cup {NoReq} = ({ureq[v] : v \in Units} \ {ureq[u]}) \cup {NoReq}
  BY <1>1, <1>2
<1> QED BY <1>1, <1>2, <1>3 DEF Pending

(* The request moves from the client to handleReq, to a unit, to the       *)
(* channel, to handleResp and back, and is in one of these places only.    *)
LEMMA RequestPlacesStep ==
  ASSUME AxInv, Next
  PROVE  RequestPlaces'
<1> USE NoneFacts DEF clientVars, serveVars, unitVars
<1>0. RequestPlaces /\ AxTypeOK /\ ServeHas /\ count \in Nat
  BY MaxReqsAssumption DEF AxInv, AxTypeOK
<1>1. ASSUME UNCHANGED <<count, held, answered, mreq, mresp, ureq, uRespChn>>
      PROVE  RequestPlaces'
  BY <1>0, <1>1 DEF RequestPlaces, InChan, Members, Pending
<1>2. ASSUME NEW c \in Clients, NEW f \in Flags, NEW d \in BOOLEAN, NewRequest(c, f, d)
      PROVE  RequestPlaces'
  <2>1. PICK r : r = [Id |-> count, Flag |-> f, Limit |-> d]
    OBVIOUS
  <2>2. /\ held' = [held EXCEPT ![c] = r] /\ count' = count + 1 /\ r.Id = count
        /\ UNCHANGED <<answered, mreq, mresp, ureq, uRespChn>> /\ held[c] = NoReq
    BY <1>2, <2>1 DEF NewRequest
  <2>3. Pending' = Pending /\ InChan' = InChan
    BY <2>2 DEF Pending, InChan, Members
  <2>4. /\ \A q \in Requests \cup {NoReq} : q.Id \in Int
        /\ held \in [Clients -> Requests \cup {NoReq}]
        /\ answered \subseteq Requests /\ Pending \subseteq Requests
    BY <1>0, MaxReqsAssumption DEF AxTypeOK, Pending
  <2>5. r \notin Pending \cup answered /\ \A e \in Clients : held[e] # r
    BY <1>0, <2>2 DEF RequestPlaces
  <2>6. \A e \in Clients : held'[e] = IF e = c THEN r ELSE held[e]
    BY <2>2, <2>4
  <2>7. \A e \in Clients : held'[e].Id < count'
    BY <1>0, <2>2, <2>4, <2>6 DEF RequestPlaces
  <2>8. \A q \in Pending' \cup answered' : q.Id < count'
    BY <1>0, <2>2, <2>3, <2>4 DEF RequestPlaces
  <2>9. \A e, g \in Clients : held'[e] = held'[g] /\ held'[e] # NoReq => e = g
    BY <1>0, <2>5, <2>6, ZenonT(40) DEF RequestPlaces
  <2>10. \A e \in Clients : held'[e] \notin Pending' \cup answered'
    BY <1>0, <2>2, <2>3, <2>5, <2>6 DEF RequestPlaces
  <2>11. UNCHANGED <<answered, mreq, mresp, ureq, Pending, InChan>>
    BY <2>2, <2>3
  <2> QED BY <1>0, <2>7, <2>8, <2>9, <2>10, <2>11 DEF RequestPlaces
<1>3. ASSUME NEW c \in Clients, Accept(c)
      PROVE  RequestPlaces'
  <2>1. /\ held' = [held EXCEPT ![c] = NoReq] /\ mreq' = held[c] /\ mreq = NoReq
        /\ UNCHANGED <<count, answered, mresp, ureq, uRespChn>> /\ mresp = NoResp
        /\ held[c] # NoReq /\ InChan' = InChan
    BY <1>0, <1>3 DEF Accept, ServeHas, InChan, Members
  <2>2. Pending' = Pending \cup {held[c]} /\ held[c] \in Requests
    BY <1>3, PendingAccept
  <2>3. \A e \in Clients : held'[e] = IF e = c THEN NoReq ELSE held[e]
    BY <1>0, <2>1 DEF AxTypeOK
  <2>4. NoReq \notin Pending' \cup answered' /\ NoReq.Id < count
    BY <1>0, <2>1 DEF Pending, AxTypeOK
  <2>5. \A e \in Clients : held'[e] \notin Pending' \cup answered'
    BY <1>0, <2>1, <2>2, <2>3, <2>4 DEF RequestPlaces
  <2>6. /\ mreq' # mresp'.Req /\ (\A u \in Units : mreq' # ureq'[u])
        /\ \A a \in InChan' : mreq' # a.Req
    <3>1. held[c] \notin Pending
      BY <1>0 DEF RequestPlaces
    <3>2. (\A u \in Units : held[c] # ureq[u]) /\ \A a \in InChan : held[c] # a.Req
      BY <2>1, <3>1, PendingFacts
    <3> QED BY <2>1, <3>2
  <2> QED BY <1>0, <2>1, <2>2, <2>3, <2>4, <2>5, <2>6 DEF RequestPlaces
<1>4. CASE SelectResp \/ AwaitResp
  <2>1. TakeResp /\ UNCHANGED <<count, held, answered, mreq, ureq>> /\ mresp = NoResp
    BY <1>0, <1>4 DEF SelectResp, AwaitResp, ServeHas
  <2>2. PICK a \in Responses : InChan = {a} /\ InChan' = {} /\ mresp' = a
    BY <2>1, TakeEffect
  <2>3. Pending' = Pending
    BY <1>4, PendingKept DEF Next, ServeStep, SelectResp, AwaitResp, Accept, Receive, TakeResp,
                             UnitCancelled
  <2> QED BY <1>0, <2>1, <2>2, <2>3 DEF RequestPlaces
<1>5. ASSUME NEW c \in Clients, Receive(c)
      PROVE  RequestPlaces'
  <2>1. /\ Pending' = Pending \ {mresp.Req} /\ answered' = answered \cup {mresp.Req}
        /\ mresp.Req \in Pending /\ mresp.Req \in Requests
    BY <1>5, PendingReceive
  <2>2. /\ UNCHANGED <<count, held, mreq, ureq, uRespChn>> /\ mresp' = NoResp /\ InChan' = InChan
    BY <1>5 DEF Receive, InChan, Members
  <2>3. mreq' # NoReq => mreq' # mresp'.Req
    BY <2>2
  <2> QED BY <1>0, <2>1, <2>2, <2>3 DEF RequestPlaces
<1>6. CASE Dispatch
  <2>1. PICK u \in Units : mreq \in Requests /\ ureq[u] = NoReq /\ ureq' = [ureq EXCEPT ![u] = mreq]
    <3>1. PICK u \in 0 .. nunits - 1 :
            upc[u] = "idle" /\ mreq \in Requests /\ ureq' = [ureq EXCEPT ![u] = mreq]
      BY <1>6, DispatchEffect
    <3>2. u \in Units
      BY <1>0, <3>1, CapAssumption DEF AxTypeOK, Units
    <3> QED BY <3>1, <3>2 DEF AxInv, UnitWorks
  <2>2. /\ mreq' = NoReq /\ UNCHANGED <<count, held, answered, mresp, uRespChn>>
        /\ InChan' = InChan /\ mresp = NoResp
    BY <1>0, <1>6 DEF Dispatch, InChan, Members, ServeHas
  <2>3. Pending' = Pending
    BY <1>6, PendingKept DEF Next, ServeStep, Dispatch, Accept, Receive, UnitCancelled
  <2>4. \A v \in Units : ureq'[v] = IF v = u THEN mreq ELSE ureq[v]
    BY <1>0, <2>1 DEF AxTypeOK
  <2> QED BY <1>0, <2>1, <2>2, <2>3, <2>4 DEF RequestPlaces
<1>7. ASSUME NEW u \in Units, UnitSend(u)
      PROVE  RequestPlaces'
  <2>1. /\ InChan = {} /\ InChan' = {uresp[u]} /\ uresp[u].Req = ureq[u] /\ ureq[u] # NoReq
        /\ ureq' = [ureq EXCEPT ![u] = NoReq]
        /\ UNCHANGED <<count, held, answered, mreq, mresp>>
    BY <1>7, SendEffect DEF UnitSend, AxInv, UnitWorks
  <2>2. Pending' = Pending
    <3>1. upc[u] = "send" /\ UNCHANGED <<clientVars, serveVars>>
      BY <1>7 DEF UnitSend
    <3>2. ~ \E v \in Units : UnitCancelled(v)
      <4>1. uRespChn # uRespChn'
        BY <2>1, Zenon DEF InChan
      <4> QED BY <4>1 DEF UnitCancelled
    <3>3. ~ \E c \in Clients : Accept(c) \/ Receive(c)
      BY <3>1 DEF Accept, Receive
    <3> QED BY <1>7, <3>2, <3>3, PendingKept DEF Next, UnitStep
  <2>3. \A v \in Units : ureq'[v] = IF v = u THEN NoReq ELSE ureq[v]
    BY <1>0, <2>1 DEF AxTypeOK
  <2>4. \A v, w \in Units : ureq'[v] = ureq'[w] /\ ureq'[v] # NoReq => v = w
    BY <1>0, <2>3 DEF RequestPlaces
  <2>5. /\ mreq # NoReq => mreq # mresp.Req /\ (\A v \in Units : mreq # ureq'[v])
                         /\ \A a \in InChan' : mreq # a.Req
        /\ mresp # NoResp => /\ \A v \in Units : mresp.Req # ureq'[v]
                             /\ \A a \in InChan' : mresp.Req # a.Req
    BY <1>0, <2>1, <2>3 DEF RequestPlaces, AxTypeOK
  <2>6. \A a \in InChan' : \A v \in Units : a.Req # ureq'[v]
    BY <1>0, <2>1, <2>3 DEF RequestPlaces
  <2> QED BY <1>0, <2>1, <2>2, <2>4, <2>5, <2>6 DEF RequestPlaces
<1>8. ASSUME NEW u \in Units, UnitCancelled(u)
      PROVE  RequestPlaces'
  <2>1. Pending' = Pending \ {ureq[u]}
    BY <1>8, PendingCancelled
  <2>2. /\ ureq' = [ureq EXCEPT ![u] = NoReq] /\ InChan' = InChan
        /\ UNCHANGED <<count, held, answered, mreq, mresp>>
    BY <1>8 DEF UnitCancelled, InChan, Members
  <2>3. \A v \in Units : ureq'[v] = IF v = u THEN NoReq ELSE ureq[v]
    BY <1>0, <2>2 DEF AxTypeOK
  <2>4. \A a \in InChan : a.Req # NoReq
    BY <1>0 DEF AxTypeOK, InChan, Members
  <2>5. \A v, w \in Units : ureq'[v] = ureq'[w] /\ ureq'[v] # NoReq => v = w
    BY <1>0, <2>3 DEF RequestPlaces
  <2>6. /\ mreq # NoReq => mreq # mresp.Req /\ (\A v \in Units : mreq # ureq'[v])
                         /\ \A a \in InChan : mreq # a.Req
        /\ mresp # NoResp => /\ \A v \in Units : mresp.Req # ureq'[v]
                             /\ \A a \in InChan : mresp.Req # a.Req
    BY <1>0, <2>3 DEF RequestPlaces, AxTypeOK
  <2>7. \A a \in InChan : \A v \in Units : a.Req # ureq'[v]
    BY <1>0, <2>3, <2>4 DEF RequestPlaces
  <2> QED BY <1>0, <2>1, <2>2, <2>5, <2>6, <2>7 DEF RequestPlaces
<1> QED BY <1>1, <1>2, <1>3, <1>4, <1>5, <1>6, <1>7, <1>8
        DEF Next, ClientStep, ServeStep, UnitStep, Ex, Stop, SeeClosed, Cancel, ShutdownDone,
            Decide, UnitTick, UnitStopped, UnitAlarm, HandleResult

-----------------------------------------------------------------------------
(* Every step of the exchange preserves the inductive invariant.           *)
THEOREM AxInvariant == Spec => []AxInv
<1>1. AxInv /\ [Next]_axVars => AxInv'
  <2> SUFFICES ASSUME AxInv, [Next]_axVars PROVE AxInv'
    OBVIOUS
  <2>1. CASE Next
    BY <2>1, TypeStep, UnitPlacesStep, UnitWorksStep, ServeHasStep, RequestPlacesStep DEF AxInv
  <2>2. CASE UNCHANGED axVars
    BY <2>2 DEF axVars, clientVars, serveVars, unitVars, AxInv, AxTypeOK, FreeUntilCap,
                UnitPlaces, UnitWorks, ServeHas, RequestPlaces, InChan, Members, Distinct,
                Pending, Fits
  <2> QED BY <2>1, <2>2
<1> QED BY <1>1, InitAxInv, PTL DEF Spec

(* Each member of a sequence without repetition has one place in it.       *)
LEMMA PlacesOfMember ==
  ASSUME NEW a, Distinct(a), NEW u
  PROVE  Cardinality({i \in DOMAIN a : a[i] = u}) = IF u \in Members(a) THEN 1 ELSE 0
<1>1. CASE u \in Members(a)
  <2>1. PICK i \in DOMAIN a : a[i] = u
    BY <1>1 DEF Members
  <2>2. {j \in DOMAIN a : a[j] = u} = {i}
    BY <2>1 DEF Distinct
  <2> QED BY <1>1, <2>2, FS_Singleton
<1>2. CASE u \notin Members(a)
  <2>1. {j \in DOMAIN a : a[j] = u} = {}
    BY <1>2 DEF Members
  <2> QED BY <1>2, <2>1, FS_EmptySet
<1> QED BY <1>1, <1>2

(* A unit has at most one response in the channel.                         *)
LEMMA PlacesInChannel ==
  ASSUME AxTypeOK, NEW u
  PROVE  Cardinality(InChannel(u)) = IF \E a \in InChan : a.Who = u THEN 1 ELSE 0
<1>1. uRespChn \in Seq(Responses) /\ Len(uRespChn) <= 1
  BY DEF AxTypeOK
<1>2. CASE uRespChn = <<>> /\ InChan = {}
  <2>1. InChannel(u) = {}
    BY <1>2 DEF InChannel
  <2> QED BY <1>2, <2>1, FS_EmptySet
<1>3. ASSUME NEW a, uRespChn = <<a>>, InChan = {a}
      PROVE  Cardinality(InChannel(u)) = IF \E b \in InChan : b.Who = u THEN 1 ELSE 0
  <2>1. InChannel(u) = IF a.Who = u THEN {1} ELSE {}
    BY <1>3 DEF InChannel
  <2> QED BY <1>3, <2>1, FS_EmptySet, FS_Singleton
<1> QED BY <1>1, <1>2, <1>3, ShortFacts DEF InChan

(* The inductive invariant says where a unit is ...                        *)
LEMMA InvPoolPartition == AxInv => PoolPartition
<1> SUFFICES ASSUME AxInv, NEW u \in 0 .. nunits - 1
             PROVE  Cardinality(Free(u)) + Cardinality(InChannel(u)) = IF upc[u] = "idle" THEN 1 ELSE 0
  BY DEF PoolPartition, AxInv
<1>1. Cardinality(Free(u)) = IF u \in Members(avail) THEN 1 ELSE 0
  BY PlacesOfMember DEF AxInv, UnitPlaces, Free
<1>2. Cardinality(InChannel(u)) = IF \E a \in InChan : a.Who = u THEN 1 ELSE 0
  BY PlacesInChannel DEF AxInv
<1>3. /\ u \in Members(avail) => upc[u] = "idle"
      /\ (\E a \in InChan : a.Who = u) => upc[u] = "idle" /\ u \notin Members(avail)
      /\ upc[u] = "idle" => u \in Members(avail) \/ \E a \in InChan : a.Who = u
  BY DEF AxInv, UnitPlaces
<1> QED BY <1>1, <1>2, <1>3

(* ... and that each response fits its request.                            *)
LEMMA InvResponsesFit == AxInv => ResponsesFit
BY DEF AxInv, ResponsesFit, UnitWorks, ServeHas, Fits, InChan, Members

(* When the exchange may accept a request, each unit has at most one: its  *)
(* goroutine, or its response in the channel.                              *)
LEMMA PendingBounded ==
  ASSUME AxInv, mpc = "select"
  PROVE  Cardinality(Pending) <= Cap
<1>1. /\ AxTypeOK /\ mreq = NoReq /\ mresp.Req = NoReq
      /\ uRespChn \in Seq(Responses) /\ Len(uRespChn) <= 1
  BY NoneFacts DEF AxInv, ServeHas, AxTypeOK
<1>2. PICK g : DOMAIN g = Units /\ Pending \subseteq {g[u] : u \in Units}
  <2>1. CASE InChan = {}
    <3>1. \A r \in Pending : \E u \in Units : r = ureq[u]
      BY <1>1, <2>1, PendingFacts
    <3> QED BY <1>1, <3>1 DEF AxTypeOK
  <2>2. ASSUME NEW a \in Responses, InChan = {a}
        PROVE  \E g : DOMAIN g = Units /\ Pending \subseteq {g[u] : u \in Units}
    <3>1. a.Who \in Units /\ ureq[a.Who] = NoReq
      BY <2>2, NoneFacts DEF AxInv, UnitPlaces, UnitWorks
    <3> DEFINE f == [ureq EXCEPT ![a.Who] = a.Req]
    <3>2. DOMAIN f = Units /\ \A u \in Units : f[u] = IF u = a.Who THEN a.Req ELSE ureq[u]
      BY <1>1, <3>1 DEF AxTypeOK
    <3> HIDE DEF f
    <3>3. \A r \in Pending : r # NoReq /\ (r = a.Req \/ \E u \in Units : r = ureq[u])
      BY <1>1, <2>2, PendingFacts
    <3>4. \A r \in Pending : \E u \in Units : r = f[u]
      BY <3>1, <3>2, <3>3
    <3> QED BY <3>2, <3>4
  <2> QED BY <1>1, <2>1, <2>2, ShortFacts DEF InChan
<1> DEFINE T == {g[u] : u \in Units}
           f == [u \in Units |-> g[u]]
<1>3. f \in Surjection(Units, T)
  BY DEF Surjection
<1>4. IsFiniteSet(T) /\ Cardinality(T) <= Cap
  BY <1>3, FS_Surjection, NoneFacts
<1>5. Cardinality(Pending) <= Cardinality(T) /\ IsFiniteSet(Pending)
  BY <1>2, <1>4, FS_Subset
<1>6. Cardinality(Pending) \in Nat /\ Cardinality(T) \in Nat
  BY <1>4, <1>5, FS_CardinalityType
<1> QED BY <1>4, <1>5, <1>6, CapAssumption

-----------------------------------------------------------------------------
(***************************************************************************)
(* The theorems.                                                           *)
(***************************************************************************)

(* A unit is in one place: free once, or its goroutine runs, or its        *)
(* response is in the channel; so getunit hands a request only to a solver *)
(* that is not solving, and copies only such a solver.                     *)
THEOREM PoolPartitioned == Spec => []PoolPartition
BY AxInvariant, InvPoolPartition, PTL

(* A response has the result and the data of its own request.              *)
THEOREM ResponsesAreFit == Spec => []ResponsesFit
BY AxInvariant, InvResponsesFit, PTL

(* The pool implements Exchange: a request is accepted when at most Cap    *)
(* are pending, answered at most once, and lost only after Stop.           *)
THEOREM ExchangeImplemented == Spec => ImplementsExchange
<1> USE DEF clientVars, serveVars, unitVars
<1>1. Init => E!Init
  <2>1. Init => Pending = {}
    BY NoneFacts DEF Init, Pending
  <2> QED BY <2>1 DEF Init, E!Init
<1>2. AxInv /\ [Next]_axVars => [E!Next]_(E!exchangeVars)
  <2> SUFFICES ASSUME AxInv, [Next]_axVars
               PROVE  E!Next \/ UNCHANGED <<Pending, answered, closed>>
    BY DEF E!exchangeVars
  <2>1. ASSUME NEW c \in Clients, Accept(c)
        PROVE  E!Accept(held[c])
    <3>1. /\ Pending' = Pending \cup {held[c]} /\ UNCHANGED <<answered, closed>> /\ ~ closed
      BY <2>1, PendingAccept
    <3>2. held[c] \notin Pending \cup answered
      BY DEF AxInv, RequestPlaces
    <3>3. Cardinality(Pending) <= Cap
      BY <2>1, PendingBounded DEF Accept
    <3>4. E!Cardinality(Pending) = Cardinality(Pending)
      BY DEF Cardinality, E!Cardinality
    <3> QED BY <3>1, <3>2, <3>3, <3>4 DEF E!Accept
  <2>2. ASSUME NEW c \in Clients, Receive(c)
        PROVE  E!Answer(mresp.Req)
    BY <2>2, PendingReceive DEF E!Answer
  <2>3. ASSUME NEW u \in Units, UnitCancelled(u)
        PROVE  E!Drop(ureq[u])
    BY <2>3, PendingCancelled DEF E!Drop
  <2>4. ASSUME NEW c \in Clients, Stop(c)
        PROVE  E!Stop
    BY <2>4 DEF Stop, E!Stop, Pending
  <2>5. ASSUME Next, ~ \E c \in Clients : Accept(c) \/ Receive(c),
               ~ \E u \in Units : UnitCancelled(u), ~ \E c \in Clients : Stop(c)
        PROVE  UNCHANGED <<Pending, answered, closed>>
    <3>1. Pending' = Pending
      BY <2>5, PendingKept
    <3>2. UNCHANGED <<answered, closed>>
      BY <2>5 DEF Next, ClientStep, ServeStep, UnitStep, NewRequest, Ex, SelectResp, AwaitResp,
                  Dispatch, SeeClosed, Cancel, ShutdownDone, Decide, UnitTick, UnitAlarm,
                  UnitStopped, UnitSend
    <3> QED BY <3>1, <3>2
  <2>6. CASE UNCHANGED axVars
    BY <2>6 DEF axVars, Pending
  <2>7. /\ \A c \in Clients : Accept(c) => held[c] \in Requests
        /\ \A c \in Clients : Receive(c) => mresp.Req \in Requests
        /\ \A u \in Units : UnitCancelled(u) => ureq[u] \in Requests
    BY PendingAccept, PendingReceive, PendingCancelled
  <2> QED BY <2>1, <2>2, <2>3, <2>4, <2>5, <2>6, <2>7 DEF E!Next
<1> QED BY <1>1, <1>2, AxInvariant, PTL DEF Spec, ImplementsExchange, E!Spec
=============================================================================
