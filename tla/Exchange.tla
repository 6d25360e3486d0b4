------------------------------ MODULE Exchange ------------------------------
(***************************************************************************)
(* What an assumption exchange (ax.T) promises: an exchange either accepts *)
(* a request or hands out the response to one accepted before, at most Cap *)
(* requests are solved at a time and one more waits, and after Stop the    *)
(* accepted requests may be dropped.                                       *)
(***************************************************************************)
EXTENDS Naturals, FiniteSets

CONSTANTS
  Cap,      \* how many solvers there may be
  Requests

VARIABLES
  pending,   \* accepted requests without a response
  answered,  \* requests whose response was handed out
  stopped

exchangeVars == <<pending, answered, stopped>>

Init == pending = {} /\ answered = {} /\ stopped = FALSE

Accept(r) ==
  /\ ~ stopped /\ r \notin pending \cup answered /\ Cardinality(pending) =< Cap
  /\ pending' = pending \cup {r}
  /\ UNCHANGED <<answered, stopped>>

Answer(r) ==
  /\ r \in pending
  /\ pending' = pending \ {r}
  /\ answered' = answered \cup {r}
  /\ UNCHANGED stopped

Stop ==
  /\ stopped' = TRUE
  /\ UNCHANGED <<pending, answered>>

Drop(r) ==
  /\ stopped
  /\ pending' = pending \ {r}
  /\ UNCHANGED <<answered, stopped>>

Next ==
  \/ \E r \in Requests : Accept(r) \/ Answer(r) \/ Drop(r)
  \/ Stop

Spec == Init /\ [][Next]_exchangeVars
=============================================================================
