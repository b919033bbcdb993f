--------------------------- MODULE CircuitBreaker ---------------------------
(***************************************************************************)
(* The circuit breaker of the TypeScript SDK (client.ts): one record per   *)
(* peer URL, consulted before a request leaves and told of its outcome     *)
(* when it ends.  Requests overlap, so an outcome may arrive long after    *)
(* the circuit was opened by others.  The breaker is a library class: its  *)
(* callers are modelled as clients that ask canRequest, send at once when  *)
(* it says yes, and record success or failure at most once.                *)
(*                                                                         *)
(* Date.now() - lastFailure is kept as an age that stops growing once the  *)
(* backoff has passed, which is all canRequest compares it with.           *)
(***************************************************************************)
EXTENDS Naturals

CONSTANTS Url,           \* peers a client talks to
          MaxFailures,   \* failures that open the circuit (default 3)
          ResetTimeout,  \* backoff, in ticks of the clock
          MaxInFlight,   \* bound: requests a client keeps open per peer
          NoState        \* no entry in the map for that URL

ASSUME BreakerAssumption ==
    /\ MaxFailures \in Nat \ {0}
    /\ ResetTimeout \in Nat
    /\ MaxInFlight \in Nat \ {0}
    /\ NoState \notin [failures : Nat, status : {"healthy", "degraded", "unreachable"}]

VARIABLES states,     \* states[u]: the CircuitBreakerState of u
          age,        \* age[u]: ticks since its last failure
          inFlight    \* inFlight[u]: admitted requests whose outcome is due

breakerVars == <<states, age, inFlight>>

PeerStatus == {"healthy", "degraded", "unreachable"}
State == [failures : Nat, status : PeerStatus]
FreshState == [failures |-> 0, status |-> "healthy"]

BreakerTypeOK ==
    /\ states   \in [Url -> State \cup {NoState}]
    /\ age      \in [Url -> 0 .. ResetTimeout + 1]
    /\ inFlight \in [Url -> 0 .. MaxInFlight]

BreakerInit ==
    /\ states   = [u \in Url |-> NoState]
    /\ age      = [u \in Url |-> 0]
    /\ inFlight = [u \in Url |-> 0]

Open(u) == states[u] # NoState /\ states[u].status = "degraded"

BackoffOver(u) == age[u] > ResetTimeout

-----------------------------------------------------------------------------
Send(u) ==
    /\ inFlight[u] < MaxInFlight
    /\ inFlight' = [inFlight EXCEPT ![u] = @ + 1]

(* Mutant: an open circuit lets requests through. *)
CanRequestAlways(u) ==
    /\ Send(u)
    /\ UNCHANGED <<states, age>>

(* Mutant: after the backoff the entry is left as it is. *)
CanRequestKeepsState(u) ==
    /\ \/ states[u] = NoState
       \/ states[u] # NoState /\ states[u].status = "healthy"
       \/ Open(u) /\ BackoffOver(u)
    /\ Send(u)
    /\ UNCHANGED <<states, age>>

(* canRequest: no entry or a healthy one admits; unreachable never does; a  *)
(* degraded one is made healthy, with a clean count, once the backoff has   *)
(* passed.  A refusal changes nothing.                                     *)
CanRequest(u) ==
    /\ \/ /\ states[u] = NoState
          /\ UNCHANGED states
       \/ /\ states[u] # NoState
          /\ states[u].status = "healthy"
          /\ UNCHANGED states
       \/ /\ Open(u)
          /\ BackoffOver(u)
          /\ states' = [states EXCEPT ![u] = FreshState]
    /\ Send(u)
    /\ UNCHANGED age

Settle(u) ==
    /\ inFlight[u] > 0
    /\ inFlight' = [inFlight EXCEPT ![u] = @ - 1]

(* A success closes the circuit, however late it comes. *)
RecordSuccess(u) ==
    /\ Settle(u)
    /\ states' = [states EXCEPT ![u] = FreshState]
    /\ UNCHANGED age

(* Mutant: the circuit opens one failure too late. *)
RecordFailureLate(u) ==
    /\ Settle(u)
    /\ LET old   == IF states[u] = NoState THEN FreshState ELSE states[u]
           count == old.failures + 1
       IN states' = [states EXCEPT ![u] =
            [failures |-> count,
             status   |-> IF count > MaxFailures THEN "degraded" ELSE old.status]]
    /\ age' = [age EXCEPT ![u] = 0]

(* Mutant: a failure of a request sent earlier clears an open circuit. *)
RecordFailureRecounts(u) ==
    /\ Settle(u)
    /\ LET old   == IF states[u] = NoState \/ Open(u) THEN FreshState ELSE states[u]
           count == old.failures + 1
       IN states' = [states EXCEPT ![u] =
            [failures |-> count,
             status   |-> IF count >= MaxFailures THEN "degraded" ELSE old.status]]
    /\ age' = [age EXCEPT ![u] = 0]

(* A failure counts whenever it comes, and starts the backoff anew. *)
RecordFailure(u) ==
    /\ Settle(u)
    /\ LET old   == IF states[u] = NoState THEN FreshState ELSE states[u]
           count == old.failures + 1
       IN states' = [states EXCEPT ![u] =
            [failures |-> count,
             status   |-> IF count >= MaxFailures THEN "degraded" ELSE old.status]]
    /\ age' = [age EXCEPT ![u] = 0]

(* A request whose caller never records an outcome. *)
Forget(u) ==
    /\ Settle(u)
    /\ UNCHANGED <<states, age>>

Reset(u) ==
    /\ states[u] # NoState
    /\ states' = [states EXCEPT ![u] = NoState]
    /\ UNCHANGED <<age, inFlight>>

(* Time passes for every peer. *)
Tick ==
    /\ \E u \in Url : age[u] <= ResetTimeout
    /\ age' = [u \in Url |-> IF age[u] <= ResetTimeout THEN age[u] + 1 ELSE age[u]]
    /\ UNCHANGED <<states, inFlight>>

BreakerNext ==
    \/ \E u \in Url : \/ CanRequest(u)
                      \/ RecordSuccess(u)
                      \/ RecordFailure(u)
                      \/ Forget(u)
                      \/ Reset(u)
    \/ Tick

BreakerSpec == BreakerInit /\ [][BreakerNext]_breakerVars

(* The clock advances, every request ends (fetch settles), and clients keep *)
(* asking for a peer they want to reach.                                    *)
BreakerFairness ==
    /\ WF_breakerVars(Tick)
    /\ \A u \in Url : /\ WF_breakerVars(CanRequest(u))
                      /\ WF_breakerVars(RecordSuccess(u) \/ RecordFailure(u) \/ Forget(u))

FairBreakerSpec == BreakerSpec /\ BreakerFairness

-----------------------------------------------------------------------------
(* The circuit is open exactly when the count has reached the threshold,    *)
(* with outcomes arriving in any order; no peer becomes "unreachable",      *)
(* from which canRequest would never let it return.                        *)
OpenMeansTripped ==
    \A u \in Url : states[u] # NoState =>
        /\ Open(u) <=> states[u].failures >= MaxFailures
        /\ states[u].status # "unreachable"

(* An open circuit lets no new request out: the failures past the threshold *)
(* are only those of requests that were on their way when it tripped.       *)
OverrunBounded ==
    \A u \in Url : states[u] # NoState =>
        states[u].failures + inFlight[u] < MaxFailures + MaxInFlight

(* Failures alone never close a circuit before its backoff is over: it      *)
(* takes a success that was on its way, or an operator's reset.             *)
StaysOpen ==
    [][\A u \in Url : Open(u) /\ ~ BackoffOver(u) /\ ~ Open(u)' =>
         \/ states'[u] = NoState
         \/ states'[u] = FreshState /\ inFlight'[u] < inFlight[u]]_breakerVars

(* No circuit stays open for ever: late failures push the backoff back, but *)
(* nothing new is sent meanwhile, so they run out.                          *)
Reopens == \A u \in Url : Open(u) ~> ~ Open(u)
=============================================================================
