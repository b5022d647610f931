---------------------------- MODULE CircuitBreaker ----------------------------
(***************************************************************************)
(* plugins/observability/prometheus/circuit_breaker.go: the breaker every  *)
(* request to Prometheus goes through.                                     *)
(*                                                                         *)
(* Time passes the expiry at any moment; the breaker notices only when it  *)
(* is next asked.  beforeRequest and afterRequest hold the mutex from end  *)
(* to end and are one step each.  State moves the breaker on as they do,   *)
(* but under RLock: calls of State overlap with one another.               *)
(*                                                                         *)
(* The generation, a uint32, is compared for equality only; 2^32 changes   *)
(* of it during one request are not considered.  ConsecutiveSuccesses is   *)
(* left out: nothing depends on it.                                        *)
(***************************************************************************)
EXTENDS Integers, FiniteSets

CONSTANTS
  Caller,          \* goroutines that call Execute
  Observer,        \* goroutines that call State
  MaxRequests,     \* config.MaxRequests; NewCircuitBreakerClient replaces a 0
  Threshold,       \* ReadyToTrip: ConsecutiveFailures >= Threshold
  HasInterval,     \* config.Interval is not 0
  MaxGeneration,   \* bound: no request is made in this generation
  MaxCounted,      \* bound: requests counted in one generation
  NoRequest        \* the caller has no request under way

ASSUME CircuitBreakerAssumption ==
  /\ IsFiniteSet(Caller)
  /\ MaxRequests \in Nat \ {0}
  /\ Threshold \in Nat \ {0}
  /\ HasInterval \in BOOLEAN
  /\ MaxGeneration \in Nat
  /\ MaxCounted \in Nat
  /\ NoRequest \notin Nat

VARIABLES
  cb,        \* the CircuitBreaker
  request,   \* the generation that beforeRequest returned to a caller
  waiting,   \* callers whose request has returned and that wait for the mutex
  reading    \* what a call of State found: "none", "held" or "due"

vars == <<cb, request, waiting, reading>>

CircuitState == {"closed", "open", "halfOpen"}
Counts == [requests: Nat, successes: Nat, failures: Nat, failing: Nat]
NoCounts == [requests |-> 0, successes |-> 0, failures |-> 0, failing |-> 0]

\* expiry: the zero Time, a time to come, or one that is over.
Breakers == [state: CircuitState, counts: Counts, expiry: {"zero", "ahead", "past"},
             generation: Nat]

TypeOK ==
  /\ cb \in Breakers
  /\ request \in [Caller -> Nat \cup {NoRequest}]
  /\ waiting \subseteq {c \in Caller : request[c] # NoRequest}
  /\ reading \in [Observer -> {"none", "held", "due"}]
  /\ cb.counts.failing <= cb.counts.failures

\* NewCircuitBreaker sets an expiry even when there is no interval.
Init ==
  /\ cb = [state |-> "closed", counts |-> NoCounts, expiry |-> "ahead", generation |-> 0]
  /\ request = [c \in Caller |-> NoRequest]
  /\ waiting = {}
  /\ reading = [o \in Observer |-> "none"]

\* The callers whose requests belong to the current generation.
Current == {c \in Caller : request[c] = cb.generation}

muFree == \A o \in Observer : reading[o] = "none"

\* Counts.OnSuccess and Counts.OnFailure.
CountSuccess(n) == [n EXCEPT !.successes = @ + 1, !.failing = 0]
CountFailure(n) == [n EXCEPT !.failures = @ + 1, !.failing = @ + 1]

(***************************************************************************)
(* The methods that are called with the mutex held: breaker b becomes ...  *)
(***************************************************************************)

ExpiryOf(state) ==
  CASE state = "closed" -> IF HasInterval THEN "ahead" ELSE "zero"
    [] state = "open" -> "ahead"
    [] state = "halfOpen" -> "zero"

ToNewGeneration(b) ==
  [state |-> b.state, counts |-> NoCounts, expiry |-> ExpiryOf(b.state),
   generation |-> b.generation + 1]

SetState(b, state) ==
  IF b.state = state THEN b ELSE ToNewGeneration([b EXCEPT !.state = state])

Due(b) == b.expiry = "past" /\ b.state \in {"closed", "open"}

\* A mutant: an open breaker whose time is over closes.
CurrentStateCloses(b) ==
  IF ~Due(b) THEN b
  ELSE IF b.state = "closed" THEN ToNewGeneration(b) ELSE SetState(b, "closed")

CurrentState(b) ==
  IF ~Due(b) THEN b
  ELSE IF b.state = "closed" THEN ToNewGeneration(b) ELSE SetState(b, "halfOpen")

Rejects(b) ==
  \/ b.state = "open"
  \/ b.state = "halfOpen" /\ b.counts.requests >= MaxRequests

OnRequest(b) == [b EXCEPT !.counts.requests = @ + 1]

OnSuccess(b) ==
  LET counted == [b EXCEPT !.counts = CountSuccess(@)]
  IN IF b.state = "halfOpen" THEN SetState(counted, "closed") ELSE counted

\* A mutant: a failure in half-open is counted, no more.
OnFailureCountsOnly(b) ==
  LET counted == [b EXCEPT !.counts = CountFailure(@)]
      trips == b.state = "closed" /\ counted.counts.failing >= Threshold
  IN IF trips THEN SetState(counted, "open") ELSE counted

OnFailure(b) ==
  LET counted == [b EXCEPT !.counts = CountFailure(@)]
      trips == b.state = "closed" /\ counted.counts.failing >= Threshold
  IN IF trips \/ b.state = "halfOpen" THEN SetState(counted, "open") ELSE counted

(***************************************************************************)
(* Execute.                                                                *)
(***************************************************************************)

BeforeRequest(c) ==
  /\ muFree
  /\ request[c] = NoRequest
  /\ cb.generation < MaxGeneration /\ cb.counts.requests < MaxCounted
  /\ LET b == CurrentState(cb)
     IN \/ /\ Rejects(b)
           /\ cb' = b
           /\ UNCHANGED request
        \/ /\ ~Rejects(b)
           /\ cb' = OnRequest(b)
           /\ request' = [request EXCEPT ![c] = b.generation]
  /\ UNCHANGED <<waiting, reading>>

\* The request has returned, or panicked, which counts as a failure.
Returned(c) ==
  /\ request[c] # NoRequest
  /\ c \notin waiting
  /\ waiting' = waiting \cup {c}
  /\ UNCHANGED <<cb, request, reading>>

\* A mutant: the generation is not compared.
AfterRequestOfAny(c, success) ==
  /\ muFree
  /\ c \in waiting
  /\ LET b == CurrentState(cb)
     IN cb' = IF success THEN OnSuccess(b) ELSE OnFailure(b)
  /\ request' = [request EXCEPT ![c] = NoRequest]
  /\ waiting' = waiting \ {c}
  /\ UNCHANGED reading

AfterRequest(c, success) ==
  /\ muFree
  /\ c \in waiting
  /\ LET b == CurrentState(cb)
     IN cb' = IF b.generation # request[c] THEN b
              ELSE IF success THEN OnSuccess(b) ELSE OnFailure(b)
  /\ request' = [request EXCEPT ![c] = NoRequest]
  /\ waiting' = waiting \ {c}
  /\ UNCHANGED reading

(***************************************************************************)
(* State.                                                                  *)
(***************************************************************************)

\* RLock, which gives way to those who wait for Lock, and the test of
\* currentState.
StateTests(o) ==
  /\ reading[o] = "none"
  /\ waiting = {}
  /\ reading' = [reading EXCEPT ![o] = IF Due(cb) THEN "due" ELSE "held"]
  /\ UNCHANGED <<cb, request, waiting>>

\* What follows up to RUnlock.  A call that has tested before another one has
\* moved the breaker on does it again, or finds the state set already, or its
\* generation + 1 is the same as the other's.
StateReturns(o) ==
  /\ reading[o] # "none"
  /\ \/ reading[o] = "held" /\ UNCHANGED cb
     \/ reading[o] = "due" /\ Due(cb) /\ cb' = CurrentState(cb)
     \/ reading[o] = "due" /\ ~Due(cb) /\ cb' \in {cb, ToNewGeneration(cb)}
  /\ reading' = [reading EXCEPT ![o] = "none"]
  /\ UNCHANGED <<request, waiting>>

(***************************************************************************)
(* The clock.                                                              *)
(***************************************************************************)

Elapse ==
  /\ cb.expiry = "ahead"
  /\ cb.generation < MaxGeneration
  /\ cb' = [cb EXCEPT !.expiry = "past"]
  /\ UNCHANGED <<request, waiting, reading>>

-----------------------------------------------------------------------------

Next ==
  \/ \E c \in Caller : \/ BeforeRequest(c)
                       \/ Returned(c)
                       \/ \E success \in BOOLEAN : AfterRequest(c, success)
  \/ \E o \in Observer : StateTests(o) \/ StateReturns(o)
  \/ Elapse

\* Requests return, as the HTTP client has a timeout, and go on to take the
\* lock; a call of State ends.  Nobody has to make a request or call State.
Spec ==
  /\ Init
  /\ [][Next]_vars
  /\ \A c \in Caller : /\ WF_vars(Returned(c))
                       /\ WF_vars(\E success \in BOOLEAN : AfterRequest(c, success))
  /\ \A o \in Observer : WF_vars(StateReturns(o))

-----------------------------------------------------------------------------

\* Every request of the current generation is answered or still under way, so
\* no answer is counted for another generation, lost or counted twice.
CountsBalance ==
  cb.counts.requests = cb.counts.successes + cb.counts.failures + Cardinality(Current)

\* "MaxRequests is the maximum number of requests allowed to pass through when
\* the CircuitBreaker is half-open", and all those it let through are still
\* under way: the first answer takes it out of that state.
ProbesBounded ==
  cb.state = "halfOpen" => /\ cb.counts.requests = Cardinality(Current)
                           /\ Cardinality(Current) <= MaxRequests

\* No request under way can be taken for one of an open breaker, or of a
\* generation to come; a closed breaker has not seen enough failures in a row.
LateAnswersStale ==
  /\ \A c \in Caller : request[c] # NoRequest => request[c] <= cb.generation
  /\ cb.state = "open" => Current = {} /\ cb.counts = NoCounts
  /\ cb.state = "closed" => cb.counts.failing < Threshold

\* Calls of State move the breaker on under RLock without losing a request:
\* while one is about to do so a half-open breaker has let nobody through.
ReadersHarmless ==
  (\E o \in Observer : reading[o] = "due") /\ ~Due(cb) /\ cb.state # "closed"
    => cb.state = "halfOpen" /\ cb.counts = NoCounts /\ Current = {}

\* The breaker keeps the promise of module Breaker.
Promise == INSTANCE Breaker WITH
  state <- cb.state,
  admitted <- Current,
  probes <- IF cb.state = "halfOpen" THEN cb.counts.requests ELSE 0

KeepsPromise == Promise!Spec

\* A half-open breaker that rejects every request because it has let enough
\* through does not do so for ever: half-open has no expiry, so this hangs on
\* one of those requests being under way and its answer not being stale.
ProbesDecide ==
  (cb.state = "halfOpen" /\ cb.counts.requests >= MaxRequests) ~> cb.state # "halfOpen"

=============================================================================
