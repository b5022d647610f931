------------------------- MODULE CircuitBreakerProofs -------------------------
(***************************************************************************)
(* Proofs about CircuitBreaker for any number of callers and observers,    *)
(* any limits and any number of generations.                               *)
(*                                                                         *)
(* Every step passes the breaker through a chain of functions, so what is  *)
(* invariant is stated of any breaker b and any assignment q of callers to *)
(* generations (Good), and each function is shown to preserve it.          *)
(***************************************************************************)
EXTENDS CircuitBreaker, FiniteSetTheorems, TLAPS

\* The callers whose requests, assigned by q, belong to the generation of b.
In(b, q) == {c \in Caller : q[c] = b.generation}

\* The caller's request is of generation g, or over.
Assigned(q, c, g) == [q EXCEPT ![c] = g]
Freed(q, c) == [q EXCEPT ![c] = NoRequest]

Typed(b, q) ==
  /\ b \in Breakers
  /\ q \in [Caller -> Nat \cup {NoRequest}]
  /\ \A c \in Caller : q[c] # NoRequest => q[c] <= b.generation

Good(b, q) ==
  /\ Typed(b, q)
  /\ b.counts.failing <= b.counts.failures
  /\ b.state = "open" => In(b, q) = {} /\ b.counts = NoCounts
  /\ b.state = "closed" => b.counts.failing < Threshold
  /\ b.state = "halfOpen" => /\ b.counts.requests <= MaxRequests
                             /\ b.counts.successes = 0 /\ b.counts.failures = 0
  /\ b.counts.requests = b.counts.successes + b.counts.failures + Cardinality(In(b, q))

IInv ==
  /\ Good(cb, request)
  /\ waiting \subseteq {c \in Caller : request[c] # NoRequest}
  /\ reading \in [Observer -> {"none", "held", "due"}]
  /\ ReadersHarmless

-----------------------------------------------------------------------------

\* A new generation: nobody's request belongs to it, whatever came before.
LEMMA Renewed ==
  ASSUME NEW b, NEW q, Typed(b, q)
  PROVE  /\ Good(ToNewGeneration(b), q)
         /\ In(ToNewGeneration(b), q) = {}
         /\ ToNewGeneration(b).state = b.state
         /\ ToNewGeneration(b).counts = NoCounts
<1> DEFINE n == ToNewGeneration(b)
<1>1. ExpiryOf(b.state) \in {"zero", "ahead", "past"}
  BY DEF ExpiryOf, Typed, Breakers, CircuitState
<1>2. /\ n \in Breakers
      /\ n.state = b.state /\ n.counts = NoCounts
      /\ n.generation = b.generation + 1
  BY <1>1 DEF ToNewGeneration, Typed, Breakers, Counts, NoCounts
<1>3. In(n, q) = {}
  BY <1>2, CircuitBreakerAssumption DEF In, Typed, Breakers
<1>4. Typed(n, q)
  BY <1>2 DEF Typed, Breakers
<1>5. Cardinality(In(n, q)) = 0
  BY <1>3, FS_EmptySet
<1>6. n.counts.failing < Threshold /\ n.counts.requests <= MaxRequests
  BY <1>2, CircuitBreakerAssumption DEF NoCounts
<1> QED
  BY <1>2, <1>3, <1>4, <1>5, <1>6 DEF Good, NoCounts

\* The same after a change of state.
LEMMA StateSet ==
  ASSUME NEW b, NEW q, Typed(b, q), NEW s \in CircuitState, b.state # s
  PROVE  /\ Good(SetState(b, s), q)
         /\ In(SetState(b, s), q) = {}
         /\ SetState(b, s).state = s
         /\ SetState(b, s).counts = NoCounts
<1> DEFINE n == [b EXCEPT !.state = s]
<1>1. Typed(n, q) /\ n.state = s
  BY DEF Typed, Breakers
<1>2. SetState(b, s) = ToNewGeneration(n)
  BY DEF SetState
<1> HIDE DEF n
<1> QED
  BY <1>1, <1>2, Renewed

\* The callers are finitely many, and so are those of a generation.
LEMMA InFinite ==
  ASSUME NEW b, NEW q
  PROVE  IsFiniteSet(In(b, q)) /\ Cardinality(In(b, q)) \in Nat
<1>1. In(b, q) \subseteq Caller
  BY DEF In
<1>2. IsFiniteSet(In(b, q))
  BY <1>1, FS_Subset, CircuitBreakerAssumption
<1> QED
  BY <1>2, FS_CardinalityType

\* currentState moves a breaker on, and the requests under way become stale
\* when it does.
LEMMA Moved ==
  ASSUME NEW b, NEW q, Good(b, q)
  PROVE  /\ Good(CurrentState(b), q)
         /\ ~Due(b) => CurrentState(b) = b
         /\ Due(b) => /\ In(CurrentState(b), q) = {}
                      /\ CurrentState(b).counts = NoCounts
                      /\ \/ b.state = "closed" /\ CurrentState(b).state = "closed"
                         \/ b.state = "open" /\ CurrentState(b).state = "halfOpen"
<1>0. Typed(b, q)
  BY DEF Good
<1>1. CASE ~Due(b)
  BY <1>1 DEF CurrentState
<1>2. CASE Due(b) /\ b.state = "closed"
  <2>1. CurrentState(b) = ToNewGeneration(b)
    BY <1>2 DEF CurrentState
  <2> QED
    BY <1>0, <1>2, <2>1, Renewed
<1>3. CASE Due(b) /\ b.state # "closed"
  <2>1. b.state = "open" /\ CurrentState(b) = SetState(b, "halfOpen")
    BY <1>3 DEF CurrentState, Due
  <2>2. "halfOpen" \in CircuitState
    BY DEF CircuitState
  <2> QED
    BY <1>0, <1>3, <2>1, <2>2, StateSet
<1> QED
  BY <1>1, <1>2, <1>3

\* A request is let through and counted.
LEMMA Admitted ==
  ASSUME NEW b, NEW q, Good(b, q), ~Rejects(b), NEW c \in Caller, q[c] = NoRequest
  PROVE  /\ Good(OnRequest(b), Assigned(q, c, b.generation))
         /\ In(OnRequest(b), Assigned(q, c, b.generation)) = In(b, q) \cup {c}
         /\ c \notin In(b, q)
         /\ OnRequest(b).state = b.state
         /\ OnRequest(b).counts.requests = b.counts.requests + 1
<1> DEFINE n == OnRequest(b)
           r == Assigned(q, c, b.generation)
<1>1. b \in Breakers /\ Typed(b, q)
  BY DEF Good, Typed
<1>2. /\ n \in Breakers
      /\ n.state = b.state /\ n.generation = b.generation
      /\ n.counts.requests = b.counts.requests + 1
      /\ n.counts.successes = b.counts.successes
      /\ n.counts.failures = b.counts.failures
      /\ n.counts.failing = b.counts.failing
  BY <1>1 DEF OnRequest, Breakers, Counts
<1>3. c \notin In(b, q)
  BY <1>1, CircuitBreakerAssumption DEF In, Breakers
<1>4. In(n, r) = In(b, q) \cup {c}
  BY <1>1, <1>2 DEF In, Typed, Breakers, Assigned
<1>5. Cardinality(In(n, r)) = Cardinality(In(b, q)) + 1
  BY <1>3, <1>4, InFinite, FS_AddElement
<1>6. Typed(n, r)
  BY <1>1, <1>2 DEF Typed, Breakers, Assigned
<1>7. b.state # "open" /\ (b.state = "halfOpen" => b.counts.requests < MaxRequests)
  BY <1>1, CircuitBreakerAssumption DEF Rejects, Breakers, Counts
<1>8. Good(n, r)
  <2>1. b.counts \in Counts /\ Cardinality(In(b, q)) \in Nat
    BY <1>1, InFinite DEF Breakers
  <2> QED
    BY <1>2, <1>5, <1>6, <1>7, <2>1, CircuitBreakerAssumption DEF Good, Counts
<1> QED
  BY <1>2, <1>3, <1>4, <1>8

\* The answer to a request of another generation.
LEMMA Ignored ==
  ASSUME NEW b, NEW q, Good(b, q), NEW c \in Caller, b.generation # q[c]
  PROVE  Good(b, Freed(q, c)) /\ In(b, Freed(q, c)) = In(b, q)
<1> DEFINE r == Freed(q, c)
<1>1. Typed(b, q)
  BY DEF Good
<1>2. In(b, r) = In(b, q)
  BY <1>1, CircuitBreakerAssumption DEF In, Typed, Breakers, Freed
<1>3. Typed(b, r)
  BY <1>1 DEF Typed, Freed
<1> QED
  BY <1>2, <1>3 DEF Good

\* The answer to a request of this generation, once counted as a success or as
\* a failure: what both cases need.
LEMMA Answered ==
  ASSUME NEW b, NEW q, Good(b, q), NEW c \in Caller, b.generation = q[c],
         NEW n \in Breakers, n.generation = b.generation
  PROVE  /\ Typed(n, Freed(q, c))
         /\ In(n, Freed(q, c)) = In(b, q) \ {c}
         /\ c \in In(b, q)
         /\ Cardinality(In(b, q)) \in Nat
         /\ Cardinality(In(n, Freed(q, c))) = Cardinality(In(b, q)) - 1
<1> DEFINE r == Freed(q, c)
<1>1. Typed(b, q)
  BY DEF Good
<1>2. c \in In(b, q)
  BY DEF In
<1>3. In(n, r) = In(b, q) \ {c}
  BY <1>1, CircuitBreakerAssumption DEF In, Typed, Breakers, Freed
<1>4. Typed(n, r)
  BY <1>1 DEF Typed, Freed
<1>5. Cardinality(In(n, r)) = Cardinality(In(b, q)) - 1
  BY <1>2, <1>3, InFinite, FS_RemoveElement
<1> QED
  BY <1>2, <1>3, <1>4, <1>5, InFinite

\* onSuccess: a half-open breaker closes, a closed one counts.
LEMMA Succeeded ==
  ASSUME NEW b, NEW q, Good(b, q), NEW c \in Caller, b.generation = q[c]
  PROVE  /\ Good(OnSuccess(b), Freed(q, c))
         /\ c \in In(b, q)
         /\ \/ /\ b.state = "closed" /\ OnSuccess(b).state = "closed"
               /\ In(OnSuccess(b), Freed(q, c)) = In(b, q) \ {c}
            \/ /\ b.state = "halfOpen" /\ OnSuccess(b).state = "closed"
               /\ In(OnSuccess(b), Freed(q, c)) = {}
<1> DEFINE k == CountSuccess(b.counts)
           counted == [b EXCEPT !.counts = k]
           r == Freed(q, c)
<1>1. b \in Breakers /\ b.counts \in Counts
  BY DEF Good, Typed, Breakers
<1>k. /\ k.requests = b.counts.requests
      /\ k.successes = b.counts.successes + 1
      /\ k.failures = b.counts.failures
      /\ k.failing = 0
  BY <1>1 DEF Counts, CountSuccess
<1>n. b.counts.successes + 1 \in Nat
  BY <1>1 DEF Counts
<1>c. k \in Counts
  BY <1>1, <1>n, Zenon DEF Counts, CountSuccess
<1>a. OnSuccess(b) = IF b.state = "halfOpen" THEN SetState(counted, "closed") ELSE counted
  BY DEF OnSuccess
<1> HIDE DEF k
<1>2. /\ counted \in Breakers
      /\ counted.state = b.state /\ counted.generation = b.generation
      /\ counted.counts = k
  BY <1>1, <1>c DEF Breakers
<1> HIDE DEF counted
<1>3. /\ Typed(counted, r)
      /\ In(counted, r) = In(b, q) \ {c}
      /\ c \in In(b, q)
      /\ Cardinality(In(b, q)) \in Nat
      /\ Cardinality(In(counted, r)) = Cardinality(In(b, q)) - 1
  BY <1>2, Answered
<1>4. b.state \in {"closed", "halfOpen"}
  BY <1>1, <1>3 DEF Good, Breakers, CircuitState
<1>5. CASE b.state = "closed"
  <2>1. OnSuccess(b) = counted
    BY <1>5, <1>a
  <2>2. Good(counted, r)
    BY <1>1, <1>2, <1>3, <1>5, <1>c, <1>k, CircuitBreakerAssumption DEF Good, Counts
  <2> QED
    BY <1>2, <1>3, <1>5, <2>1, <2>2
<1>6. CASE b.state = "halfOpen"
  <2>1. OnSuccess(b) = SetState(counted, "closed") /\ "closed" \in CircuitState
    BY <1>6, <1>a DEF CircuitState
  <2> QED
    BY <1>2, <1>3, <1>6, <2>1, StateSet
<1> QED
  BY <1>4, <1>5, <1>6

\* onFailure: a half-open breaker opens again, a closed one when it trips.
LEMMA Failed ==
  ASSUME NEW b, NEW q, Good(b, q), NEW c \in Caller, b.generation = q[c]
  PROVE  /\ Good(OnFailure(b), Freed(q, c))
         /\ c \in In(b, q)
         /\ \/ /\ b.state = "closed" /\ OnFailure(b).state = "closed"
               /\ In(OnFailure(b), Freed(q, c)) = In(b, q) \ {c}
            \/ /\ b.state \in {"closed", "halfOpen"} /\ OnFailure(b).state = "open"
               /\ In(OnFailure(b), Freed(q, c)) = {}
<1> DEFINE k == CountFailure(b.counts)
           counted == [b EXCEPT !.counts = k]
           trips == b.state = "closed" /\ counted.counts.failing >= Threshold
           r == Freed(q, c)
<1>1. b \in Breakers /\ b.counts \in Counts
  BY DEF Good, Typed, Breakers
<1>k. /\ k.requests = b.counts.requests
      /\ k.successes = b.counts.successes
      /\ k.failures = b.counts.failures + 1
      /\ k.failing = b.counts.failing + 1
  BY <1>1 DEF Counts, CountFailure
<1>n. b.counts.failures + 1 \in Nat /\ b.counts.failing + 1 \in Nat
  BY <1>1 DEF Counts
<1>c. k \in Counts
  BY <1>1, <1>n, Zenon DEF Counts, CountFailure
<1>a. OnFailure(b) = 
        IF trips \/ b.state = "halfOpen" THEN SetState(counted, "open") ELSE counted
  BY DEF OnFailure
<1> HIDE DEF k
<1>2. /\ counted \in Breakers
      /\ counted.state = b.state /\ counted.generation = b.generation
      /\ counted.counts = k
  BY <1>1, <1>c DEF Breakers
<1> HIDE DEF counted
<1>3. /\ Typed(counted, r)
      /\ In(counted, r) = In(b, q) \ {c}
      /\ c \in In(b, q)
      /\ Cardinality(In(b, q)) \in Nat
      /\ Cardinality(In(counted, r)) = Cardinality(In(b, q)) - 1
  BY <1>2, Answered
<1>4. b.state \in {"closed", "halfOpen"}
  BY <1>1, <1>3 DEF Good, Breakers, CircuitState
<1>5. CASE b.state = "closed" /\ ~trips
  <2>1. OnFailure(b) = counted
    BY <1>5, <1>a
  <2>2. counted.counts.failing < Threshold
    BY <1>1, <1>2, <1>5, <1>c, <1>k, CircuitBreakerAssumption DEF Counts
  <2>3. Good(counted, r)
    BY <1>1, <1>2, <1>3, <1>5, <1>c, <1>k, <2>2, CircuitBreakerAssumption DEF Good, Counts
  <2> QED
    BY <1>2, <1>3, <1>5, <2>1, <2>3
<1>6. CASE trips \/ b.state = "halfOpen"
  <2>1. OnFailure(b) = SetState(counted, "open") /\ "open" \in CircuitState
    BY <1>6, <1>a DEF CircuitState
  <2> QED
    BY <1>2, <1>3, <1>4, <1>6, <2>1, StateSet
<1> QED
  BY <1>4, <1>5, <1>6

-----------------------------------------------------------------------------

\* The initial breaker is closed and has counted nothing.
LEMMA InvInit == Init => IInv
<1> SUFFICES ASSUME Init PROVE IInv
  OBVIOUS
<1>1. cb \in Breakers
  BY DEF Init, Breakers, Counts, NoCounts, CircuitState
<1>2. In(cb, request) = {}
  BY CircuitBreakerAssumption DEF Init, In
<1>3. Cardinality(In(cb, request)) = 0
  BY <1>2, FS_EmptySet
<1>4. Typed(cb, request)
  BY <1>1 DEF Init, Typed
<1>5. Good(cb, request)
  BY <1>2, <1>3, <1>4, CircuitBreakerAssumption DEF Init, Good, NoCounts
<1> QED
  BY <1>5 DEF Init, IInv, ReadersHarmless

\* Nobody is moving the breaker on when the lock is free.
LEMMA BeforeRequestStep ==
  ASSUME IInv, NEW c \in Caller, BeforeRequest(c)
  PROVE  IInv'
<1> DEFINE b == CurrentState(cb)
<1>1. Good(b, request) /\ request[c] = NoRequest
  BY Moved DEF IInv, BeforeRequest
<1>2. Good(cb', request')
  <2>1. CASE Rejects(b) /\ cb' = b /\ UNCHANGED request
    BY <1>1, <2>1
  <2>2. CASE /\ ~Rejects(b) /\ cb' = OnRequest(b)
             /\ request' = Assigned(request, c, b.generation)
    BY <1>1, <2>2, Admitted
  <2> QED
    BY <2>1, <2>2 DEF BeforeRequest, Assigned
<1>3. waiting' \subseteq {d \in Caller : request'[d] # NoRequest}
  <2>1. request \in [Caller -> Nat \cup {NoRequest}]
    BY DEF IInv, Good, Typed
  <2>2. b.generation \in Nat
    BY <1>1 DEF Good, Typed, Breakers
  <2> QED
    BY <2>1, <2>2, CircuitBreakerAssumption DEF IInv, BeforeRequest
<1>4. reading' = reading /\ ReadersHarmless'
  BY DEF BeforeRequest, muFree, ReadersHarmless
<1> QED
  BY <1>2, <1>3, <1>4 DEF IInv

\* The answer is ignored or counted.
LEMMA AfterRequestStep ==
  ASSUME IInv, NEW c \in Caller, NEW success \in BOOLEAN, AfterRequest(c, success)
  PROVE  IInv'
<1> DEFINE b == CurrentState(cb)
<1>1. Good(b, request) /\ request' = Freed(request, c)
  BY Moved DEF IInv, AfterRequest, Freed
<1>2. Good(cb', request')
  <2>1. CASE b.generation # request[c]
    <3>1. cb' = b
      BY <2>1 DEF AfterRequest
    <3> QED
      BY <1>1, <2>1, <3>1, Ignored
  <2>2. CASE b.generation = request[c] /\ success
    <3>1. cb' = OnSuccess(b)
      BY <2>2 DEF AfterRequest
    <3> QED
      BY <1>1, <2>2, <3>1, Succeeded
  <2>3. CASE b.generation = request[c] /\ ~success
    <3>1. cb' = OnFailure(b)
      BY <2>3 DEF AfterRequest
    <3> QED
      BY <1>1, <2>3, <3>1, Failed
  <2> QED
    BY <2>1, <2>2, <2>3
<1>3. waiting' \subseteq {d \in Caller : request'[d] # NoRequest}
  BY DEF IInv, Good, Typed, AfterRequest
<1>4. reading' = reading /\ ReadersHarmless'
  BY DEF AfterRequest, muFree, ReadersHarmless
<1> QED
  BY <1>2, <1>3, <1>4 DEF IInv

\* A call of State does not find the breaker due after another has found it
\* due and moved it on.
LEMMA StateTestsStep ==
  ASSUME IInv, NEW o \in Observer, StateTests(o)
  PROVE  IInv'
<1>1. cb' = cb /\ request' = request /\ waiting' = waiting
  BY DEF StateTests
<1>2. reading' \in [Observer -> {"none", "held", "due"}]
  BY DEF StateTests, IInv
<1>3. ReadersHarmless'
  <2>1. CASE Due(cb)
    BY <1>1, <2>1 DEF ReadersHarmless, Due
  <2>2. CASE ~Due(cb)
    <3>1. \A d \in Observer : reading'[d] = "due" => reading[d] = "due"
      BY <2>2 DEF StateTests, IInv
    <3> QED
      BY <1>1, <2>2, <3>1 DEF ReadersHarmless, Due, Current, IInv
  <2> QED
    BY <2>1, <2>2
<1>4. Good(cb', request')
  BY <1>1 DEF IInv
<1>5. waiting' \subseteq {d \in Caller : request'[d] # NoRequest}
  BY <1>1 DEF IInv
<1> QED
  BY <1>2, <1>3, <1>4, <1>5 DEF IInv

\* Moved on once, the breaker may be so again, but no request is lost by it.
LEMMA StateReturnsStep ==
  ASSUME IInv, NEW o \in Observer, StateReturns(o)
  PROVE  IInv'
<1>1. request' = request /\ waiting' = waiting
  BY DEF StateReturns
<1>2. reading' \in [Observer -> {"none", "held", "due"}]
  BY DEF StateReturns, IInv
<1>3. \A d \in Observer : reading'[d] = "due" => reading[d] = "due"
  BY DEF StateReturns, IInv
<1>4. Good(cb, request) /\ Typed(cb, request) /\ ReadersHarmless
  BY DEF IInv, Good
<1>5. Good(cb', request') /\ ReadersHarmless'
  <2>1. CASE cb' = cb
    BY <1>1, <1>3, <1>4, <2>1 DEF ReadersHarmless, Due, Current
  <2>2. CASE Due(cb) /\ cb' = CurrentState(cb)
    <3>1. /\ Good(cb', request')
          /\ In(cb', request') = {} /\ cb'.counts = NoCounts
          /\ cb'.state \in {"closed", "halfOpen"}
      BY <1>1, <1>4, <2>2, Moved
    <3> QED
      BY <3>1 DEF ReadersHarmless, Due, Current, In
  <2>3. CASE reading[o] = "due" /\ ~Due(cb) /\ cb' = ToNewGeneration(cb)
    <3>1. /\ Good(cb', request')
          /\ In(cb', request') = {} /\ cb'.counts = NoCounts
          /\ cb'.state = cb.state
      BY <1>1, <1>4, <2>3, Renewed
    <3>2. cb.state \in {"closed", "halfOpen"}
      BY <2>3 DEF IInv, ReadersHarmless
    <3> QED
      BY <3>1, <3>2 DEF ReadersHarmless, Due, Current, In
  <2> QED
    BY <2>1, <2>2, <2>3 DEF StateReturns
<1>6. waiting' \subseteq {d \in Caller : request'[d] # NoRequest}
  BY <1>1 DEF IInv
<1> QED
  BY <1>2, <1>5, <1>6 DEF IInv

\* Time passes.
LEMMA ElapseStep == ASSUME IInv, Elapse PROVE IInv'
<1>1. /\ cb' \in Breakers
      /\ cb'.state = cb.state /\ cb'.counts = cb.counts /\ cb'.generation = cb.generation
  BY DEF IInv, Good, Typed, Breakers, Elapse
<1>2. request' = request /\ waiting' = waiting /\ reading' = reading
  BY DEF Elapse
<1>3. In(cb', request') = In(cb, request) /\ Current' = Current
  BY <1>1, <1>2 DEF In, Current
<1>4. Typed(cb', request')
  BY <1>1, <1>2 DEF IInv, Good, Typed
<1>5. Good(cb', request')
  BY <1>1, <1>3, <1>4 DEF IInv, Good
<1>6. ReadersHarmless'
  <2> SUFFICES ASSUME \E o \in Observer : reading'[o] = "due",
                      ~Due(cb)', cb'.state # "closed"
               PROVE  /\ cb'.state = "halfOpen"
                      /\ cb'.counts = NoCounts
                      /\ Current' = {}
    BY DEF ReadersHarmless
  <2>1. ~Due(cb)
    BY DEF Due, Elapse
  <2> QED
    BY <1>1, <1>2, <1>3, <2>1 DEF IInv, ReadersHarmless
<1> QED
  BY <1>2, <1>5, <1>6 DEF IInv

\* A request returns.
LEMMA ReturnedStep ==
  ASSUME IInv, NEW c \in Caller, Returned(c)
  PROVE  IInv'
<1>1. cb' = cb /\ request' = request /\ reading' = reading
  BY DEF Returned
<1>2. waiting' \subseteq {d \in Caller : request'[d] # NoRequest}
  BY DEF Returned, IInv
<1>3. ReadersHarmless'
  BY <1>1 DEF IInv, ReadersHarmless, Due, Current
<1> QED
  BY <1>1, <1>2, <1>3 DEF IInv

\* The invariant is inductive.
THEOREM Invariance == Spec => []IInv
<1>1. IInv /\ [Next]_vars => IInv'
  <2> SUFFICES ASSUME IInv, [Next]_vars PROVE IInv'
    OBVIOUS
  <2>1. CASE \E c \in Caller : BeforeRequest(c)
    BY <2>1, BeforeRequestStep
  <2>2. CASE \E c \in Caller : Returned(c)
    BY <2>2, ReturnedStep
  <2>3. CASE \E c \in Caller, success \in BOOLEAN : AfterRequest(c, success)
    BY <2>3, AfterRequestStep
  <2>4. CASE \E o \in Observer : StateTests(o)
    BY <2>4, StateTestsStep
  <2>5. CASE \E o \in Observer : StateReturns(o)
    BY <2>5, StateReturnsStep
  <2>6. CASE Elapse
    BY <2>6, ElapseStep
  <2>7. CASE UNCHANGED vars
    BY <2>7 DEF vars, IInv, Good, Typed, In, ReadersHarmless, Due, Current
  <2> QED
    BY <2>1, <2>2, <2>3, <2>4, <2>5, <2>6, <2>7 DEF Next
<1> QED
  BY <1>1, InvInit, PTL DEF Spec

\* The invariant TypeOK of the breaker, of the requests under way and of the
\* calls of State.
THEOREM TypeCorrect == Spec => []TypeOK
<1>1. IInv => TypeOK
  BY DEF IInv, Good, Typed, TypeOK
<1> QED
  BY <1>1, Invariance, PTL

\* Each request of the current generation is answered or under way.
THEOREM CountsBalanced == Spec => []CountsBalance
<1>1. IInv => CountsBalance
  BY DEF IInv, Good, In, Current, CountsBalance
<1> QED
  BY <1>1, Invariance, PTL

\* At most MaxRequests requests of a half-open breaker are under way, and all
\* it let through are.
THEOREM ProbesAreBounded == Spec => []ProbesBounded
<1>1. IInv => ProbesBounded
  <2> SUFFICES ASSUME IInv, cb.state = "halfOpen"
               PROVE  /\ cb.counts.requests = Cardinality(Current)
                      /\ Cardinality(Current) <= MaxRequests
    BY DEF ProbesBounded
  <2>1. Current = In(cb, request)
    BY DEF Current, In
  <2>2. Cardinality(In(cb, request)) \in Nat
    BY InFinite
  <2> QED
    BY <2>1, <2>2 DEF IInv, Good
<1> QED
  BY <1>1, Invariance, PTL

\* No answer on its way can be mistaken for one of an open breaker or of a
\* generation to come.
THEOREM LateAnswersAreStale == Spec => []LateAnswersStale
<1>1. IInv => LateAnswersStale
  BY DEF IInv, Good, Typed, In, Current, LateAnswersStale
<1> QED
  BY <1>1, Invariance, PTL

\* Calls of State that overlap do no harm.
THEOREM ReadersAreHarmless == Spec => []ReadersHarmless
<1>1. IInv => ReadersHarmless
  BY DEF IInv
<1> QED
  BY <1>1, Invariance, PTL

-----------------------------------------------------------------------------

\* What module Breaker calls probes.
Probes == IF cb.state = "halfOpen" THEN cb.counts.requests ELSE 0

Stutters == cb'.state = cb.state /\ Current' = Current /\ Probes' = Probes

\* beforeRequest admits, or moves an open breaker on and admits.
LEMMA BeforeRequestKeepsPromise ==
  ASSUME IInv, NEW c \in Caller, BeforeRequest(c)
  PROVE  Promise!Next \/ Stutters
<1> DEFINE b == CurrentState(cb)
<1>1. /\ Good(cb, request) /\ Good(b, request) /\ request[c] = NoRequest
      /\ cb.state \in CircuitState
      /\ ~Due(cb) => b = cb
      /\ Due(cb) => /\ In(b, request) = {} /\ b.counts = NoCounts
                    /\ \/ cb.state = "closed" /\ b.state = "closed"
                       \/ cb.state = "open" /\ b.state = "halfOpen"
  BY Moved DEF IInv, BeforeRequest, Good, Typed, Breakers
<1>2. Current = In(cb, request) /\ Current' = In(cb', request')
  BY DEF Current, In
<1>3. CASE Rejects(b) /\ cb' = b /\ request' = request
  <2>1. ~Due(cb)
    BY <1>1, <1>3, CircuitBreakerAssumption DEF Rejects, NoCounts
  <2> QED
    BY <1>1, <1>2, <1>3, <2>1 DEF Stutters, Probes
<1>4. CASE /\ ~Rejects(b) /\ cb' = OnRequest(b)
           /\ request' = Assigned(request, c, b.generation)
  <2>1. /\ Current' = In(b, request) \cup {c} /\ c \notin In(b, request)
        /\ cb'.state = b.state
        /\ cb'.counts.requests = b.counts.requests + 1
    BY <1>1, <1>2, <1>4, Admitted
  <2>2. CASE cb.state = "closed"
    <3>1. b.state = "closed" /\ In(b, request) \in {Current, {}}
      BY <1>1, <1>2, <2>2
    <3>2. Promise!AdmitClosed(c)
      BY <2>1, <2>2, <3>1 DEF Promise!AdmitClosed
    <3> QED
      BY <3>2 DEF Promise!Next
  <2>3. CASE cb.state = "halfOpen"
    <3>1. b = cb
      BY <1>1, <2>3
    <3>2. cb.counts.requests < MaxRequests
      <4>1. cb.counts.requests \in Nat
        BY <1>1 DEF Good, Typed, Breakers, Counts
      <4> QED
        BY <1>4, <2>3, <3>1, <4>1, CircuitBreakerAssumption DEF Rejects
    <3>3. Promise!AdmitHalfOpen(c)
      BY <1>2, <2>1, <2>3, <3>1, <3>2 DEF Promise!AdmitHalfOpen
    <3> QED
      BY <3>3 DEF Promise!Next
  <2>4. CASE cb.state = "open"
    <3>1. Due(cb)
      BY <1>1, <1>4, <2>4 DEF Rejects
    <3>2. /\ b.state = "halfOpen" /\ b.counts = NoCounts /\ In(b, request) = {}
      BY <1>1, <2>4, <3>1
    <3>3. Promise!AdmitFirst(c)
      BY <2>1, <2>4, <3>2 DEF Promise!AdmitFirst, NoCounts
    <3> QED
      BY <3>3 DEF Promise!Next
  <2> QED
    BY <1>1, <2>2, <2>3, <2>4 DEF CircuitState
<1> QED
  BY <1>3, <1>4 DEF BeforeRequest, Assigned

\* What moving the breaker on is to the promise.
LEMMA MovingOnKeepsPromise ==
  ASSUME IInv, Due(cb), cb' = CurrentState(cb), Current' = {}
  PROVE  Promise!Next
<1>1. /\ cb'.counts = NoCounts
      /\ \/ cb.state = "closed" /\ cb'.state = "closed"
         \/ cb.state = "open" /\ cb'.state = "halfOpen"
  BY Moved DEF IInv
<1>2. CASE cb.state = "closed"
  <2>1. Promise!Forget
    BY <1>1, <1>2 DEF Promise!Forget, Promise!Turn
  <2> QED
    BY <2>1 DEF Promise!Next
<1>3. CASE cb.state = "open"
  <2>1. Promise!TimeOver
    BY <1>1, <1>3 DEF Promise!TimeOver, Promise!Turn, NoCounts
  <2> QED
    BY <2>1 DEF Promise!Next
<1> QED
  BY <1>1, <1>2, <1>3

\* An answer counts only if nothing has changed since.
LEMMA AfterRequestKeepsPromise ==
  ASSUME IInv, NEW c \in Caller, NEW success \in BOOLEAN, AfterRequest(c, success)
  PROVE  Promise!Next \/ Stutters
<1> DEFINE b == CurrentState(cb)
<1>1. /\ Good(cb, request) /\ Good(b, request) /\ request' = Freed(request, c)
      /\ ~Due(cb) => b = cb
      /\ Due(cb) => In(b, request) = {}
  BY Moved DEF IInv, AfterRequest, Freed
<1>2. Current = In(cb, request) /\ Current' = In(cb', request')
  BY DEF Current, In
<1>3. CASE b.generation # request[c]
  <2>1. cb' = b /\ Current' = In(b, request)
    BY <1>1, <1>2, <1>3, Ignored DEF AfterRequest
  <2>2. CASE Due(cb)
    BY <1>1, <2>1, <2>2, MovingOnKeepsPromise
  <2>3. CASE ~Due(cb)
    BY <1>1, <1>2, <2>1, <2>3 DEF Stutters, Probes
  <2> QED
    BY <2>2, <2>3
<1>4. CASE b.generation = request[c]
  <2>1. ~Due(cb) /\ b = cb
    BY <1>1, <1>4 DEF In
  <2>2. c \in Current
    BY <1>4, <2>1 DEF Current
  <2>3. CASE success
    <3>1. cb' = OnSuccess(cb)
      BY <1>4, <2>1, <2>3 DEF AfterRequest
    <3>2. \/ cb.state = "closed" /\ cb'.state = "closed" /\ Current' = Current \ {c}
          \/ cb.state = "halfOpen" /\ cb'.state = "closed" /\ Current' = {}
      BY <1>1, <1>2, <1>4, <2>1, <3>1, Succeeded
    <3>3. Promise!AnswerClosed(c) \/ Promise!Decide(c)
      BY <2>2, <3>2 DEF Promise!AnswerClosed, Promise!Decide, Promise!Turn
    <3> QED
      BY <3>3 DEF Promise!Next
  <2>4. CASE ~success
    <3>1. cb' = OnFailure(cb)
      BY <1>4, <2>1, <2>4 DEF AfterRequest
    <3>2. \/ cb.state = "closed" /\ cb'.state = "closed" /\ Current' = Current \ {c}
          \/ cb.state = "closed" /\ cb'.state = "open" /\ Current' = {}
          \/ cb.state = "halfOpen" /\ cb'.state = "open" /\ Current' = {}
      BY <1>1, <1>2, <1>4, <2>1, <3>1, Failed
    <3>3. Promise!AnswerClosed(c) \/ Promise!Trip(c) \/ Promise!Decide(c)
      BY <2>2, <3>2
         DEF Promise!AnswerClosed, Promise!Trip, Promise!Decide, Promise!Turn
    <3> QED
      BY <3>3 DEF Promise!Next
  <2> QED
    BY <2>3, <2>4
<1> QED
  BY <1>3, <1>4

\* A call of State moves the breaker on, or changes nothing that was promised.
LEMMA StateReturnsKeepsPromise ==
  ASSUME IInv, NEW o \in Observer, StateReturns(o)
  PROVE  Promise!Next \/ Stutters
<1>1. request' = request /\ Typed(cb, request) /\ Good(cb, request)
  BY DEF StateReturns, IInv, Good
<1>2. Current' = In(cb', request)
  BY <1>1 DEF Current, In
<1>3. CASE cb' = cb
  BY <1>1, <1>3 DEF Stutters, Probes, Current
<1>4. CASE Due(cb) /\ cb' = CurrentState(cb)
  <2>1. Current' = {}
    BY <1>1, <1>2, <1>4, Moved
  <2> QED
    BY <1>4, <2>1, MovingOnKeepsPromise
<1>5. CASE reading[o] = "due" /\ ~Due(cb) /\ cb' = ToNewGeneration(cb)
  <2>1. Current' = {} /\ cb'.state = cb.state /\ cb'.counts = NoCounts
    BY <1>1, <1>2, <1>5, Renewed
  <2>2. CASE cb.state = "closed"
    <3>1. Promise!Forget
      BY <2>1, <2>2 DEF Promise!Forget, Promise!Turn
    <3> QED
      BY <3>1 DEF Promise!Next
  <2>3. CASE cb.state # "closed"
    <3>1. cb.counts = NoCounts /\ Current = {}
      BY <1>5, <2>3 DEF IInv, ReadersHarmless
    <3> QED
      BY <2>1, <3>1 DEF Stutters, Probes
  <2> QED
    BY <2>2, <2>3
<1> QED
  BY <1>3, <1>4, <1>5 DEF StateReturns

\* CircuitBreaker implements Breaker: the promise is kept whatever the number
\* of callers, observers and generations.
THEOREM PromiseKept == Spec => KeepsPromise
<1>1. Init => Promise!Init
  <2> SUFFICES ASSUME Init PROVE Promise!Init
    OBVIOUS
  <2>1. Current = {}
    BY CircuitBreakerAssumption DEF Init, Current
  <2> QED
    BY <2>1 DEF Init, Promise!Init
<1>2. IInv /\ [Next]_vars => [Promise!Next]_(Promise!breakerVars)
  <2> SUFFICES ASSUME IInv, [Next]_vars
               PROVE  Promise!Next \/ Stutters
    BY DEF Promise!breakerVars, Stutters, Probes
  <2>1. CASE \E c \in Caller : BeforeRequest(c)
    BY <2>1, BeforeRequestKeepsPromise
  <2>2. CASE \E c \in Caller : Returned(c)
    BY <2>2 DEF Returned, Stutters, Probes, Current
  <2>3. CASE \E c \in Caller, success \in BOOLEAN : AfterRequest(c, success)
    BY <2>3, AfterRequestKeepsPromise
  <2>4. CASE \E o \in Observer : StateTests(o)
    BY <2>4 DEF StateTests, Stutters, Probes, Current
  <2>5. CASE \E o \in Observer : StateReturns(o)
    BY <2>5, StateReturnsKeepsPromise
  <2>6. CASE Elapse
    <3>1. /\ cb'.state = cb.state /\ cb'.counts = cb.counts
          /\ cb'.generation = cb.generation /\ request' = request
      BY <2>6 DEF IInv, Good, Typed, Breakers, Elapse
    <3> QED
      BY <3>1 DEF Stutters, Probes, Current
  <2>7. CASE UNCHANGED vars
    BY <2>7 DEF vars, Stutters, Probes, Current
  <2> QED
    BY <2>1, <2>2, <2>3, <2>4, <2>5, <2>6, <2>7 DEF Next
<1> QED
  BY <1>1, <1>2, Invariance, PTL DEF Spec, KeepsPromise, Promise!Spec

=============================================================================
