------------------------------- MODULE Breaker -------------------------------
(***************************************************************************)
(* What a circuit breaker promises, in terms of the requests that count:   *)
(* those it let through since it last changed its mind.  An open breaker   *)
(* has none.  A half-open one lets at most MaxRequests through and decides *)
(* by the answer of one of them.  The answers of the others are nothing to *)
(* it.                                                                     *)
(***************************************************************************)
EXTENDS Naturals

CONSTANTS Caller, MaxRequests

VARIABLES
  state,      \* "closed", "open" or "halfOpen"
  admitted,   \* callers whose requests are under way and count
  probes      \* requests let through since the breaker became half-open

breakerVars == <<state, admitted, probes>>

Init == state = "closed" /\ admitted = {} /\ probes = 0

\* No request counts any more.
Turn(to) == state' = to /\ admitted' = {} /\ probes' = 0

\* A closed breaker lets everybody through, and may forget what went before.
AdmitClosed(c) ==
  /\ state = "closed"
  /\ \E counting \in {admitted, {}} :
       c \notin counting /\ admitted' = counting \cup {c}
  /\ UNCHANGED <<state, probes>>

AdmitHalfOpen(c) ==
  /\ state = "halfOpen"
  /\ probes < MaxRequests
  /\ c \notin admitted
  /\ admitted' = admitted \cup {c}
  /\ probes' = probes + 1
  /\ UNCHANGED state

\* The request that finds the time of an open breaker to be over.
AdmitFirst(c) ==
  /\ state = "open"
  /\ state' = "halfOpen"
  /\ admitted' = {c}
  /\ probes' = 1

AnswerClosed(c) ==
  /\ state = "closed"
  /\ c \in admitted
  /\ admitted' = admitted \ {c}
  /\ UNCHANGED <<state, probes>>

Trip(c) == state = "closed" /\ c \in admitted /\ Turn("open")

Decide(c) == state = "halfOpen" /\ c \in admitted /\ (Turn("closed") \/ Turn("open"))

Forget == state = "closed" /\ Turn("closed")

TimeOver == state = "open" /\ Turn("halfOpen")

Next ==
  \/ \E c \in Caller : \/ AdmitClosed(c) \/ AdmitHalfOpen(c) \/ AdmitFirst(c)
                       \/ AnswerClosed(c) \/ Trip(c) \/ Decide(c)
  \/ Forget
  \/ TimeOver

Spec == Init /\ [][Next]_breakerVars

=============================================================================
