--------------------------- MODULE CircuitBreaker ---------------------------
(***************************************************************************)
(* The circuit breaker of shared/resilience, a configured gobreaker.       *)
(*                                                                         *)
(* gobreaker is a library: what its mutex-protected operations do to a     *)
(* breaker is written here as operators from breakers to breakers, as the  *)
(* repository's code and tests use it.  Two parts of it are data that only *)
(* comparisons look at.  The expiry of an interval or of a timeout is the  *)
(* flag "expired": has it passed?  The generation number, which a call     *)
(* carries from its admission to its result, is the set "current" of the   *)
(* calls whose number is still the breaker's.                              *)
(***************************************************************************)
EXTENDS Naturals, FiniteSets

CONSTANTS
  Calls,       \* the calls of Execute that can be in progress at once
  MaxRequests, \* how many requests a half-open breaker admits: 5
  MinRequests  \* how many requests ReadyToTrip wants to see: 5

ASSUME CircuitBreakerAssumption ==
  /\ IsFiniteSet(Calls)
  /\ MaxRequests \in Nat \ {0}
  /\ MinRequests \in Nat

-----------------------------------------------------------------------------
States == {"closed", "half-open", "open"}

(* gobreaker.Counts; nothing here looks at its consecutive failures.       *)
Counts == [requests : Nat, totalSuccesses : Nat, totalFailures : Nat,
           consecutiveSuccesses : Nat]

Breaker == [state : States, counts : Counts, expired : BOOLEAN,
            current : SUBSET Calls]

NoCounts == [requests |-> 0, totalSuccesses |-> 0, totalFailures |-> 0,
             consecutiveSuccesses |-> 0]

(* setState and toNewGeneration: the counts start again, the calls in      *)
(* progress belong to the past and a new interval or timeout begins.       *)
NewGeneration(s) ==
  [state |-> s, counts |-> NoCounts, expired |-> FALSE, current |-> {}]

NewCircuitBreaker == NewGeneration("closed")

(* Time passes.  A half-open breaker waits for results, not for a clock.   *)
CanExpire(b) == b.state # "half-open" /\ ~b.expired
Expired(b) == [b EXCEPT !.expired = TRUE]

(* Every operation first brings the breaker up to date: the counts of a    *)
(* closed one go when the interval ends, an open one becomes half-open     *)
(* when the timeout ends.                                                  *)
CurrentState(b) ==
  IF b.expired
    THEN NewGeneration(IF b.state = "open" THEN "half-open" ELSE b.state)
    ELSE b

(* A mutant: a half-open breaker admits everything.                        *)
OpenOnly(b) == CurrentState(b).state = "open"

(* A call is refused: ErrOpenState or ErrTooManyRequests.                  *)
Rejects(b) ==
  LET now == CurrentState(b) IN
  \/ now.state = "open"
  \/ now.state = "half-open" /\ now.counts.requests >= MaxRequests

(* beforeRequest of an admitted call.                                      *)
BeforeRequest(b, c) ==
  LET now == CurrentState(b) IN
  [now EXCEPT !.counts.requests = @ + 1, !.current = @ \cup {c}]

(* ReadyToTrip: at least MinRequests requests and 60% of them failed.  The *)
(* floating-point quotient compares with 0.6 as the fraction does.         *)
ReadyToTrip(counts) ==
  /\ counts.requests >= MinRequests
  /\ 10 * counts.totalFailures >= 6 * counts.requests

OnSuccess(b, c) ==
  LET counts == [b.counts EXCEPT !.totalSuccesses = @ + 1,
                                 !.consecutiveSuccesses = @ + 1]
  IN IF b.state = "half-open" /\ counts.consecutiveSuccesses >= MaxRequests
       THEN NewGeneration("closed")
       ELSE [b EXCEPT !.counts = counts, !.current = @ \ {c}]

(* A mutant: a half-open breaker, too, waits for ReadyToTrip.              *)
OnFailureTripOnly(b, c) ==
  LET counts == [b.counts EXCEPT !.totalFailures = @ + 1,
                                 !.consecutiveSuccesses = 0]
  IN IF ReadyToTrip(counts)
       THEN NewGeneration("open")
       ELSE [b EXCEPT !.counts = counts, !.current = @ \ {c}]

OnFailure(b, c) ==
  LET counts == [b.counts EXCEPT !.totalFailures = @ + 1,
                                 !.consecutiveSuccesses = 0]
  IN IF b.state = "half-open" \/ ReadyToTrip(counts)
       THEN NewGeneration("open")
       ELSE [b EXCEPT !.counts = counts, !.current = @ \ {c}]

(* A mutant: the result of a call counts whenever the call began.          *)
AnyGeneration(b, c, success) ==
  LET now == CurrentState(b) IN
  IF success THEN OnSuccess(now, c) ELSE OnFailure(now, c)

(* afterRequest: only a call of the current generation counts.             *)
AfterRequest(b, c, success) ==
  LET now == CurrentState(b) IN
  IF c \notin now.current THEN now
  ELSE IF success THEN OnSuccess(now, c) ELSE OnFailure(now, c)

-----------------------------------------------------------------------------
(* Every request of the current generation has either had its result       *)
(* counted, once, or is still in progress.                                 *)
Balanced(b) ==
  b.counts.requests =
    b.counts.totalSuccesses + b.counts.totalFailures + Cardinality(b.current)

(* What a half-open breaker has seen: no more requests than it admits, and *)
(* only successes.                                                         *)
ProbesOnlySucceeded(b) ==
  b.state = "half-open" =>
    /\ b.counts.requests <= MaxRequests
    /\ b.counts.totalFailures = 0
    /\ b.counts.consecutiveSuccesses = b.counts.totalSuccesses
    /\ b.counts.consecutiveSuccesses < MaxRequests
=============================================================================
