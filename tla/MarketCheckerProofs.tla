------------------------ MODULE MarketCheckerProofs ------------------------
(***************************************************************************)
(* Proofs about MarketChecker: what the operators of the breaker preserve, *)
(* and from that what the checks and the breaker promise together.         *)
(***************************************************************************)
EXTENDS MarketChecker, FiniteSetTheorems, TLAPS

(* A breaker in order: of its type, no result lost or counted twice, and   *)
(* nothing but successes while half-open.                                  *)
Sound(b) == b \in Breaker /\ Balanced(b) /\ ProbesOnlySucceeded(b)

(* A new generation starts in order, whatever its state.                   *)
LEMMA NewGenerationSound ==
  ASSUME NEW s \in States
  PROVE  Sound(NewGeneration(s)) /\ NewGeneration(s).current = {}
<1>1. Cardinality({}) = 0
  BY FS_EmptySet
<1>2. QED
  BY <1>1, CircuitBreakerAssumption
     DEF Sound, NewGeneration, NoCounts, Breaker, Counts, States, Balanced,
         ProbesOnlySucceeded

(* Bringing a breaker up to date keeps it in order; a call still current   *)
(* afterwards was so before.                                               *)
LEMMA CurrentStateSound ==
  ASSUME NEW b, Sound(b)
  PROVE  /\ Sound(CurrentState(b))
         /\ CurrentState(b).current \subseteq b.current
<1>1. CASE b.expired
  <2>1. (IF b.state = "open" THEN "half-open" ELSE b.state) \in States
    BY DEF Sound, Breaker, States
  <2>2. QED
    BY <1>1, <2>1, NewGenerationSound DEF CurrentState
<1>2. CASE ~b.expired
  BY <1>2 DEF CurrentState
<1>3. QED
  BY <1>1, <1>2

(* Adding a call to, or taking it from, the calls in progress changes      *)
(* their number by one.                                                    *)
LEMMA OneMoreOneLess ==
  ASSUME NEW S \in SUBSET Calls, NEW c \in Calls
  PROVE  /\ Cardinality(S) \in Nat
         /\ c \notin S => Cardinality(S \cup {c}) = Cardinality(S) + 1
         /\ c \in S => Cardinality(S \ {c}) = Cardinality(S) - 1
         /\ c \in S => Cardinality(S) >= 1
         /\ c \in S /\ Cardinality(S) = 1 => S = {c}
<1>1. IsFiniteSet(S)
  BY FS_Subset, CircuitBreakerAssumption
<1>2. Cardinality(S) \in Nat /\ IsFiniteSet(S \ {c}) /\ Cardinality(S \ {c}) \in Nat
  BY <1>1, FS_CardinalityType, FS_Difference
<1>3. c \notin S => Cardinality(S \cup {c}) = Cardinality(S) + 1
  BY <1>1, FS_AddElement
<1>4. c \in S => Cardinality(S \ {c}) = Cardinality(S) - 1
  BY <1>1, FS_RemoveElement
<1>5. c \in S /\ Cardinality(S) = 1 => S = {c}
  <2>1. SUFFICES ASSUME c \in S, Cardinality(S) = 1 PROVE S = {c}
    OBVIOUS
  <2>2. Cardinality(S \ {c}) = 0
    BY <1>4, <2>1
  <2>3. S \ {c} = {}
    BY <1>2, <2>2, FS_EmptySet
  <2>4. QED
    BY <2>1, <2>3
<1>6. QED
  BY <1>2, <1>3, <1>4, <1>5

(* Admitting a call keeps the breaker in order: there was room for it.     *)
LEMMA BeforeRequestSound ==
  ASSUME NEW b, Sound(b), NEW c \in Calls, c \notin b.current, ~Rejects(b)
  PROVE  /\ Sound(BeforeRequest(b, c))
         /\ BeforeRequest(b, c).current \subseteq b.current \cup {c}
<1>1. PICK now : now = CurrentState(b)
  OBVIOUS
<1>2. Sound(now) /\ now.current \subseteq b.current
  BY <1>1, CurrentStateSound
<1>3. PICK old \in Counts : old = now.counts
  BY <1>2 DEF Sound, Breaker
<1>4. PICK S \in SUBSET Calls : S = now.current
  BY <1>2 DEF Sound, Breaker
<1>a. PICK k : k = [old EXCEPT !.requests = old.requests + 1]
  OBVIOUS
<1>5. /\ k \in Counts
      /\ k.requests = old.requests + 1
      /\ k.totalSuccesses = old.totalSuccesses
      /\ k.totalFailures = old.totalFailures
      /\ k.consecutiveSuccesses = old.consecutiveSuccesses
  BY <1>a DEF Counts
<1>b. PICK T \in SUBSET Calls : T = S \cup {c}
  OBVIOUS
<1>6. PICK n : n = [now EXCEPT !.counts = k, !.current = T]
  OBVIOUS
<1>7. BeforeRequest(b, c) = n
  BY <1>1, <1>2, <1>3, <1>4, <1>a, <1>b, <1>6 DEF BeforeRequest, Sound, Breaker
<1>8. /\ n \in Breaker
      /\ n.state = now.state
      /\ n.counts = k /\ n.current = S \cup {c}
  <2>1. now \in Breaker
    BY <1>2 DEF Sound
  <2>2. n \in Breaker /\ n.state = now.state /\ n.counts = k /\ n.current = T
    BY <1>5, <1>6, <2>1 DEF Breaker
  <2>3. QED
    BY <1>b, <2>2
<1>9. old.requests \in Nat /\ old.totalSuccesses \in Nat /\ old.totalFailures \in Nat
  BY DEF Counts
<1>10. Balanced(n)
  BY <1>2, <1>3, <1>4, <1>5, <1>8, <1>9, OneMoreOneLess DEF Sound, Balanced
<1>11. ProbesOnlySucceeded(n)
  BY <1>1, <1>2, <1>3, <1>5, <1>8, <1>9, CircuitBreakerAssumption
     DEF Sound, ProbesOnlySucceeded, Rejects
<1>12. QED
  BY <1>2, <1>4, <1>7, <1>8, <1>10, <1>11 DEF Sound

(* A success of a call in progress keeps a breaker in order.               *)
LEMMA OnSuccessSound ==
  ASSUME NEW b, Sound(b), NEW c \in b.current
  PROVE  /\ Sound(OnSuccess(b, c))
         /\ OnSuccess(b, c).current \subseteq b.current \ {c}
         /\ OnSuccess(b, c).state # b.state =>
              /\ b.current = {c} /\ OnSuccess(b, c).state = "closed"
              /\ b.counts.totalSuccesses = MaxRequests - 1
<1>1. PICK old \in Counts : old = b.counts
  BY DEF Sound, Breaker
<1>2. PICK S \in SUBSET Calls : S = b.current /\ c \in Calls
  BY DEF Sound, Breaker
<1>a. PICK k : k = [old EXCEPT !.totalSuccesses = old.totalSuccesses + 1,
                              !.consecutiveSuccesses = old.consecutiveSuccesses + 1]
  OBVIOUS
<1>c. /\ old = [requests |-> old.requests,
                totalSuccesses |-> old.totalSuccesses,
                totalFailures |-> old.totalFailures,
                consecutiveSuccesses |-> old.consecutiveSuccesses]
      /\ old.requests \in Nat /\ old.totalSuccesses \in Nat
      /\ old.totalFailures \in Nat /\ old.consecutiveSuccesses \in Nat
  BY DEF Counts
<1>d. k = [requests |-> old.requests,
           totalSuccesses |-> old.totalSuccesses + 1,
           totalFailures |-> old.totalFailures,
           consecutiveSuccesses |-> old.consecutiveSuccesses + 1]
  BY <1>a, <1>c
<1>3. /\ k \in Counts
      /\ k.requests = old.requests
      /\ k.totalSuccesses = old.totalSuccesses + 1
      /\ k.totalFailures = old.totalFailures
      /\ k.consecutiveSuccesses = old.consecutiveSuccesses + 1
  BY <1>c, <1>d DEF Counts
<1>b. PICK T \in SUBSET Calls : T = S \ {c}
  OBVIOUS
<1>4. PICK n : n = [b EXCEPT !.counts = k, !.current = T]
  OBVIOUS
<1>5. /\ n \in Breaker
      /\ n.state = b.state
      /\ n.counts = k /\ n.current = S \ {c}
  <2>1. b \in Breaker
    BY DEF Sound
  <2>2. n \in Breaker /\ n.state = b.state /\ n.counts = k /\ n.current = T
    BY <1>3, <1>4, <2>1 DEF Breaker
  <2>3. QED
    BY <1>b, <2>2
<1>6. OnSuccess(b, c) = IF b.state = "half-open" /\ k.consecutiveSuccesses >= MaxRequests
                          THEN NewGeneration("closed") ELSE n
  BY <1>1, <1>2, <1>a, <1>b, <1>4 DEF OnSuccess
<1>7. /\ old.requests \in Nat /\ old.totalSuccesses \in Nat
      /\ old.totalFailures \in Nat /\ old.consecutiveSuccesses \in Nat
  BY DEF Counts
<1>8. CASE b.state = "half-open" /\ k.consecutiveSuccesses >= MaxRequests
  <2>1. old.totalSuccesses = MaxRequests - 1 /\ old.totalFailures = 0 /\ old.requests <= MaxRequests
    BY <1>1, <1>3, <1>7, <1>8, CircuitBreakerAssumption DEF Sound, ProbesOnlySucceeded
  <2>2. Cardinality(S) \in Nat /\ Cardinality(S) >= 1 /\ (Cardinality(S) = 1 => S = {c})
    BY <1>2, OneMoreOneLess
  <2>a. old.requests = old.totalSuccesses + old.totalFailures + Cardinality(S)
    BY <1>1, <1>2 DEF Sound, Balanced
  <2>3. S = {c}
    BY <1>7, <2>1, <2>2, <2>a, CircuitBreakerAssumption
  <2>4. QED
    BY <1>1, <1>2, <1>6, <1>8, <2>1, <2>3, NewGenerationSound DEF States, NewGeneration
<1>9. CASE ~(b.state = "half-open" /\ k.consecutiveSuccesses >= MaxRequests)
  <2>1. Balanced(n)
    BY <1>1, <1>2, <1>3, <1>5, <1>7, OneMoreOneLess DEF Sound, Balanced
  <2>2. ProbesOnlySucceeded(n)
    BY <1>1, <1>3, <1>5, <1>7, <1>9, CircuitBreakerAssumption DEF Sound, ProbesOnlySucceeded
  <2>3. QED
    BY <1>2, <1>5, <1>6, <1>9, <2>1, <2>2 DEF Sound
<1>10. QED
  BY <1>8, <1>9

(* A failure of a call in progress keeps a breaker in order, and never     *)
(* closes it.                                                              *)
LEMMA OnFailureSound ==
  ASSUME NEW b, Sound(b), NEW c \in b.current
  PROVE  /\ Sound(OnFailure(b, c))
         /\ OnFailure(b, c).current \subseteq b.current \ {c}
         /\ OnFailure(b, c).state # b.state => OnFailure(b, c).state = "open"
<1>1. PICK old \in Counts : old = b.counts
  BY DEF Sound, Breaker
<1>2. PICK S \in SUBSET Calls : S = b.current /\ c \in Calls
  BY DEF Sound, Breaker
<1>3. PICK k : k = [old EXCEPT !.totalFailures = old.totalFailures + 1,
                              !.consecutiveSuccesses = 0]
  OBVIOUS
<1>4. /\ old = [requests |-> old.requests,
                totalSuccesses |-> old.totalSuccesses,
                totalFailures |-> old.totalFailures,
                consecutiveSuccesses |-> old.consecutiveSuccesses]
      /\ old.requests \in Nat /\ old.totalSuccesses \in Nat
      /\ old.totalFailures \in Nat /\ old.consecutiveSuccesses \in Nat
  BY DEF Counts
<1>5. k = [requests |-> old.requests,
           totalSuccesses |-> old.totalSuccesses,
           totalFailures |-> old.totalFailures + 1,
           consecutiveSuccesses |-> 0]
  BY <1>3, <1>4
<1>6. /\ k \in Counts
      /\ k.requests = old.requests
      /\ k.totalSuccesses = old.totalSuccesses
      /\ k.totalFailures = old.totalFailures + 1
  BY <1>4, <1>5 DEF Counts
<1>7. PICK T \in SUBSET Calls : T = S \ {c}
  OBVIOUS
<1>8. PICK n : n = [b EXCEPT !.counts = k, !.current = T]
  OBVIOUS
<1>9. /\ n \in Breaker
      /\ n.state = b.state
      /\ n.counts = k /\ n.current = T
  <2>1. b \in Breaker
    BY DEF Sound
  <2>2. QED
    BY <1>6, <1>8, <2>1 DEF Breaker
<1>10. OnFailure(b, c) = IF b.state = "half-open" \/ ReadyToTrip(k)
                           THEN NewGeneration("open") ELSE n
  BY <1>1, <1>2, <1>3, <1>7, <1>8 DEF OnFailure
<1>11. CASE b.state = "half-open" \/ ReadyToTrip(k)
  BY <1>10, <1>11, NewGenerationSound DEF States, NewGeneration
<1>12. CASE ~(b.state = "half-open" \/ ReadyToTrip(k))
  <2>1. Balanced(n)
    BY <1>1, <1>2, <1>4, <1>6, <1>7, <1>9, OneMoreOneLess DEF Sound, Balanced
  <2>2. ProbesOnlySucceeded(n)
    BY <1>9, <1>12 DEF ProbesOnlySucceeded
  <2>3. QED
    BY <1>2, <1>7, <1>9, <1>10, <1>12, <2>1, <2>2 DEF Sound
<1>13. QED
  BY <1>11, <1>12

(* A result keeps a breaker in order, whichever generation its call is of. *)
LEMMA AfterRequestSound ==
  ASSUME NEW b, Sound(b), NEW c \in Calls, NEW success \in BOOLEAN
  PROVE  /\ Sound(AfterRequest(b, c, success))
         /\ AfterRequest(b, c, success).current \subseteq b.current \ {c}
         /\ AfterRequest(b, c, success).state # b.state /\ ~b.expired =>
              /\ c \in b.current
              /\ AfterRequest(b, c, success).state = "closed" =>
                   /\ success /\ b.current = {c}
                   /\ b.counts.totalSuccesses = MaxRequests - 1
<1>1. PICK now : now = CurrentState(b)
  OBVIOUS
<1>2. Sound(now) /\ now.current \subseteq b.current
  BY <1>1, CurrentStateSound
<1>3. ~b.expired => now = b
  BY <1>1 DEF CurrentState
<1>4. PICK after : after = AfterRequest(b, c, success)
  OBVIOUS
<1>5. CASE c \notin now.current
  <2>1. after = now
    BY <1>1, <1>4, <1>5 DEF AfterRequest
  <2>2. QED
    BY <1>2, <1>3, <1>4, <1>5, <2>1
<1>6. CASE c \in now.current /\ success
  <2>1. after = OnSuccess(now, c)
    BY <1>1, <1>4, <1>6 DEF AfterRequest
  <2>2. /\ Sound(after) /\ after.current \subseteq now.current \ {c}
        /\ after.state # now.state =>
             now.current = {c} /\ now.counts.totalSuccesses = MaxRequests - 1
    BY <1>2, <1>6, <2>1, OnSuccessSound
  <2>3. QED
    BY <1>2, <1>3, <1>4, <1>6, <2>2
<1>7. CASE c \in now.current /\ ~success
  <2>1. after = OnFailure(now, c)
    BY <1>1, <1>4, <1>7 DEF AfterRequest
  <2>2. after.state # now.state => after.state # "closed"
    BY <1>2, <1>7, <2>1, OnFailureSound
  <2>3. QED
    BY <1>2, <1>3, <1>4, <1>7, <2>1, <2>2, OnFailureSound
<1>8. QED
  BY <1>5, <1>6, <1>7

-----------------------------------------------------------------------------
(* The inductive invariant: the breaker is in order and waits only for     *)
(* callers that are waiting themselves.  The second part makes the first   *)
(* one inductive: a call that starts is not in the breaker's set yet.      *)
CheckInv ==
  /\ TypeOK
  /\ Sound(breaker)
  /\ \A c \in breaker.current : pc[c] = "waiting"

(* Every step keeps the invariant.                                         *)
LEMMA CheckStep ==
  ASSUME CheckInv, [Next]_vars
  PROVE  CheckInv'
<1> USE DEF CheckInv
<1>1. ASSUME NEW c \in Calls, NEW m \in Markets, GetMarket(c, m)
      PROVE  CheckInv'
  <2>1. c \notin breaker.current
    BY <1>1 DEF GetMarket
  <2>2. Sound(breaker') /\ breaker'.current \subseteq breaker.current \cup {c}
    BY <1>1, <2>1, BeforeRequestSound DEF GetMarket
  <2>3. TypeOK'
    BY <1>1, <2>2 DEF GetMarket, TypeOK, Sound
  <2>4. QED
    BY <1>1, <2>2, <2>3 DEF GetMarket, TypeOK, Sound, Breaker
<1>2. ASSUME NEW c \in Calls, RPCReturns(c)
      PROVE  CheckInv'
  BY <1>2 DEF RPCReturns, TypeOK
<1>3. ASSUME NEW c \in Calls, TakeResult(c) \/ Abandon(c)
      PROVE  CheckInv'
  <2>1. PICK success \in BOOLEAN : breaker' = AfterRequest(breaker, c, success)
    BY <1>3 DEF TakeResult, Abandon
  <2>2. Sound(breaker') /\ breaker'.current \subseteq breaker.current \ {c}
    BY <2>1, AfterRequestSound
  <2>3. TypeOK'
    BY <1>3, <2>2 DEF TakeResult, Abandon, TypeOK, Sound
  <2>4. QED
    BY <1>3, <2>2, <2>3 DEF TakeResult, Abandon, TypeOK, Sound, Breaker
<1>4. ASSUME NEW c \in Calls, GoroutineEnds(c) \/ Cancel(c)
      PROVE  CheckInv'
  BY <1>4 DEF GoroutineEnds, Cancel, TypeOK
<1>5. ASSUME ReadState
      PROVE  CheckInv'
  <2>1. Sound(breaker') /\ breaker'.current \subseteq breaker.current
    BY <1>5, CurrentStateSound DEF ReadState
  <2>2. QED
    BY <1>5, <2>1 DEF ReadState, TypeOK, Sound
<1>6. ASSUME Expire
      PROVE  CheckInv'
  <2>1. breaker' = [breaker EXCEPT !.expired = TRUE] /\ breaker \in Breaker
    BY <1>6 DEF Expire, Expired, TypeOK
  <2>2. /\ breaker' \in Breaker /\ breaker'.state = breaker.state
        /\ breaker'.counts = breaker.counts /\ breaker'.current = breaker.current
    BY <2>1 DEF Breaker
  <2>3. Sound(breaker')
    BY <2>2 DEF Sound, Balanced, ProbesOnlySucceeded
  <2>4. QED
    BY <1>6, <2>2, <2>3 DEF Expire, TypeOK
<1>7. CASE SpotChanges
  BY <1>7 DEF SpotChanges, TypeOK
<1>8. CASE UNCHANGED vars
  BY <1>8 DEF vars, TypeOK
<1>9. QED
  BY <1>1, <1>2, <1>3, <1>4, <1>5, <1>6, <1>7, <1>8 DEF Next, Call, Proceed

LEMMA CheckInvHolds == Spec => []CheckInv
<1>1. Init => CheckInv
  <2>1. SUFFICES ASSUME Init PROVE CheckInv
    OBVIOUS
  <2>2. Sound(breaker) /\ breaker.current = {}
    BY <2>1, NewGenerationSound DEF Init, NewCircuitBreaker, States
  <2>3. QED
    BY <2>1, <2>2 DEF Init, CheckInv, TypeOK, Sound
<1>2. CheckInv /\ [Next]_vars => CheckInv'
  BY CheckStep
<1>3. QED
  BY <1>1, <1>2, PTL DEF Spec

(* For any number of calls and any limits, every variable keeps its type:  *)
(* in particular no counter of the breaker ever drops below zero.          *)
THEOREM TypeCorrect == Spec => []TypeOK
<1>1. CheckInv => TypeOK
  BY DEF CheckInv
<1>2. QED
  BY <1>1, CheckInvHolds, PTL

(* For any number of concurrent checks, each result is counted exactly     *)
(* once in the generation that admitted it (beforeRequest, afterRequest).  *)
THEOREM CallsAreCounted == Spec => []EveryCallCounted
<1>1. CheckInv => EveryCallCounted
  BY DEF CheckInv, Sound, EveryCallCounted
<1>2. QED
  BY <1>1, CheckInvHolds, PTL

(* A half-open breaker that refuses a call has a caller that will report,  *)
(* for any MaxRequests: the half-open state cannot become permanent.       *)
THEOREM HalfOpenIsNeverWedged == Spec => []HalfOpenNeverWedged
<1>1. ASSUME CheckInv
      PROVE  HalfOpenNeverWedged
  <2>1. SUFFICES ASSUME breaker.state = "half-open", Rejects(breaker)
                 PROVE  breaker.current # {}
    BY <1>1 DEF CheckInv, Sound, HalfOpenNeverWedged
  <2>2. PICK k \in Counts : k = breaker.counts
    BY <1>1 DEF CheckInv, Sound, Breaker
  <2>4. /\ k.requests \in Nat /\ k.totalSuccesses \in Nat
        /\ k.totalFailures = 0 /\ k.totalSuccesses < MaxRequests
        /\ k.requests = k.totalSuccesses + Cardinality(breaker.current)
    <3>1. k.requests \in Nat /\ k.totalSuccesses \in Nat
      BY DEF Counts
    <3>2. Cardinality(breaker.current) \in Nat
      <4>1. breaker.current \in SUBSET Calls
        BY <1>1 DEF CheckInv, Sound, Breaker
      <4>2. QED
        BY <4>1, FS_Subset, FS_CardinalityType, CircuitBreakerAssumption
    <3>3. QED
      BY <1>1, <2>1, <2>2, <3>1, <3>2
         DEF CheckInv, Sound, Balanced, ProbesOnlySucceeded
  <2>5. k.requests >= MaxRequests
    BY <1>1, <2>1, <2>2, <2>4, FS_EmptySet, CircuitBreakerAssumption
       DEF Rejects, CurrentState, NewGeneration, NoCounts
  <2>6. QED
    BY <2>4, <2>5, FS_EmptySet, CircuitBreakerAssumption
<1>2. QED
  BY <1>1, CheckInvHolds, PTL

(* The breaker changes state only when its time is up or on the result of  *)
(* a call it admitted in its present state, and closes only on the last of *)
(* MaxRequests successes.                                                  *)
THEOREM StateChangesAreCurrent == Spec => ChangesOnCurrentResults
<1> DEFINE Reported ==
      breaker'.state # breaker.state /\ ~breaker.expired
        => \E c \in breaker.current :
             /\ pc[c] = "waiting" /\ pc'[c] = "idle"
             /\ breaker'.state = "closed" =>
                  /\ rpc[c] = "ok" /\ breaker.current = {c}
                  /\ breaker.counts.totalSuccesses = MaxRequests - 1
<1>1. ASSUME CheckInv, [Next]_vars
      PROVE  Reported
  <2>1. SUFFICES ASSUME breaker'.state # breaker.state, ~breaker.expired
                 PROVE  Reported
    OBVIOUS
  <2>2. CurrentState(breaker) = breaker
    BY <2>1 DEF CurrentState
  <2>3. ASSUME NEW c \in Calls, NEW success \in BOOLEAN,
               breaker' = AfterRequest(breaker, c, success),
               success => rpc[c] = "ok",
               pc[c] = "waiting", pc'[c] = "idle"
        PROVE  Reported
    <3>1. /\ c \in breaker.current
          /\ breaker'.state = "closed" =>
               /\ success /\ breaker.current = {c}
               /\ breaker.counts.totalSuccesses = MaxRequests - 1
      BY <1>1, <2>1, <2>3, AfterRequestSound DEF CheckInv
    <3>2. QED
      BY <2>3, <3>1
  <2>4. ASSUME NEW c \in Calls, TakeResult(c)
        PROVE  Reported
    <3>1. pc'[c] = "idle"
      BY <1>1, <2>4 DEF TakeResult, CheckInv, TypeOK
    <3>2. QED
      BY <2>3, <2>4, <3>1 DEF TakeResult
  <2>5. ASSUME NEW c \in Calls, Abandon(c)
        PROVE  Reported
    <3>1. pc'[c] = "idle"
      BY <1>1, <2>5 DEF Abandon, CheckInv, TypeOK
    <3>2. QED
      BY <2>3, <2>5, <3>1 DEF Abandon
  <2>6. ASSUME NEW c \in Calls, NEW m \in Markets, GetMarket(c, m)
        PROVE  FALSE
    BY <1>1, <2>1, <2>2, <2>6 DEF GetMarket, BeforeRequest, CheckInv, Sound, Breaker
  <2>7. CASE Expire
    BY <1>1, <2>1, <2>7 DEF Expire, Expired, CheckInv, Sound, Breaker
  <2>8. CASE UNCHANGED breaker
    BY <2>1, <2>8
  <2>9. QED
    BY <1>1, <2>2, <2>4, <2>5, <2>6, <2>7, <2>8
       DEF Next, Call, Proceed, vars, RPCReturns, GoroutineEnds, ReadState, Cancel, SpotChanges
<1>2. QED
  BY <1>1, CheckInvHolds, PTL DEF Spec, ChangesOnCurrentResults

-----------------------------------------------------------------------------
(* What a closed breaker bears: no failure, fewer failures than the        *)
(* requests ReadyToTrip wants to see, or less than 60% of the requests.    *)
(* ReadyToTrip itself may well hold of its counts: it is asked only when a *)
(* failure comes in, and an admission can add the request it was waiting   *)
(* for.                                                                    *)
Bearable(counts) ==
  \/ counts.totalFailures = 0
  \/ counts.totalFailures < MinRequests
  \/ 10 * counts.totalFailures < 6 * counts.requests

Patient(b) == b.state = "closed" => Bearable(b.counts)

LEMMA NewGenerationPatient == \A s \in States : Patient(NewGeneration(s))
BY DEF Patient, Bearable, NewGeneration, NoCounts

LEMMA CurrentStatePatient ==
  ASSUME NEW b, Sound(b), Patient(b)
  PROVE  Patient(CurrentState(b))
<1>1. (IF b.state = "open" THEN "half-open" ELSE b.state) \in States
  BY DEF Sound, Breaker, States
<1>2. QED
  BY <1>1, NewGenerationPatient DEF CurrentState

(* An admission leaves the failures alone and adds a request.              *)
LEMMA BeforeRequestPatient ==
  ASSUME NEW b, Sound(b), Patient(b), NEW c \in Calls
  PROVE  Patient(BeforeRequest(b, c))
<1>1. PICK now \in Breaker : now = CurrentState(b)
  BY CurrentStateSound DEF Sound
<1>2. Patient(now)
  BY <1>1, CurrentStatePatient
<1>3. PICK old \in Counts : old = now.counts
  BY DEF Breaker
<1>4. PICK n : n = BeforeRequest(b, c)
  OBVIOUS
<1>5. n.state = now.state /\ n.counts = [old EXCEPT !.requests = old.requests + 1]
  BY <1>1, <1>3, <1>4 DEF BeforeRequest, Breaker
<1>6. /\ n.counts.totalFailures = old.totalFailures
      /\ n.counts.requests = old.requests + 1
  BY <1>5 DEF Counts
<1>7. old.totalFailures \in Nat /\ old.requests \in Nat
  BY DEF Counts
<1>8. CASE n.state # "closed"
  BY <1>4, <1>8 DEF Patient
<1>9. CASE n.state = "closed"
  <2>1. Bearable(old)
    BY <1>2, <1>3, <1>5, <1>9 DEF Patient
  <2>2. Bearable(n.counts)
    BY <1>6, <1>7, <2>1 DEF Bearable
  <2>3. QED
    BY <1>4, <2>2 DEF Patient
<1>10. QED
  BY <1>8, <1>9

(* A success leaves failures and requests alone, or begins anew.           *)
LEMMA OnSuccessPatient ==
  ASSUME NEW b \in Breaker, Patient(b), NEW c
  PROVE  Patient(OnSuccess(b, c))
<1>1. PICK old \in Counts : old = b.counts
  BY DEF Breaker
<1>2. PICK k : k = [old EXCEPT !.totalSuccesses = old.totalSuccesses + 1,
                              !.consecutiveSuccesses = old.consecutiveSuccesses + 1]
  OBVIOUS
<1>3. k.totalFailures = old.totalFailures /\ k.requests = old.requests
  BY <1>2 DEF Counts
<1>4. PICK n : n = [b EXCEPT !.counts = k, !.current = b.current \ {c}]
  OBVIOUS
<1>5. n.state = b.state /\ n.counts = k
  BY <1>4 DEF Breaker
<1>6. OnSuccess(b, c) = n \/ OnSuccess(b, c) = NewGeneration("closed")
  BY <1>1, <1>2, <1>4 DEF OnSuccess
<1>7. Patient(n)
  BY <1>1, <1>3, <1>5 DEF Patient, Bearable
<1>8. QED
  BY <1>6, <1>7, NewGenerationPatient DEF States

(* A failure that does not trip is one ReadyToTrip was asked about: there  *)
(* were too few requests, hence too few failures, or the share was small.  *)
LEMMA OnFailurePatient ==
  ASSUME NEW b, Sound(b), NEW c \in b.current
  PROVE  Patient(OnFailure(b, c))
<1>1. PICK old \in Counts : old = b.counts
  BY DEF Sound, Breaker
<1>2. PICK k : k = [old EXCEPT !.totalFailures = old.totalFailures + 1,
                              !.consecutiveSuccesses = 0]
  OBVIOUS
<1>3. k.totalFailures = old.totalFailures + 1 /\ k.requests = old.requests
  BY <1>2 DEF Counts
<1>4. /\ old.totalFailures \in Nat /\ old.totalSuccesses \in Nat /\ old.requests \in Nat
  BY DEF Counts
<1>5. old.totalFailures + 1 <= old.requests
  <2>1. b.current \in SUBSET Calls /\ c \in Calls
    BY DEF Sound, Breaker
  <2>2. Cardinality(b.current) \in Nat /\ Cardinality(b.current) >= 1
    BY <2>1, OneMoreOneLess
  <2>3. old.requests = old.totalSuccesses + old.totalFailures + Cardinality(b.current)
    BY <1>1 DEF Sound, Balanced
  <2>4. QED
    BY <1>4, <2>2, <2>3
<1>6. PICK n : n = [b EXCEPT !.counts = k, !.current = b.current \ {c}]
  OBVIOUS
<1>7. n.counts = k
  BY <1>6 DEF Sound, Breaker
<1>8. CASE b.state = "half-open" \/ ReadyToTrip(k)
  <2>1. OnFailure(b, c) = NewGeneration("open")
    BY <1>1, <1>2, <1>8 DEF OnFailure
  <2>2. QED
    BY <2>1, NewGenerationPatient DEF States
<1>9. CASE ~(b.state = "half-open" \/ ReadyToTrip(k))
  <2>1. OnFailure(b, c) = n
    BY <1>1, <1>2, <1>6, <1>9 DEF OnFailure
  <2>2. ~(k.requests >= MinRequests) \/ ~(10 * k.totalFailures >= 6 * k.requests)
    BY <1>9 DEF ReadyToTrip
  <2>3. Bearable(k)
    BY <1>3, <1>4, <1>5, <2>2, CircuitBreakerAssumption DEF Bearable
  <2>4. QED
    BY <1>7, <2>1, <2>3 DEF Patient
<1>10. QED
  BY <1>8, <1>9

(* However admissions, results, interruptions and the end of intervals     *)
(* interleave, no failure gets past the breaker: closed, it has seen fewer *)
(* failures than ReadyToTrip's requests, or less than 60% of them failed   *)
(* (afterRequest, ReadyToTrip).                                            *)
BearsLittle == breaker.state = "closed" => Bearable(breaker.counts)

THEOREM ClosedBreakerBearsLittle == Spec => []BearsLittle
<1> DEFINE Inv == Patient(breaker)
<1>1. Init => Inv
  BY NewGenerationPatient DEF Init, NewCircuitBreaker, States
<1>2. ASSUME CheckInv, Inv, [Next]_vars
      PROVE  Inv'
  <2>1. Sound(breaker) /\ breaker \in Breaker
    BY <1>2 DEF CheckInv, Sound
  <2>2. ASSUME NEW c \in Calls, NEW success \in BOOLEAN,
               breaker' = AfterRequest(breaker, c, success)
        PROVE  Patient(breaker')
    <3>1. PICK now : now = CurrentState(breaker)
      OBVIOUS
    <3>2. Sound(now) /\ now \in Breaker /\ Patient(now)
      BY <1>2, <2>1, <3>1, CurrentStateSound, CurrentStatePatient DEF Sound
    <3>3. CASE c \notin now.current
      BY <2>2, <3>1, <3>2, <3>3 DEF AfterRequest
    <3>4. CASE c \in now.current /\ success
      BY <2>2, <3>1, <3>2, <3>4, OnSuccessPatient DEF AfterRequest
    <3>5. CASE c \in now.current /\ ~success
      BY <2>2, <3>1, <3>2, <3>5, OnFailurePatient DEF AfterRequest
    <3>6. QED
      BY <3>3, <3>4, <3>5
  <2>3. ASSUME NEW c \in Calls, TakeResult(c) \/ Abandon(c)
        PROVE  Patient(breaker')
    BY <2>2, <2>3 DEF TakeResult, Abandon
  <2>4. ASSUME NEW c \in Calls, NEW m \in Markets, GetMarket(c, m)
        PROVE  Patient(breaker')
    BY <1>2, <2>1, <2>4, BeforeRequestPatient DEF GetMarket
  <2>5. CASE ReadState
    BY <1>2, <2>1, <2>5, CurrentStatePatient DEF ReadState
  <2>6. CASE Expire
    <3>1. breaker'.state = breaker.state /\ breaker'.counts = breaker.counts
      BY <2>1, <2>6 DEF Expire, Expired, Breaker
    <3>2. QED
      BY <1>2, <3>1 DEF Patient
  <2>7. CASE UNCHANGED breaker
    BY <1>2, <2>7 DEF Patient
  <2>8. QED
    BY <1>2, <2>3, <2>4, <2>5, <2>6, <2>7
       DEF Next, Call, Proceed, vars, RPCReturns, GoroutineEnds, Cancel, SpotChanges
<1>3. Inv => BearsLittle
  BY DEF Patient, BearsLittle
<1> HIDE DEF Inv
<1>4. QED
  BY <1>1, <1>2, <1>3, CheckInvHolds, PTL DEF Spec
=============================================================================
