---------------------------- MODULE MarketChecker ----------------------------
(***************************************************************************)
(* The order service's check of a market: MarketChecker.GetMarket asks the *)
(* spot service through resilience.Execute, which runs the RPC in a        *)
(* goroutine of its own, behind a circuit breaker.                         *)
(*                                                                         *)
(* A call c is two processes: the caller, which waits for the first of the *)
(* RPC's result and the end of its own context, and the goroutine, which   *)
(* runs on when the caller is gone and then puts its result into a channel *)
(* of capacity one that nobody reads.                                      *)
(***************************************************************************)
EXTENDS CircuitBreaker

CONSTANTS
  Markets,      \* the ids that are asked for
  KnownMarkets, \* those the spot service has
  RequestBound  \* a bound of the model: requests that one interval counts

ASSUME MarketCheckerAssumption ==
  /\ KnownMarkets \subseteq Markets
  /\ Markets \cap {"none", "ok", "error"} = {}
  /\ RequestBound \in Nat \ {0}

VARIABLES
  breaker,  \* MarketChecker.cb
  pc,       \* the caller of each call: "idle" or "waiting" in the select
  rpc,      \* its goroutine: "none", the market it asks about, "ok" or "error"
  done,     \* the calls whose context is cancelled or past its deadline
  healthy   \* the spot service and the network to it are up

vars == <<breaker, pc, rpc, done, healthy>>

TypeOK ==
  /\ breaker \in Breaker
  /\ pc \in [Calls -> {"idle", "waiting"}]
  /\ rpc \in [Calls -> {"none", "ok", "error"} \cup Markets]
  /\ done \in SUBSET Calls
  /\ healthy \in BOOLEAN

Init ==
  /\ breaker = NewCircuitBreaker
  /\ pc = [c \in Calls |-> "idle"]
  /\ rpc = [c \in Calls |-> "none"]
  /\ done = {}
  /\ healthy = TRUE

-----------------------------------------------------------------------------
(* A bound of the model on the requests one interval counts.               *)
RoomInInterval == CurrentState(breaker).counts.requests < RequestBound

(* GetMarket, admitted by the breaker.  (With a context that is done       *)
(* already, Execute returns before it looks at the breaker.)  A call has   *)
(* no number of its own in the code; here one is not used again before its *)
(* goroutine has ended.                                                    *)
GetMarket(c, m) ==
  /\ pc[c] = "idle" /\ rpc[c] = "none"
  /\ ~Rejects(breaker)
  /\ RoomInInterval
  /\ breaker' = BeforeRequest(breaker, c)
  /\ pc' = [pc EXCEPT ![c] = "waiting"]
  /\ rpc' = [rpc EXCEPT ![c] = m]
  /\ UNCHANGED <<done, healthy>>

(* A mutant: NotFound is told apart from the other errors.                 *)
NotFoundToldApart(c) ==
  /\ rpc[c] \in Markets
  /\ rpc' = [rpc EXCEPT ![c] =
       IF rpc[c] \in KnownMarkets THEN "ok" ELSE "not found"]
  /\ UNCHANGED <<breaker, pc, done, healthy>>

(* The RPC of a call returns.  Its context ends with the caller's, or on   *)
(* its own after 200 ms; an error of any kind, NotFound included, is an    *)
(* error to the breaker.                                                   *)
RPCReturns(c) ==
  /\ rpc[c] \in Markets
  /\ \/ /\ rpc[c] \in KnownMarkets
        /\ rpc' = [rpc EXCEPT ![c] = "ok"]
     \/ /\ ~healthy \/ c \in done \/ rpc[c] \notin KnownMarkets
        /\ rpc' = [rpc EXCEPT ![c] = "error"]
  /\ UNCHANGED <<breaker, pc, done, healthy>>

(* The select takes the result.                                            *)
TakeResult(c) ==
  /\ pc[c] = "waiting"
  /\ rpc[c] \in {"ok", "error"}
  /\ breaker' = AfterRequest(breaker, c, rpc[c] = "ok")
  /\ pc' = [pc EXCEPT ![c] = "idle"]
  /\ rpc' = [rpc EXCEPT ![c] = "none"]
  /\ done' = done \ {c}
  /\ UNCHANGED healthy

(* A mutant: the caller's own cancellation is not reported.                *)
LeaveUnnoticed(c) ==
  /\ pc[c] = "waiting"
  /\ c \in done
  /\ pc' = [pc EXCEPT ![c] = "idle"]
  /\ UNCHANGED <<breaker, rpc, done, healthy>>

(* The select takes the end of the context, even when there is a result    *)
(* too: a failure, to the breaker.  The goroutine is left to itself.       *)
Abandon(c) ==
  /\ pc[c] = "waiting"
  /\ c \in done
  /\ breaker' = AfterRequest(breaker, c, FALSE)
  /\ pc' = [pc EXCEPT ![c] = "idle"]
  /\ UNCHANGED <<rpc, done, healthy>>

(* The goroutine of a call that was abandoned has put its result into the  *)
(* channel and ends.                                                       *)
GoroutineEnds(c) ==
  /\ pc[c] = "idle"
  /\ rpc[c] \in {"ok", "error"}
  /\ rpc' = [rpc EXCEPT ![c] = "none"]
  /\ done' = done \ {c}
  /\ UNCHANGED <<breaker, pc, healthy>>

(* IsOpen, Stats and GetState bring the breaker up to date, and so would a *)
(* call that is refused, which otherwise only gets the fallback: an error. *)
ReadState ==
  /\ breaker' = CurrentState(breaker)
  /\ UNCHANGED <<pc, rpc, done, healthy>>

-----------------------------------------------------------------------------
(* The environment: time passes, the caller of CreateOrder goes away, the  *)
(* spot service fails and comes back.                                      *)
Expire ==
  /\ CanExpire(breaker)
  /\ breaker' = Expired(breaker)
  /\ UNCHANGED <<pc, rpc, done, healthy>>

Cancel(c) ==
  /\ pc[c] = "waiting"
  /\ c \notin done
  /\ done' = done \cup {c}
  /\ UNCHANGED <<breaker, pc, rpc, healthy>>

SpotChanges ==
  /\ healthy' = ~healthy
  /\ UNCHANGED <<breaker, pc, rpc, done>>

Call(c) == \E m \in Markets : GetMarket(c, m)

Proceed(c) == RPCReturns(c) \/ TakeResult(c) \/ Abandon(c) \/ GoroutineEnds(c)

Next ==
  \/ \E c \in Calls : Call(c) \/ Proceed(c) \/ Cancel(c)
  \/ ReadState \/ Expire \/ SpotChanges

(* Goroutines run, an RPC ends within its 200 ms, time passes; and clients *)
(* keep creating orders, the one assumption that is about the callers.     *)
Fairness ==
  /\ \A c \in Calls : WF_vars(Proceed(c)) /\ WF_vars(Call(c))
  /\ WF_vars(Expire)

Spec == Init /\ [][Next]_vars

FairSpec == Spec /\ Fairness

-----------------------------------------------------------------------------
(* No result is lost and none is counted twice, whichever way the caller,  *)
(* the goroutine and the clock interleave; and the breaker waits only for  *)
(* callers that are really there to report.                                *)
EveryCallCounted ==
  /\ Balanced(breaker)
  /\ \A c \in breaker.current : pc[c] = "waiting"

(* A half-open breaker has no clock, so it must never be full with nobody  *)
(* left to report: it would refuse every call for good.                    *)
HalfOpenNeverWedged ==
  /\ ProbesOnlySucceeded(breaker)
  /\ breaker.state = "half-open" /\ Rejects(breaker)
       => \E c \in breaker.current : pc[c] = "waiting"

(* The breaker opens and closes on what its own calls report: a state      *)
(* changes because its time is up or because a call of the current         *)
(* generation returns, never because of a call admitted earlier, however   *)
(* late that one's result.  It closes only when all the calls it admitted  *)
(* while half-open have succeeded, with the last of them.                  *)
ChangesOnCurrentResults ==
  [][breaker'.state # breaker.state /\ ~breaker.expired
       => \E c \in breaker.current :
            /\ pc[c] = "waiting" /\ pc'[c] = "idle"
            /\ breaker'.state = "closed" =>
                 /\ rpc[c] = "ok" /\ breaker.current = {c}
                 /\ breaker.counts.totalSuccesses = MaxRequests - 1]_vars

(* Nobody goes away, the spot service is up and is asked for markets it has.*)
Calm ==
  /\ healthy
  /\ done = {}
  /\ \A c \in Calls : rpc[c] \in Markets => rpc[c] \in KnownMarkets

(* Once the trouble is over, the checks work again for good.               *)
Recovers == <>[]Calm => <>[](breaker.state = "closed")
=============================================================================
