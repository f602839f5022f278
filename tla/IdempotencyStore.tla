-------------------------- MODULE IdempotencyStore --------------------------
(***************************************************************************)
(* The two stores behind ports.IdempotencyStore.  The order service builds *)
(* one of them at start: idempotency.Store, a map under a mutex with a     *)
(* goroutine that cleans up, or RedisIdempotencyStore over a RedisCache,   *)
(* which the service's processes share.                                    *)
(*                                                                         *)
(* CheckAndSet of the first is one critical section.  That of the second   *)
(* is a GET and then a SET.  Redis carries the SET out some time after it  *)
(* was sent and before its answer arrives: the caller can give up, or die, *)
(* on either side of that, and a SET nobody waits for can still be carried *)
(* out.  What a caller does with the answer is its own affair: "first"     *)
(* lets it execute the request.                                            *)
(*                                                                         *)
(* Bounds: none but the constants; firsts is bounded by the calls.  Two    *)
(* late SETs of one key count as one.                                      *)
(***************************************************************************)
EXTENDS Naturals, FiniteSets

CONSTANTS
  Workers, \* calls that can be in progress at the same time
  Keys,    \* idempotency keys
  MaxKeys, \* the map's limit, 0 for none
  NoKey

ASSUME IdempotencyAssumption ==
  /\ IsFiniteSet(Workers)
  /\ MaxKeys \in Nat
  /\ NoKey \notin Keys

VARIABLES
  kind,   \* which store was built
  data,   \* the map, or Redis: what is known of each key
  closed, \* Close has been called
  pc,     \* the next step of each call
  call,   \* the key of each call, and its answer
  done,   \* the calls in progress whose context is done
  late,   \* the keys of SETs on their way to Redis whose callers are gone
  firsts, \* how often a key was answered "first" since it was last absent
  unsure  \* keys that Redis holds by a SET whose caller has had no answer

store == <<kind, data, closed, late>>
vars == <<kind, data, closed, late, pc, call, done, firsts, unsure>>

RedisSteps == {"get", "set", "sent", "answer"}
CallSteps == {"idle", "check", "delete", "reply"} \cup RedisSteps
Answers == {"none", "first", "duplicate", "error"}

TypeOK ==
  /\ kind \in {"memory", "redis"}
  /\ data \in [Keys -> {"absent", "held", "expired"}]
  /\ closed \in BOOLEAN
  /\ late \in SUBSET Keys /\ (kind = "memory" => late = {})
  /\ pc \in [Workers -> CallSteps]
  /\ call \in [Workers -> [key : Keys \cup {NoKey}, answer : Answers]]
  /\ done \in SUBSET Workers
  /\ \A w \in Workers : pc[w] \notin IF kind = "memory" THEN RedisSteps ELSE {"check"}
  /\ firsts \in [Keys -> Nat]
  /\ unsure \in SUBSET Keys

-----------------------------------------------------------------------------
Present == {k \in Keys : data[k] # "absent"}

(* What is remembered of the answers, once data' is known: nothing about a *)
(* key that is gone, and one "first" more of the keys K.                   *)
Tell(K, errors) ==
  /\ firsts' = [k \in Keys |->
       IF data'[k] = "absent" THEN 0 ELSE IF k \in K THEN firsts[k] + 1 ELSE firsts[k]]
  /\ unsure' = {k \in unsure \cup errors : data'[k] # "absent"}

Answer(w, a) ==
  /\ pc' = [pc EXCEPT ![w] = "reply"]
  /\ call' = [call EXCEPT ![w].answer = a]
  /\ done' = done \ {w}

Goto(w, s) ==
  /\ pc' = [pc EXCEPT ![w] = s]
  /\ UNCHANGED <<call, done>>

(* A mutant: the variable USE_REDIS is ignored.                            *)
RedisFirst == "get"

(* The first step of CheckAndSet, by the store that the module built.      *)
FirstStep == IF kind = "memory" THEN "check" ELSE "get"

Call(w) ==
  /\ pc[w] = "idle"
  /\ \E k \in Keys, s \in {FirstStep, "delete"} :
       /\ pc' = [pc EXCEPT ![w] = s]
       /\ call' = [call EXCEPT ![w] = [key |-> k, answer |-> "none"]]
  /\ UNCHANGED <<store, done, firsts, unsure>>

-----------------------------------------------------------------------------
(* A mutant: the key is entered before the context is looked at.           *)
CheckAndSetEarly(w) ==
  LET k == call[w].key IN
  /\ pc[w] = "check"
  /\ IF w \in done \/ k \in Present
       THEN /\ data' = IF k \in Present THEN data ELSE [data EXCEPT ![k] = "held"]
            /\ Answer(w, IF w \in done THEN "error" ELSE "duplicate")
            /\ Tell({}, {})
       ELSE /\ data' = [data EXCEPT ![k] = "held"]
            /\ Answer(w, "first")
            /\ Tell({k}, {})
  /\ UNCHANGED <<kind, closed, late>>

Full == MaxKeys > 0 /\ Cardinality(Present) >= MaxKeys

(* Store.CheckAndSet.  A key that is past its expiry and still in the map  *)
(* is a duplicate; a full map drops whichever key its iteration meets.     *)
CheckAndSet(w) ==
  LET k == call[w].key IN
  /\ pc[w] = "check"
  /\ \/ /\ w \in done
        /\ Answer(w, "error")
        /\ UNCHANGED <<data, firsts, unsure>>
     \/ /\ w \notin done /\ k \in Present
        /\ Answer(w, "duplicate")
        /\ UNCHANGED <<data, firsts, unsure>>
     \/ /\ w \notin done /\ k \notin Present
        /\ \E dropped \in IF Full THEN {{x} : x \in Present} ELSE {{}} :
             data' = [x \in Keys |->
               IF x = k THEN "held" ELSE IF x \in dropped THEN "absent" ELSE data[x]]
        /\ Answer(w, "first")
        /\ Tell({k}, {})
  /\ UNCHANGED <<kind, closed, late>>

(* A mutant: an error of the GET is taken for a missing key.               *)
RedisGetLenient(w) ==
  /\ pc[w] = "get"
  /\ \/ call[w].key \in Present /\ Answer(w, "duplicate")
     \/ Goto(w, "set")
  /\ UNCHANGED <<store, firsts, unsure>>

(* The GET of RedisIdempotencyStore.CheckAndSet.                           *)
RedisGet(w) ==
  /\ pc[w] = "get"
  /\ \/ Answer(w, "error")
     \/ w \notin done /\ ~closed /\ call[w].key \in Present /\ Answer(w, "duplicate")
     \/ w \notin done /\ ~closed /\ call[w].key \notin Present /\ Goto(w, "set")
  /\ UNCHANGED <<store, firsts, unsure>>

(* Its SET is sent, unless the context is done or the client closed, or    *)
(* there is no connection.                                                 *)
RedisSend(w) ==
  /\ pc[w] = "set"
  /\ Answer(w, "error") \/ (w \notin done /\ ~closed /\ Goto(w, "sent"))
  /\ UNCHANGED <<store, firsts, unsure>>

(* Redis carries out the SET; its caller does not know yet.                *)
RedisSet(w) ==
  /\ pc[w] = "sent"
  /\ data' = [data EXCEPT ![call[w].key] = "held"]
  /\ Goto(w, "answer")
  /\ Tell({}, {})
  /\ UNCHANGED <<kind, closed, late>>

(* The answer arrives.                                                     *)
RedisAnswer(w) ==
  /\ pc[w] = "answer"
  /\ Answer(w, "first")
  /\ UNCHANGED store
  /\ Tell({call[w].key}, {})

(* It does not, and the client answers an error or sends the SET again.    *)
(* It cannot know whether Redis has carried out the SET, or still will.    *)
RedisFails(w) ==
  LET k == call[w].key IN
  /\ pc[w] \in {"sent", "answer"}
  /\ late' = late \cup IF pc[w] = "sent" THEN {k} ELSE {}
  /\ Answer(w, "error") \/ Goto(w, "set")
  /\ UNCHANGED <<kind, data, closed>>
  /\ Tell({}, IF pc[w] = "answer" THEN {k} ELSE {})

(* A SET that nobody waits for any more is carried out.                    *)
LateSet(k) ==
  /\ k \in late
  /\ late' = late \ {k}
  /\ data' = [data EXCEPT ![k] = "held"]
  /\ Tell({}, {k})
  /\ UNCHANGED <<kind, closed, pc, call, done>>

(* Delete of either store; only that of Redis can fail.                    *)
Remove(w) ==
  /\ pc[w] = "delete"
  /\ \/ /\ kind = "redis"
        /\ Answer(w, "error")
        /\ UNCHANGED <<data, firsts, unsure>>
     \/ /\ kind = "redis" => ~closed
        /\ data' = [data EXCEPT ![call[w].key] = "absent"]
        /\ Answer(w, "none") \/ (kind = "redis" /\ Answer(w, "error"))
        /\ Tell({}, {})
  /\ UNCHANGED <<kind, closed, late>>

-----------------------------------------------------------------------------
Cancel(w) ==
  /\ pc[w] \notin {"idle", "reply"} /\ w \notin done
  /\ done' = done \cup {w}
  /\ UNCHANGED <<store, pc, call, firsts, unsure>>

Respond(w) ==
  /\ pc[w] = "reply"
  /\ pc' = [pc EXCEPT ![w] = "idle"]
  /\ call' = [call EXCEPT ![w] = [key |-> NoKey, answer |-> "none"]]
  /\ UNCHANGED <<store, done, firsts, unsure>>

(* A key's time is over: Redis forgets it at once.                         *)
Expire(k) ==
  /\ data[k] = "held"
  /\ data' = [data EXCEPT ![k] = IF kind = "memory" THEN "expired" ELSE "absent"]
  /\ Tell({}, {})
  /\ UNCHANGED <<kind, closed, late, pc, call, done>>

(* A tick of cleanupLoop, which Close ends.                                *)
Cleanup ==
  /\ kind = "memory" /\ ~closed
  /\ \E k \in Keys : data[k] = "expired"
  /\ data' = [k \in Keys |-> IF data[k] = "expired" THEN "absent" ELSE data[k]]
  /\ Tell({}, {})
  /\ UNCHANGED <<kind, closed, late, pc, call, done>>

(* A second Close of the map's store would panic; nobody calls it twice.   *)
Close ==
  /\ ~closed
  /\ closed' = TRUE
  /\ UNCHANGED <<kind, data, late, pc, call, done, firsts, unsure>>

(* The process ends and starts again: the map and its calls are lost,      *)
(* Redis keeps what it has and what is on its way to it, and some of the   *)
(* calls go on elsewhere.                                                  *)
Waiting(step, callers) == {call[w].key : w \in {v \in callers : pc[v] = step}}

Restart ==
  /\ closed' = FALSE
  /\ \E lost \in IF kind = "memory" THEN {Workers} ELSE SUBSET Workers :
       /\ pc' = [w \in Workers |-> IF w \in lost THEN "idle" ELSE pc[w]]
       /\ call' = [w \in Workers |->
            IF w \in lost THEN [key |-> NoKey, answer |-> "none"] ELSE call[w]]
       /\ done' = done \ lost
       /\ late' = late \cup Waiting("sent", lost)
       /\ data' = IF kind = "memory" THEN [k \in Keys |-> "absent"] ELSE data
       /\ Tell({}, Waiting("answer", lost))
  /\ UNCHANGED kind

Init ==
  /\ kind \in {"memory", "redis"}
  /\ data = [k \in Keys |-> "absent"]
  /\ closed = FALSE
  /\ late = {}
  /\ pc = [w \in Workers |-> "idle"]
  /\ call = [w \in Workers |-> [key |-> NoKey, answer |-> "none"]]
  /\ done = {}
  /\ firsts = [k \in Keys |-> 0]
  /\ unsure = {}

Handle(w) ==
  \/ CheckAndSet(w) \/ Remove(w)
  \/ RedisGet(w) \/ RedisSend(w) \/ RedisSet(w) \/ RedisAnswer(w) \/ RedisFails(w)

Next ==
  \/ \E w \in Workers : Call(w) \/ Handle(w) \/ Cancel(w) \/ Respond(w)
  \/ \E k \in Keys : Expire(k) \/ LateSet(k)
  \/ Cleanup \/ Close \/ Restart

Spec == Init /\ [][Next]_vars

-----------------------------------------------------------------------------
(* As long as a key is remembered, the map lets one caller of it execute,  *)
(* and Redis no more than the calls that can overlap: whoever asks after   *)
(* the first SET is told of it.                                            *)
ExecutedOnce ==
  \A k \in Keys : firsts[k] <= IF kind = "memory" THEN 1 ELSE Cardinality(Workers)

(* A key that makes requests duplicates has an original.  In the map it is *)
(* a caller that was told to execute: no cancelled or refused call leaves  *)
(* a key behind.  In Redis it can also be one that waits for the answer to *)
(* its SET, or that never got one -- it was told of an error, or died --   *)
(* and so does not know.                                                   *)
DuplicateHasOriginal ==
  \A k \in Present :
    \/ firsts[k] > 0
    \/ kind = "redis" /\ k \in unsure \cup Waiting("answer", Workers)

(* A key whose time is over does not make a request a duplicate:           *)
(* TestStore_TTL, "expected key to expire, so isDuplicate should be        *)
(* false".                                                                 *)
ExpiredKeyIsNew ==
  [][\A w \in Workers :
       pc[w] # "reply" /\ call'[w].answer = "duplicate" => data[call[w].key] = "held"]_vars
=============================================================================
