---------------------------- MODULE SharedProofs ----------------------------
(***************************************************************************)
(* What is proved of two packages under shared/ that have nothing to do    *)
(* with each other.  First the idempotency stores, for any number of calls *)
(* and keys and any limit: the bound on Redis needs more than it says, for *)
(* the calls between their GET and their SET are counted with those that   *)
(* have been answered "first".  Then the shutdown handler, for any number  *)
(* of callers and closers.                                                 *)
(***************************************************************************)
EXTENDS IdempotencyStore, Shutdown, FiniteSetTheorems, TLAPS

(* The calls that found k missing and have had no answer to their SET.     *)
Setting(k) == {w \in Workers : pc[w] \in {"set", "sent", "answer"} /\ call[w].key = k}

(* The keys of SETs that Redis has carried out and whose callers wait.     *)
Awaited == Waiting("answer", Workers)

KeysKnown == \A w \in Workers : pc[w] # "idle" => call[w].key \in Keys

Told ==
  /\ \A k \in Keys : data[k] = "absent" => firsts[k] = 0
  /\ DuplicateHasOriginal

Bound ==
  /\ kind = "memory" => \A k \in Keys : firsts[k] <= 1
  /\ \A k \in Keys : firsts[k] + Cardinality(Setting(k)) <= Cardinality(Workers)
                     \/ kind = "memory"

(* The inductive invariant.                                                *)
IInv == TypeOK /\ KeysKnown /\ Told /\ Bound

-----------------------------------------------------------------------------
(* Tell forgets what is absent and counts the answers.                     *)
LEMMA TellKeeps ==
  ASSUME TypeOK, Told, NEW K, NEW errors \in SUBSET Keys, Tell(K, errors),
         data' \in [Keys -> {"absent", "held", "expired"}], kind' = kind,
         \A k \in Keys : data'[k] # "absent" =>
           data[k] # "absent" \/ k \in K \/ (kind = "redis" /\ k \in errors \cup Awaited'),
         \A k \in Awaited : k \in K \cup errors \cup Awaited'
  PROVE  /\ firsts' \in [Keys -> Nat]
         /\ unsure' \in SUBSET Keys
         /\ Told'
         /\ \A k \in Keys : k \notin K => firsts'[k] <= firsts[k]
         /\ \A k \in Keys : firsts'[k] <= firsts[k] + 1
  <1>1. firsts' = [k \in Keys |->
          IF data'[k] = "absent" THEN 0 ELSE IF k \in K THEN firsts[k] + 1 ELSE firsts[k]]
    BY DEF Tell
  <1>2. unsure' = {k \in unsure \cup errors : data'[k] # "absent"}
    BY DEF Tell
  <1>3. firsts' \in [Keys -> Nat] /\ unsure' \in SUBSET Keys
    BY <1>1, <1>2 DEF TypeOK
  <1>4. ASSUME NEW k \in Keys, data'[k] # "absent"
        PROVE  firsts'[k] > 0 \/ (kind' = "redis" /\ k \in unsure' \cup Awaited')
    <2>1. CASE k \in K
      BY <1>1, <1>4, <2>1 DEF TypeOK
    <2>2. CASE k \notin K /\ data[k] # "absent"
      <3>1. firsts[k] > 0 \/ (kind = "redis" /\ k \in unsure \cup Awaited)
        BY <2>2 DEF Told, DuplicateHasOriginal, Present, Awaited
      <3> QED
        BY <1>1, <1>2, <1>4, <2>2, <3>1
    <2>3. CASE kind = "redis" /\ k \in errors \cup Awaited'
      BY <1>2, <1>4, <2>3
    <2> QED
      BY <1>4, <2>1, <2>2, <2>3
  <1>5. Told'
    BY <1>1, <1>4 DEF Told, DuplicateHasOriginal, Present, Awaited
  <1> QED
    BY <1>1, <1>3, <1>5 DEF TypeOK

(* A step that answers "first" to nobody and sends nobody to a SET keeps   *)
(* the bound.                                                              *)
LEMMA QuietKeepsBound ==
  ASSUME TypeOK, Bound, kind' = kind, firsts' \in [Keys -> Nat],
         \A k \in Keys : firsts'[k] <= firsts[k],
         \A k \in Keys : Setting(k)' \subseteq Setting(k)
  PROVE  Bound'
  <1>1. ASSUME NEW k \in Keys, kind # "memory"
        PROVE  firsts'[k] + Cardinality(Setting(k)') <= Cardinality(Workers)
    <2>1. PICK S, T : S = Setting(k) /\ T = Setting(k)'
      OBVIOUS
    <2>2. S \subseteq Workers /\ IsFiniteSet(Workers)
      BY <2>1, IdempotencyAssumption DEF Setting
    <2>3. IsFiniteSet(S) /\ IsFiniteSet(T) /\ Cardinality(T) <= Cardinality(S)
      BY <2>1, <2>2, FS_Subset
    <2>4. /\ Cardinality(S) \in Nat /\ Cardinality(T) \in Nat
          /\ Cardinality(Workers) \in Nat
      BY <2>2, <2>3, FS_CardinalityType
    <2>5. firsts[k] + Cardinality(S) <= Cardinality(Workers)
      BY <1>1, <2>1 DEF Bound
    <2>6. firsts[k] \in Nat /\ firsts'[k] \in Nat /\ firsts'[k] <= firsts[k]
      BY DEF TypeOK
    <2>7. firsts'[k] + Cardinality(T) <= Cardinality(Workers)
      BY <2>3, <2>4, <2>5, <2>6
    <2> QED
      BY <2>1, <2>7
  <1>2. kind = "memory" => \A k \in Keys : firsts'[k] <= 1
    BY DEF Bound, TypeOK
  <1> QED
    BY <1>1, <1>2 DEF Bound

(* An answer ends a call.                                                  *)
LEMMA AnswerKeeps ==
  ASSUME TypeOK, KeysKnown, NEW w \in Workers, NEW a \in Answers, Answer(w, a),
         pc[w] # "idle"
  PROVE  /\ pc' \in [Workers -> CallSteps]
         /\ call' \in [Workers -> [key : Keys \cup {NoKey}, answer : Answers]]
         /\ done' \in SUBSET Workers
         /\ \A x \in Workers : pc'[x] \notin IF kind = "memory" THEN RedisSteps ELSE {"check"}
         /\ KeysKnown'
         /\ \A k : Setting(k)' = Setting(k) \ {w}
         /\ \A k \in Awaited : (pc[w] = "answer" /\ k = call[w].key) \/ k \in Awaited'
  <1>1. PICK c : c = [call[w] EXCEPT !.answer = a]
    OBVIOUS
  <1>2. PICK old : old = call[w] /\ old \in [key : Keys \cup {NoKey}, answer : Answers]
    BY DEF TypeOK
  <1>3. /\ c \in [key : Keys \cup {NoKey}, answer : Answers]
        /\ c.key = call[w].key
    BY <1>1, <1>2
  <1>4. call' = [call EXCEPT ![w] = c] /\ pc' = [pc EXCEPT ![w] = "reply"] /\ done' = done \ {w}
    BY <1>1 DEF Answer
  <1>5. KeysKnown'
    BY <1>3, <1>4 DEF KeysKnown, TypeOK
  <1>6. \A k : Setting(k)' = Setting(k) \ {w}
    BY <1>4 DEF Setting, TypeOK
  <1>7. \A k \in Awaited : (pc[w] = "answer" /\ k = call[w].key) \/ k \in Awaited'
    BY <1>4 DEF Awaited, Waiting, TypeOK
  <1> QED
    BY <1>3, <1>4, <1>5, <1>6, <1>7 DEF TypeOK, CallSteps, RedisSteps

-----------------------------------------------------------------------------
(* The steps.                                                              *)

(* What is remembered of the answers stays as it is.                       *)
LEMMA SilentKeeps ==
  ASSUME IInv, UNCHANGED <<kind, data, firsts, unsure>>, TypeOK', KeysKnown',
         \A k \in Keys : Setting(k)' \subseteq Setting(k), Awaited \subseteq Awaited'
  PROVE  IInv'
  <1> USE DEF IInv
  <1>1. Told'
    BY DEF Told, DuplicateHasOriginal, Present, Awaited
  <1>2. Bound'
    BY QuietKeepsBound DEF TypeOK
  <1> QED
    BY <1>1, <1>2

(* A call is answered without the store being touched.                     *)
LEMMA AnsweredOnly ==
  ASSUME IInv, NEW w \in Workers, NEW a \in Answers, Answer(w, a),
         pc[w] \notin {"idle", "answer"}, UNCHANGED <<store, firsts, unsure>>
  PROVE  IInv'
  <1> USE DEF IInv, store
  <1>1. /\ pc' \in [Workers -> CallSteps]
        /\ call' \in [Workers -> [key : Keys \cup {NoKey}, answer : Answers]]
        /\ done' \in SUBSET Workers /\ KeysKnown'
        /\ \A x \in Workers : pc'[x] \notin IF kind = "memory" THEN RedisSteps ELSE {"check"}
        /\ \A k : Setting(k)' = Setting(k) \ {w}
        /\ Awaited \subseteq Awaited'
    BY AnswerKeeps
  <1>2. TypeOK'
    BY <1>1 DEF TypeOK
  <1> QED
    BY <1>1, <1>2, SilentKeeps

(* A step that answers nobody "first" and sends nobody to a SET: a key it  *)
(* enters is one whose caller waits, or never learns.                      *)
LEMMA UntoldKeeps ==
  ASSUME IInv, kind' = kind, closed' \in BOOLEAN, late' \in SUBSET Keys, kind = "memory" => late' = {}, KeysKnown',
         data' \in [Keys -> {"absent", "held", "expired"}],
         NEW errors \in SUBSET Keys, Tell({}, errors),
         \A k \in Keys : data'[k] # "absent" =>
           data[k] # "absent" \/ (kind = "redis" /\ k \in errors \cup Awaited'),
         \A k \in Awaited : k \in errors \cup Awaited',
         pc' \in [Workers -> CallSteps],
         call' \in [Workers -> [key : Keys \cup {NoKey}, answer : Answers]],
         done' \in SUBSET Workers,
         \A x \in Workers : pc'[x] \notin IF kind = "memory" THEN RedisSteps ELSE {"check"},
         \A k \in Keys : Setting(k)' \subseteq Setting(k)
  PROVE  IInv'
  <1> USE DEF IInv
  <1>1. PICK K : K = {}
    OBVIOUS
  <1>2. Tell(K, errors)
    BY <1>1
  <1>3. /\ firsts' \in [Keys -> Nat] /\ unsure' \in SUBSET Keys /\ Told'
        /\ \A x \in Keys : firsts'[x] <= firsts[x]
    BY <1>1, <1>2, TellKeeps
  <1>4. TypeOK'
    BY <1>3 DEF TypeOK
  <1>5. Bound'
    BY <1>3, QuietKeepsBound
  <1> QED
    BY <1>3, <1>4, <1>5

LEMMA CheckAndSetKeeps ==
  ASSUME IInv, NEW w \in Workers, CheckAndSet(w)
  PROVE  IInv'
  <1> USE DEF IInv
  <1> DEFINE k == call[w].key
  <1>1. pc[w] = "check" /\ k \in Keys
    BY DEF CheckAndSet, KeysKnown
  <1>2. CASE UNCHANGED <<data, firsts, unsure>>
             /\ (Answer(w, "error") \/ Answer(w, "duplicate"))
    BY <1>1, <1>2, AnsweredOnly DEF CheckAndSet, Answers, store
  <1>3. CASE /\ k \notin Present
             /\ \E dropped \in IF Full THEN {{x} : x \in Present} ELSE {{}} :
                  data' = [x \in Keys |->
                    IF x = k THEN "held" ELSE IF x \in dropped THEN "absent" ELSE data[x]]
             /\ Answer(w, "first")
             /\ Tell({k}, {})
    <2>1. UNCHANGED <<kind, closed, late>>
      BY DEF CheckAndSet
    <2>2. PICK dropped : data' = [x \in Keys |->
            IF x = k THEN "held" ELSE IF x \in dropped THEN "absent" ELSE data[x]]
      BY <1>3
    <2>3. /\ data' \in [Keys -> {"absent", "held", "expired"}]
          /\ \A x \in Keys : data'[x] # "absent" => data[x] # "absent" \/ x \in {k}
      BY <2>2 DEF TypeOK
    <2>4. PICK K : K = {k}
      OBVIOUS
    <2>5. Tell(K, {}) /\ \A x \in Keys : data'[x] # "absent" => data[x] # "absent" \/ x \in K
      BY <1>3, <2>3, <2>4
    <2>6. /\ pc' \in [Workers -> CallSteps]
          /\ call' \in [Workers -> [key : Keys \cup {NoKey}, answer : Answers]]
          /\ done' \in SUBSET Workers /\ KeysKnown'
          /\ \A x \in Workers : pc'[x] \notin IF kind = "memory" THEN RedisSteps ELSE {"check"}
          /\ \A x : Setting(x)' = Setting(x) \ {w}
          /\ Awaited \subseteq Awaited'
      BY <1>1, <1>3, <2>1, AnswerKeeps DEF Answers
    <2>7. /\ firsts' \in [Keys -> Nat] /\ unsure' \in SUBSET Keys /\ Told'
          /\ \A x \in Keys : x \notin K => firsts'[x] <= firsts[x]
          /\ \A x \in Keys : firsts'[x] <= firsts[x] + 1
      BY <2>1, <2>3, <2>5, <2>6, TellKeeps
    <2>8. TypeOK'
      BY <2>1, <2>3, <2>6, <2>7 DEF TypeOK
    <2>9. Bound'
      <3>1. firsts[k] = 0 /\ data[k] = "absent"
        BY <1>1, <1>3 DEF Told, Present
      <3>2. CASE kind = "memory"
        BY <2>1, <2>4, <2>7, <3>1, <3>2 DEF Bound, TypeOK
      <3>3. CASE kind = "redis"
        BY <1>1, <3>3 DEF TypeOK
      <3> QED
        BY <3>2, <3>3 DEF TypeOK
    <2> QED
      BY <2>6, <2>7, <2>8, <2>9
  <1> QED
    BY <1>2, <1>3 DEF CheckAndSet

LEMMA RedisGetKeeps ==
  ASSUME IInv, NEW w \in Workers, RedisGet(w)
  PROVE  IInv'
  <1> USE DEF IInv
  <1> DEFINE k == call[w].key
  <1>1. pc[w] = "get" /\ k \in Keys /\ kind = "redis"
    BY DEF RedisGet, KeysKnown, TypeOK, RedisSteps
  <1>2. CASE Answer(w, "error") \/ Answer(w, "duplicate")
    BY <1>1, <1>2, AnsweredOnly DEF RedisGet, Answers
  <1>3. CASE k \notin Present /\ Goto(w, "set")
    <2>1. UNCHANGED <<kind, data, closed, late, firsts, unsure, call, done>>
          /\ pc' = [pc EXCEPT ![w] = "set"]
      BY <1>3 DEF RedisGet, store, Goto
    <2>2. TypeOK' /\ KeysKnown' /\ Awaited' = Awaited
      BY <1>1, <2>1 DEF TypeOK, KeysKnown, CallSteps, RedisSteps, Awaited, Waiting
    <2>3. Told'
      BY <2>1, <2>2 DEF Told, DuplicateHasOriginal, Present, Awaited
    <2>4. ASSUME NEW x \in Keys
          PROVE  firsts'[x] + Cardinality(Setting(x)') <= Cardinality(Workers)
      <3>1. CASE x = k
        <4>1. firsts'[x] = 0
          BY <1>3, <2>1, <3>1 DEF Told, Present
        <4>2. PICK T : T = Setting(x)' /\ T \subseteq Workers
          BY DEF Setting
        <4>3. /\ Cardinality(T) <= Cardinality(Workers) /\ Cardinality(T) \in Nat
              /\ Cardinality(Workers) \in Nat
          BY <4>2, IdempotencyAssumption, FS_Subset, FS_CardinalityType
        <4> QED
          BY <4>1, <4>2, <4>3
      <3>2. CASE x # k
        <4>1. Setting(x)' = Setting(x)
          BY <1>1, <2>1, <3>2 DEF Setting, TypeOK
        <4>2. firsts[x] + Cardinality(Setting(x)) <= Cardinality(Workers)
          BY <1>1 DEF Bound
        <4> QED
          BY <2>1, <4>1, <4>2
      <3> QED
        BY <3>1, <3>2
    <2>5. Bound'
      BY <1>1, <2>1, <2>4 DEF Bound
    <2> QED
      BY <2>2, <2>3, <2>5
  <1> QED
    BY <1>2, <1>3 DEF RedisGet

(* SET: sending it, and Redis carrying it out.                             *)
LEMMA RedisSetKeeps ==
  ASSUME IInv, NEW w \in Workers, RedisSend(w) \/ RedisSet(w)
  PROVE  IInv'
  <1> USE DEF IInv
  <1>1. CASE pc[w] = "set" /\ Answer(w, "error") /\ UNCHANGED <<store, firsts, unsure>>
    BY <1>1, AnsweredOnly DEF Answers
  <1>2. CASE pc[w] = "set" /\ Goto(w, "sent") /\ UNCHANGED <<store, firsts, unsure>>
    <2>1. /\ UNCHANGED <<kind, data, closed, late, firsts, unsure, call, done>>
          /\ pc' = [pc EXCEPT ![w] = "sent"]
      BY <1>2 DEF store, Goto
    <2>2. TypeOK' /\ KeysKnown'
      BY <1>2, <2>1 DEF TypeOK, KeysKnown, CallSteps, RedisSteps
    <2>3. (\A k \in Keys : Setting(k)' \subseteq Setting(k)) /\ Awaited \subseteq Awaited'
      BY <1>2, <2>1 DEF TypeOK, Setting, Awaited, Waiting
    <2> QED
      BY <2>1, <2>2, <2>3, SilentKeeps
  <1>3. CASE RedisSet(w)
    <2>1. /\ pc[w] = "sent" /\ kind = "redis" /\ call[w].key \in Keys
          /\ data' = [data EXCEPT ![call[w].key] = "held"] /\ Tell({}, {})
          /\ UNCHANGED <<kind, closed, late, call, done>>
          /\ pc' = [pc EXCEPT ![w] = "answer"]
      BY <1>3 DEF RedisSet, Goto, KeysKnown, TypeOK, RedisSteps
    <2>2. call[w].key \in Awaited' /\ Awaited \subseteq Awaited'
      BY <2>1 DEF TypeOK, Awaited, Waiting
    <2>3. /\ data' \in [Keys -> {"absent", "held", "expired"}]
          /\ \A k \in Keys : data'[k] # "absent" =>
               data[k] # "absent" \/ (kind = "redis" /\ k \in {} \cup Awaited')
          /\ \A k \in Awaited : k \in {} \cup Awaited'
      BY <2>1, <2>2 DEF TypeOK
    <2>4. /\ pc' \in [Workers -> CallSteps] /\ KeysKnown'
          /\ \A x \in Workers : pc'[x] \notin IF kind = "memory" THEN RedisSteps ELSE {"check"}
          /\ \A k \in Keys : Setting(k)' \subseteq Setting(k)
      BY <2>1 DEF TypeOK, KeysKnown, CallSteps, RedisSteps, Setting
    <2> QED
      BY <2>1, <2>3, <2>4, UntoldKeeps DEF TypeOK
  <1> QED
    BY <1>1, <1>2, <1>3 DEF RedisSend

(* The answer to a SET: one more "first", one less on its way.             *)
LEMMA RedisAnswerKeeps ==
  ASSUME IInv, NEW w \in Workers, RedisAnswer(w)
  PROVE  IInv'
  <1> USE DEF IInv
  <1> DEFINE k == call[w].key
  <1>1. /\ pc[w] = "answer" /\ k \in Keys /\ kind = "redis"
        /\ UNCHANGED <<kind, data, closed, late>> /\ Answer(w, "first")
    BY DEF RedisAnswer, KeysKnown, TypeOK, RedisSteps, store
  <1>2. PICK K : K = {k} /\ Tell(K, {})
    BY DEF RedisAnswer
  <1>3. /\ pc' \in [Workers -> CallSteps]
        /\ call' \in [Workers -> [key : Keys \cup {NoKey}, answer : Answers]]
        /\ done' \in SUBSET Workers /\ KeysKnown'
        /\ \A x \in Workers : pc'[x] \notin IF kind = "memory" THEN RedisSteps ELSE {"check"}
        /\ \A x : Setting(x)' = Setting(x) \ {w}
        /\ \A x \in Awaited : x = k \/ x \in Awaited'
    BY <1>1, AnswerKeeps DEF Answers
  <1>4. /\ firsts' \in [Keys -> Nat] /\ unsure' \in SUBSET Keys /\ Told'
        /\ \A x \in Keys : x \notin K => firsts'[x] <= firsts[x]
        /\ \A x \in Keys : firsts'[x] <= firsts[x] + 1
    <2>1. data' \in [Keys -> {"absent", "held", "expired"}]
      BY <1>1 DEF TypeOK
    <2>2. \A x \in Awaited : x \in K \cup {} \cup Awaited'
      BY <1>2, <1>3
    <2> QED
      BY <1>1, <1>2, <2>1, <2>2, TellKeeps
  <1>5. TypeOK'
    BY <1>1, <1>3, <1>4 DEF TypeOK
  <1>6. ASSUME NEW x \in Keys
        PROVE  firsts'[x] + Cardinality(Setting(x)') <= Cardinality(Workers)
    <2>1. PICK S : S = Setting(x)
      OBVIOUS
    <2>2. S \subseteq Workers /\ IsFiniteSet(S)
      BY <2>1, IdempotencyAssumption, FS_Subset DEF Setting
    <2>3. firsts[x] + Cardinality(S) <= Cardinality(Workers)
      BY <1>1, <2>1 DEF Bound
    <2>4. /\ Cardinality(S) \in Nat /\ Cardinality(Workers) \in Nat
          /\ firsts[x] \in Nat /\ firsts'[x] \in Nat
      BY <1>4, <2>2, IdempotencyAssumption, FS_CardinalityType DEF TypeOK
    <2>5. /\ IsFiniteSet(S \ {w})
          /\ Cardinality(S \ {w}) = IF w \in S THEN Cardinality(S) - 1 ELSE Cardinality(S)
      BY <2>2, FS_RemoveElement
    <2>6. Setting(x)' = S \ {w}
      BY <1>3, <2>1
    <2>7. firsts'[x] + Cardinality(S \ {w}) <= Cardinality(Workers)
      <3>1. CASE x = k
        <4>1. w \in S
          BY <1>1, <2>1, <3>1 DEF Setting
        <4>2. firsts'[x] <= firsts[x] + 1
          BY <1>4
        <4> QED
          BY <2>3, <2>4, <2>5, <4>1, <4>2
      <3>2. CASE x # k
        <4>1. firsts'[x] <= firsts[x]
          BY <1>2, <1>4, <3>2
        <4> QED
          BY <2>3, <2>4, <2>5, <4>1
      <3> QED
        BY <3>1, <3>2
    <2> QED
      BY <2>6, <2>7
  <1>7. Bound'
    BY <1>1, <1>6 DEF Bound
  <1> QED
    BY <1>3, <1>4, <1>5, <1>7

(* A SET without an answer, and one that is carried out when nobody waits. *)
LEMMA RedisFailsKeeps ==
  ASSUME IInv, NEW w \in Workers, RedisFails(w)
  PROVE  IInv'
  <1> USE DEF IInv
  <1> DEFINE k == call[w].key
  <1>1. /\ pc[w] \in {"sent", "answer"} /\ k \in Keys /\ kind = "redis"
        /\ late' \in SUBSET Keys /\ UNCHANGED <<kind, data, closed>>
    BY DEF RedisFails, KeysKnown, TypeOK, RedisSteps
  <1>2. PICK errors \in SUBSET Keys :
          errors = (IF pc[w] = "answer" THEN {k} ELSE {}) /\ Tell({}, errors)
    BY <1>1 DEF RedisFails
  <1>3. /\ pc' \in [Workers -> CallSteps]
        /\ call' \in [Workers -> [key : Keys \cup {NoKey}, answer : Answers]]
        /\ done' \in SUBSET Workers /\ KeysKnown'
        /\ \A x \in Workers : pc'[x] \notin IF kind = "memory" THEN RedisSteps ELSE {"check"}
        /\ \A x \in Keys : Setting(x)' \subseteq Setting(x)
        /\ \A x \in Awaited : (pc[w] = "answer" /\ x = k) \/ x \in Awaited'
    <2>1. CASE Answer(w, "error")
      BY <1>1, <2>1, AnswerKeeps DEF Answers
    <2>2. CASE Goto(w, "set")
      <3>1. UNCHANGED <<call, done>> /\ pc' = [pc EXCEPT ![w] = "set"]
        BY <2>2 DEF Goto
      <3> QED
        BY <1>1, <3>1
        DEF TypeOK, KeysKnown, CallSteps, RedisSteps, Setting, Awaited, Waiting
    <2> QED
      BY <2>1, <2>2 DEF RedisFails
  <1>4. /\ data' \in [Keys -> {"absent", "held", "expired"}]
        /\ \A x \in Awaited : x \in errors \cup Awaited'
    BY <1>1, <1>2, <1>3 DEF TypeOK
  <1> QED
    BY <1>1, <1>2, <1>3, <1>4, UntoldKeeps DEF TypeOK

LEMMA LateSetKeeps ==
  ASSUME IInv, NEW k \in Keys, LateSet(k)
  PROVE  IInv'
  <1> USE DEF IInv
  <1>1. UNCHANGED <<kind, closed, pc, call, done>> /\ late' = late \ {k} /\ k \in late
    BY DEF LateSet
  <1>2. PICK errors \in SUBSET Keys : errors = {k} /\ Tell({}, errors)
    BY DEF LateSet
  <1>3. kind = "redis"
    BY <1>1 DEF TypeOK
  <1>4. /\ data' \in [Keys -> {"absent", "held", "expired"}]
        /\ \A x \in Keys : data'[x] # "absent" => data[x] # "absent" \/ x \in errors
        /\ Awaited' = Awaited /\ late' \in SUBSET Keys /\ KeysKnown'
        /\ \A x \in Keys : Setting(x)' = Setting(x)
    BY <1>1, <1>2 DEF LateSet, TypeOK, Awaited, Waiting, KeysKnown, Setting
  <1> QED
    BY <1>1, <1>2, <1>3, <1>4, UntoldKeeps DEF TypeOK

LEMMA RemoveKeeps ==
  ASSUME IInv, NEW w \in Workers, Remove(w)
  PROVE  IInv'
  <1> USE DEF IInv
  <1>1. pc[w] = "delete" /\ call[w].key \in Keys /\ UNCHANGED <<kind, closed, late>>
    BY DEF Remove, KeysKnown
  <1>2. CASE Answer(w, "error") /\ UNCHANGED <<data, firsts, unsure>>
    BY <1>1, <1>2, AnsweredOnly DEF Answers, store
  <1>3. ASSUME data' = [data EXCEPT ![call[w].key] = "absent"], Tell({}, {}),
               NEW a \in {"none", "error"}, Answer(w, a)
        PROVE  IInv'
    <2>1. /\ data' \in [Keys -> {"absent", "held", "expired"}]
          /\ \A k \in Keys : data'[k] # "absent" => data[k] # "absent"
      BY <1>1, <1>3 DEF TypeOK
    <2>2. /\ pc' \in [Workers -> CallSteps]
          /\ call' \in [Workers -> [key : Keys \cup {NoKey}, answer : Answers]]
          /\ done' \in SUBSET Workers /\ KeysKnown'
          /\ \A x \in Workers : pc'[x] \notin IF kind = "memory" THEN RedisSteps ELSE {"check"}
          /\ \A x : Setting(x)' = Setting(x) \ {w}
          /\ Awaited \subseteq Awaited'
      BY <1>1, <1>3, AnswerKeeps DEF Answers
    <2>3. \A k \in Keys : Setting(k)' \subseteq Setting(k)
      BY <2>2
    <2> QED
      BY <1>1, <1>3, <2>1, <2>2, <2>3, UntoldKeeps DEF TypeOK
  <1> QED
    BY <1>2, <1>3 DEF Remove

(* The steps outside the stores' methods.                                  *)
LEMMA OtherStepsKeep ==
  ASSUME IInv, \/ \E w \in Workers : Call(w) \/ Cancel(w) \/ Respond(w)
               \/ \E k \in Keys : Expire(k)
               \/ Cleanup \/ Close \/ Restart
  PROVE  IInv'
  <1> USE DEF IInv
  <1>1. ASSUME NEW w \in Workers, Call(w)
        PROVE  IInv'
    <2>1. PICK k \in Keys, s \in {FirstStep, "delete"} :
            /\ pc' = [pc EXCEPT ![w] = s]
            /\ call' = [call EXCEPT ![w] = [key |-> k, answer |-> "none"]]
      BY <1>1 DEF Call
    <2>2. s \in {"check", "get", "delete"} /\ s \in CallSteps
          /\ s \notin IF kind = "memory" THEN RedisSteps ELSE {"check"}
      BY <2>1 DEF FirstStep, CallSteps, RedisSteps
    <2>3. UNCHANGED <<kind, data, closed, late, done, firsts, unsure>> /\ pc[w] = "idle"
      BY <1>1 DEF Call, store
    <2>4. TypeOK' /\ KeysKnown'
      BY <2>1, <2>2, <2>3 DEF TypeOK, KeysKnown, Answers
    <2>5. (\A x \in Keys : Setting(x)' \subseteq Setting(x)) /\ Awaited \subseteq Awaited'
      BY <2>1, <2>2, <2>3 DEF Setting, TypeOK, Awaited, Waiting
    <2> QED
      BY <2>3, <2>4, <2>5, SilentKeeps
  <1>2. ASSUME NEW w \in Workers, Cancel(w)
        PROVE  IInv'
    <2>1. UNCHANGED <<kind, data, closed, late, pc, call, firsts, unsure>> /\ done' = done \cup {w}
      BY <1>2 DEF Cancel, store
    <2>2. TypeOK' /\ KeysKnown' /\ Awaited' = Awaited
          /\ \A x \in Keys : Setting(x)' = Setting(x)
      BY <2>1 DEF TypeOK, KeysKnown, Setting, Awaited, Waiting
    <2> QED
      BY <2>1, <2>2, SilentKeeps
  <1>3. ASSUME NEW w \in Workers, Respond(w)
        PROVE  IInv'
    <2>1. /\ UNCHANGED <<kind, data, closed, late, done, firsts, unsure>> /\ pc[w] = "reply"
          /\ pc' = [pc EXCEPT ![w] = "idle"]
          /\ call' = [call EXCEPT ![w] = [key |-> NoKey, answer |-> "none"]]
      BY <1>3 DEF Respond, store
    <2>2. TypeOK' /\ KeysKnown'
      BY <2>1 DEF TypeOK, KeysKnown, Answers, CallSteps, RedisSteps
    <2>3. (\A x \in Keys : Setting(x)' \subseteq Setting(x)) /\ Awaited \subseteq Awaited'
      BY <2>1 DEF Setting, TypeOK, Awaited, Waiting
    <2> QED
      BY <2>1, <2>2, <2>3, SilentKeeps
  <1>4. ASSUME (\E k \in Keys : Expire(k)) \/ Cleanup
        PROVE  IInv'
    <2>1. UNCHANGED <<kind, closed, late, pc, call, done>> /\ Tell({}, {})
      BY <1>4 DEF Expire, Cleanup
    <2>2. /\ data' \in [Keys -> {"absent", "held", "expired"}]
          /\ \A x \in Keys : data'[x] # "absent" => data[x] # "absent"
      BY <1>4 DEF Expire, Cleanup, TypeOK
    <2>3. Awaited' = Awaited /\ \A x \in Keys : Setting(x)' = Setting(x)
      BY <2>1 DEF Setting, Awaited, Waiting
    <2> QED
      BY <2>1, <2>2, <2>3, UntoldKeeps DEF TypeOK, KeysKnown
  <1>5. CASE Close
    <2>1. UNCHANGED <<kind, data, late, pc, call, done, firsts, unsure>> /\ closed' = TRUE
      BY <1>5 DEF Close
    <2>2. TypeOK' /\ KeysKnown' /\ Awaited' = Awaited
          /\ \A x \in Keys : Setting(x)' = Setting(x)
      BY <2>1 DEF TypeOK, KeysKnown, Setting, Awaited, Waiting
    <2> QED
      BY <2>1, <2>2, SilentKeeps
  <1>6. CASE Restart
    <2>1. closed' = FALSE /\ kind' = kind
      BY <1>6 DEF Restart
    <2>2. PICK lost \in SUBSET Workers :
            /\ lost \in IF kind = "memory" THEN {Workers} ELSE SUBSET Workers
            /\ pc' = [w \in Workers |-> IF w \in lost THEN "idle" ELSE pc[w]]
            /\ call' = [w \in Workers |->
                 IF w \in lost THEN [key |-> NoKey, answer |-> "none"] ELSE call[w]]
            /\ done' = done \ lost
            /\ late' = late \cup Waiting("sent", lost)
            /\ Tell({}, Waiting("answer", lost))
      BY <1>6 DEF Restart
    <2>3. /\ data' \in [Keys -> {"absent", "held", "expired"}]
          /\ \A x \in Keys : data'[x] # "absent" => data[x] # "absent"
      BY <1>6 DEF Restart, TypeOK
    <2>4. /\ pc' \in [Workers -> CallSteps] /\ KeysKnown'
          /\ call' \in [Workers -> [key : Keys \cup {NoKey}, answer : Answers]]
          /\ done' \in SUBSET Workers
      BY <2>2 DEF TypeOK, KeysKnown, Answers, CallSteps, RedisSteps
    <2>5. \A x \in Workers : pc'[x] \notin IF kind = "memory" THEN RedisSteps ELSE {"check"}
      BY <2>2 DEF TypeOK, RedisSteps
    <2>6. \A k \in Keys : Setting(k)' \subseteq Setting(k)
      BY <2>2 DEF Setting
    <2>7. /\ Waiting("sent", lost) \subseteq Keys /\ Waiting("answer", lost) \subseteq Keys
          /\ kind = "memory" => Waiting("sent", lost) = {}
      BY <2>2 DEF Waiting, KeysKnown, TypeOK, RedisSteps
    <2>8. \A k \in Awaited : k \in Waiting("answer", lost) \cup Awaited'
      BY <2>2 DEF Awaited, Waiting
    <2>9. late' \in SUBSET Keys /\ (kind = "memory" => late' = {})
      BY <2>2, <2>7 DEF TypeOK
    <2>10. PICK errors \in SUBSET Keys : errors = Waiting("answer", lost)
      BY <2>7
    <2>11. Tell({}, errors) /\ \A k \in Awaited : k \in errors \cup Awaited'
      BY <2>2, <2>8, <2>10
    <2> QED
      BY <2>1, <2>3, <2>4, <2>5, <2>6, <2>9, <2>11, UntoldKeeps
  <1> QED
    BY <1>1, <1>2, <1>3, <1>4, <1>5, <1>6

-----------------------------------------------------------------------------
(* The theorems.                                                           *)

LEMMA InitIInv == Init => IInv
  <1> SUFFICES ASSUME Init PROVE IInv
    OBVIOUS
  <1>1. TypeOK /\ KeysKnown /\ Told
    BY DEF Init, TypeOK, KeysKnown, Told, DuplicateHasOriginal, Present, Answers,
           CallSteps, RedisSteps
  <1>2. ASSUME NEW k \in Keys
        PROVE  firsts[k] + Cardinality(Setting(k)) <= Cardinality(Workers)
    <2>1. Setting(k) = {} /\ firsts[k] = 0
      BY DEF Init, Setting
    <2>2. Cardinality(Setting(k)) = 0 /\ Cardinality(Workers) \in Nat
      BY <2>1, FS_EmptySet, FS_CardinalityType, IdempotencyAssumption
    <2> QED
      BY <2>1, <2>2
  <1>3. Bound
    BY <1>2 DEF Init, Bound
  <1> QED
    BY <1>1, <1>3 DEF IInv

LEMMA NextIInv == IInv /\ [Next]_vars => IInv'
  <1>1. ASSUME IInv, UNCHANGED vars
        PROVE  IInv'
    BY <1>1 DEF IInv, vars, store, TypeOK, KeysKnown, Told, DuplicateHasOriginal, Present,
                Bound, Setting, Waiting
  <1> QED
    BY <1>1, CheckAndSetKeeps, RedisGetKeeps, RedisSetKeeps, RedisAnswerKeeps, RedisFailsKeeps,
       LateSetKeeps, RemoveKeeps, OtherStepsKeep
    DEF Next, Handle

THEOREM Invariant == Spec => []IInv
  BY InitIInv, NextIInv, PTL DEF Spec

(* The types hold in every reachable state.                                *)
THEOREM TypeCorrect == Spec => []TypeOK
  <1>1. IInv => TypeOK
    BY DEF IInv
  <1> QED
    BY <1>1, Invariant, PTL

(* CheckAndSet answers "first" once while the map remembers a key, and no  *)
(* more often than calls can overlap while Redis does.                     *)
THEOREM ExecutionsBounded == Spec => []ExecutedOnce
  <1>1. ASSUME IInv, NEW k \in Keys
        PROVE  firsts[k] <= IF kind = "memory" THEN 1 ELSE Cardinality(Workers)
    <2>1. PICK S : S = Setting(k)
      OBVIOUS
    <2>2. Cardinality(S) \in Nat /\ Cardinality(Workers) \in Nat
      BY <2>1, IdempotencyAssumption, FS_Subset, FS_CardinalityType DEF Setting
    <2> QED
      BY <1>1, <2>1, <2>2 DEF IInv, Bound, TypeOK
  <1>2. IInv => ExecutedOnce
    BY <1>1 DEF ExecutedOnce
  <1> QED
    BY <1>2, Invariant, PTL

(* A key that makes requests duplicates was answered "first", or entered   *)
(* by a SET whose caller still waits for its answer or never got one.      *)
THEOREM DuplicatesHaveOriginals == Spec => []DuplicateHasOriginal
  <1>1. IInv => DuplicateHasOriginal
    BY DEF IInv, Told
  <1> QED
    BY <1>1, Invariant, PTL

-----------------------------------------------------------------------------
(* The shutdown handler.                                                   *)

(* The steps between the first and the last of what the Once guards.       *)
Working == {"runFlag", "wait", "loop", "select", "final", "triggerFlag", "triggerCancel"}

(* A shutdown has begun: the Trigger that cancels the context first keeps  *)
(* Run from waiting for a signal.                                          *)
Begun == signalled /\ cancelled

(* The Once lets one caller in.                                            *)
OneWorks ==
  /\ \A c \in Callers : step[c] \in Working => once = "held"
  /\ \A c, d \in Callers : step[c] \in Working /\ step[d] \in Working => c = d

(* What is so at each step of the caller that works, before and after.     *)
Phases ==
  /\ \A c \in Callers :
       /\ step[c] = "wait" => flag /\ ~cancelled
       /\ step[c] \in {"loop", "select", "final"} => Begun
       /\ step[c] \in {"runFlag", "triggerFlag", "triggerCancel"} => ~signalled /\ ~cancelled
       /\ step[c] = "final" => cursor = 0
       /\ step[c] = "select" => cursor > 0
  /\ once = "free" => ~signalled /\ ~cancelled
  /\ Begun => flag
  /\ ~Begun => Started = {} /\ cursor = 0 /\ outcome \in {"none", "trigger"}
  /\ outcome = "none" <=> once # "done"
  /\ outcome = "trigger" => ~Begun /\ ~signalled
  /\ outcome # "none" => cursor = 0
  /\ outcome = "nil" => Running = {}
  /\ \A c \in Callers : result[c] # "none" => outcome # "none"

Registering(c) == step[c] \in {"lock", "loadFlag", "append"}

(* What is registered is a closer nobody else registers, once.             *)
Listed ==
  /\ \A c \in Callers : Registering(c) => arg[c] \in Resources /\ state[arg[c]] = "offered"
  /\ \A c, d \in Callers : Registering(c) /\ Registering(d) /\ arg[c] = arg[d] => c = d
  /\ \A i, j \in 1 .. Len(closers) : closers[i] = closers[j] => i = j
  /\ \A i \in 1 .. Len(closers) :
       state[closers[i]] \in {"open", "closing", "late", "closed"}
  /\ \A r \in early : \E i \in 1 .. Len(closers) : closers[i] = r

(* How far the loop has come: below the cursor nothing is started, above   *)
(* it everything that was there in time.                                   *)
Progress ==
  Begun => \A i \in 1 .. Len(closers) :
    /\ i < cursor => closers[i] \notin Started
    /\ i = cursor => (closers[i] \in Started <=> \E c \in Callers : step[c] = "select")
    /\ i > cursor => /\ closers[i] \in Started \/ closers[i] \notin early
                     /\ state[closers[i]] = "closing" => timeUp

(* The inductive invariant.                                                *)
ShutdownInv == ShutdownTypeOK /\ OneWorks /\ Phases /\ Listed /\ Progress

(* A caller that goes on outside the Once, and touches nothing else.       *)
LEMMA BystanderKeeps ==
  ASSUME ShutdownInv, NEW c \in Callers,
         Run(c) \/ Trigger(c) \/ WaitForCompletion(c) \/ WaitAll(c)
  PROVE  ShutdownInv'
  <1>1. UNCHANGED <<flag, once, cancelled, closers, mu, cursor, state, early,
                    arg, signalled, timeUp, outcome, result>>
    BY DEF answers, Run, Trigger, WaitForCompletion, WaitAll, handler
  <1>2. PICK s \in {"run", "trigger", "waitAll", "idle"} : step' = [step EXCEPT ![c] = s]
    BY DEF Run, Trigger, WaitForCompletion, WaitAll, GoTo
  <1>3. step[c] \in {"idle", "waitAll"}
    BY DEF Run, Trigger, WaitForCompletion, WaitAll
  <1>4. ShutdownTypeOK'
    BY <1>1, <1>2 DEF ShutdownInv, ShutdownTypeOK, Steps
  <1>5. /\ \A d \in Callers : step'[d] # step[d] => d = c
        /\ step'[c] \in {"run", "trigger", "waitAll", "idle"}
    BY <1>2 DEF ShutdownInv, ShutdownTypeOK
  <1>6. OneWorks'
    BY <1>1, <1>5 DEF ShutdownInv, OneWorks, Working
  <1>7. Phases'
    BY <1>1, <1>5 DEF ShutdownInv, Phases, Begun, Started, Running
  <1>8. Listed'
    BY <1>1, <1>5 DEF ShutdownInv, Listed, Registering
  <1>9. (\E d \in Callers : step'[d] = "select") <=> \E d \in Callers : step[d] = "select"
    BY <1>3, <1>5
  <1>10. Progress'
    BY <1>1, <1>9 DEF ShutdownInv, Progress, Begun, Started
  <1> QED
    BY <1>4, <1>6, <1>7, <1>8, <1>10 DEF ShutdownInv

(* Register up to the list: nothing the shutdown looks at.                 *)
LEMMA RegisterKeeps ==
  ASSUME ShutdownInv, NEW c \in Callers, Register(c) \/ Lock(c) \/ LoadFlag(c)
  PROVE  ShutdownInv'
  <1>1. UNCHANGED <<flag, once, cancelled, closers, cursor, early, signalled, timeUp, outcome, result>>
    BY DEF answers, Register, Lock, LoadFlag
  <1>2. CASE Register(c)
    <2>1. PICK r \in Resources :
            /\ state[r] = "new"
            /\ state' = [state EXCEPT ![r] = "offered"]
            /\ arg' = [arg EXCEPT ![c] = r]
      BY <1>2 DEF Register, Become
    <2>2. step[c] = "idle" /\ step' = [step EXCEPT ![c] = "lock"] /\ UNCHANGED mu
      BY <1>2 DEF Register, GoTo
    <2>3. ShutdownTypeOK'
      BY <1>1, <2>1, <2>2 DEF ShutdownInv, ShutdownTypeOK, Steps, States
    <2>4. OneWorks'
      BY <1>1, <2>2 DEF ShutdownInv, ShutdownTypeOK, OneWorks, Working
    <2>5. Started' = Started /\ Running' = Running
      BY <2>1 DEF ShutdownInv, ShutdownTypeOK, Started, Running
    <2>6. Phases'
      BY <1>1, <2>2, <2>5 DEF ShutdownInv, ShutdownTypeOK, Phases, Begun
    <2>7. \A i \in 1 .. Len(closers) : closers[i] \in Resources /\ closers[i] # r
      BY <2>1 DEF ShutdownInv, ShutdownTypeOK, Listed
    <2>8. Listed'
      BY <1>1, <2>1, <2>2, <2>7 DEF ShutdownInv, ShutdownTypeOK, Listed, Registering
    <2>9. (\E d \in Callers : step'[d] = "select") <=> \E d \in Callers : step[d] = "select"
      BY <2>2 DEF ShutdownInv, ShutdownTypeOK
    <2>10. Progress'
      BY <1>1, <2>1, <2>5, <2>7, <2>9 DEF ShutdownInv, ShutdownTypeOK, Progress, Begun
    <2> QED
      BY <2>3, <2>4, <2>6, <2>8, <2>10 DEF ShutdownInv
  <1>3. CASE Lock(c) \/ LoadFlag(c)
    <2>1. /\ UNCHANGED arg /\ mu' \in Callers \cup {None}
          /\ \/ UNCHANGED state
             \/ flag /\ state' = [state EXCEPT ![arg[c]] = "refused"]
      BY <1>3 DEF Lock, LoadFlag, Become, ShutdownInv, ShutdownTypeOK
    <2>2. /\ step[c] \in {"lock", "loadFlag"}
          /\ \/ step' = [step EXCEPT ![c] = "idle"]
             \/ step' = [step EXCEPT ![c] = "loadFlag"] /\ UNCHANGED state
             \/ step' = [step EXCEPT ![c] = "append"] /\ UNCHANGED state
      BY <1>3 DEF Lock, LoadFlag, GoTo
    <2>3. arg[c] \in Resources /\ state[arg[c]] = "offered"
      BY <2>2 DEF ShutdownInv, Listed, Registering
    <2>4. ShutdownTypeOK'
      BY <1>1, <2>1, <2>2, <2>3 DEF ShutdownInv, ShutdownTypeOK, Steps, States
    <2>5. /\ \A d \in Callers : step'[d] # step[d] => d = c
          /\ step'[c] \in {"idle", "loadFlag", "append"}
          /\ Registering(c)
      BY <2>2 DEF ShutdownInv, ShutdownTypeOK, Registering
    <2>6. OneWorks'
      BY <1>1, <2>5 DEF ShutdownInv, OneWorks, Working
    <2>7. Started' = Started /\ Running' = Running
      BY <2>1, <2>3 DEF ShutdownInv, ShutdownTypeOK, Started, Running
    <2>8. Phases'
      BY <1>1, <2>5, <2>7 DEF ShutdownInv, Phases, Begun
    <2>9. \A i \in 1 .. Len(closers) :
            closers[i] \in Resources /\ state'[closers[i]] = state[closers[i]]
      BY <2>1, <2>3 DEF ShutdownInv, ShutdownTypeOK, Listed
    <2>10. \A d \in Callers : Registering(d)' =>
             Registering(d) /\ arg[d] \in Resources /\ state'[arg[d]] = "offered"
      <3>1. CASE UNCHANGED state
        BY <2>5, <3>1 DEF ShutdownInv, Listed, Registering
      <3>2. CASE step' = [step EXCEPT ![c] = "idle"]
        <4>1. \A d \in Callers : Registering(d)' => Registering(d) /\ d # c
          BY <3>2 DEF ShutdownInv, ShutdownTypeOK, Registering
        <4>2. \A d \in Callers : Registering(d) /\ d # c =>
                arg[d] \in Resources /\ arg[d] # arg[c] /\ state[arg[d]] = "offered"
          BY <2>5 DEF ShutdownInv, Listed
        <4> QED
          BY <2>1, <2>3, <4>1, <4>2 DEF ShutdownInv, ShutdownTypeOK
      <3> QED
        BY <2>2, <3>1, <3>2
    <2>11. Listed'
      BY <1>1, <2>1, <2>9, <2>10 DEF ShutdownInv, Listed
    <2>12. (\E d \in Callers : step'[d] = "select") <=> \E d \in Callers : step[d] = "select"
      BY <2>2, <2>5
    <2>13. Progress'
      BY <1>1, <2>7, <2>9, <2>12 DEF ShutdownInv, Progress, Begun
    <2> QED
      BY <2>4, <2>6, <2>8, <2>11, <2>13 DEF ShutdownInv
  <1> QED
    BY <1>2, <1>3

(* The list grows at its end: above the cursor, and nothing that was there *)
(* in time once a shutdown has begun.                                      *)
LEMMA AppendKeeps ==
  ASSUME ShutdownInv, NEW c \in Callers, AppendCloser(c)
  PROVE  ShutdownInv'
  <1> DEFINE r == arg[c]
             n == Len(closers) + 1
  <1>1. UNCHANGED <<flag, once, cancelled, cursor, arg, signalled, timeUp, outcome, result>>
    BY DEF answers, AppendCloser
  <1>2. /\ step[c] = "append" /\ step' = [step EXCEPT ![c] = "idle"]
        /\ closers' = Append(closers, r)
        /\ state' = [state EXCEPT ![r] = "open"]
        /\ early' = IF flag THEN early ELSE early \cup {r}
        /\ mu' = None
    BY DEF AppendCloser, GoTo, Become
  <1>3. r \in Resources /\ state[r] = "offered" /\ Registering(c)
    BY <1>2 DEF ShutdownInv, Listed, Registering
  <1> HIDE DEF r
  <1>4. /\ Len(closers) \in Nat /\ Len(closers') = n /\ closers'[n] = r
        /\ closers' \in Seq(Resources)
        /\ \A i \in 1 .. Len(closers) : closers'[i] = closers[i]
    BY <1>2, <1>3 DEF ShutdownInv, ShutdownTypeOK
  <1>5. \A i \in 1 .. n : i \in 1 .. Len(closers) \/ i = n
    BY <1>4
  <1>6. \A i \in 1 .. Len(closers) : closers[i] \in Resources /\ closers[i] # r
    <2>1. \A i \in 1 .. Len(closers) : closers[i] \in Resources
      BY DEF ShutdownInv, ShutdownTypeOK
    <2>2. \A i \in 1 .. Len(closers) : state[closers[i]] # "offered"
      BY DEF ShutdownInv, Listed
    <2> QED
      BY <1>3, <2>1, <2>2
  <1>7. \A i \in 1 .. Len(closers) : state'[closers'[i]] = state[closers[i]]
    BY <1>2, <1>3, <1>4, <1>6 DEF ShutdownInv, ShutdownTypeOK
  <1>8. state'[r] = "open"
    BY <1>2, <1>3 DEF ShutdownInv, ShutdownTypeOK
  <1>9. ShutdownTypeOK'
    <2>1. /\ step' \in [Callers -> Steps] /\ state' \in [Resources -> States]
          /\ early' \in SUBSET Resources /\ mu' \in Callers \cup {None}
      BY <1>2, <1>3 DEF ShutdownInv, ShutdownTypeOK, Steps, States
    <2>2. cursor' \in 0 .. Len(closers')
      BY <1>1, <1>4 DEF ShutdownInv, ShutdownTypeOK
    <2> QED
      BY <1>1, <1>4, <2>1, <2>2 DEF ShutdownInv, ShutdownTypeOK
  <1>10. /\ \A d \in Callers : step'[d] # step[d] => d = c
         /\ step'[c] = "idle"
    BY <1>2 DEF ShutdownInv, ShutdownTypeOK
  <1>11. OneWorks'
    BY <1>1, <1>10 DEF ShutdownInv, OneWorks, Working
  <1>12. Started' = Started /\ Running' = Running
    BY <1>2, <1>3 DEF ShutdownInv, ShutdownTypeOK, Started, Running
  <1>13. Phases'
    BY <1>1, <1>10, <1>12 DEF ShutdownInv, Phases, Begun
  <1>14. Listed'
    <2>1. \A d \in Callers : Registering(d)' =>
            Registering(d) /\ arg[d] \in Resources /\ state'[arg[d]] = "offered"
      <3>1. \A d \in Callers : Registering(d)' => Registering(d) /\ d # c
        BY <1>10 DEF Registering
      <3>2. \A d \in Callers : Registering(d) /\ d # c =>
              arg[d] \in Resources /\ arg[d] # r /\ state[arg[d]] = "offered"
        BY <1>3 DEF ShutdownInv, Listed, r
      <3> QED
        BY <1>2, <3>1, <3>2 DEF ShutdownInv, ShutdownTypeOK
    <2>2. \A i, j \in 1 .. n : closers'[i] = closers'[j] => i = j
      <3>1. \A i, j \in 1 .. Len(closers) : closers'[i] = closers'[j] => i = j
        BY <1>4 DEF ShutdownInv, Listed
      <3>2. \A i \in 1 .. Len(closers) : closers'[i] # closers'[n]
        BY <1>4, <1>6
      <3> HIDE DEF n
      <3> QED
        BY <1>5, <3>1, <3>2
    <2>3. \A i \in 1 .. n : state'[closers'[i]] \in {"open", "closing", "late", "closed"}
      <3>1. \A i \in 1 .. Len(closers) :
              state'[closers'[i]] \in {"open", "closing", "late", "closed"}
        BY <1>7 DEF ShutdownInv, Listed
      <3>2. state'[closers'[n]] \in {"open", "closing", "late", "closed"}
        BY <1>4, <1>8
      <3> HIDE DEF n
      <3> QED
        BY <1>5, <3>1, <3>2
    <2>4. \A x \in early' : \E i \in 1 .. n : closers'[i] = x
      <3>1. 1 .. Len(closers) \subseteq 1 .. n /\ n \in 1 .. n
        BY <1>4
      <3>2. ASSUME NEW x \in early PROVE \E i \in 1 .. n : closers'[i] = x
        BY <1>4, <3>1 DEF ShutdownInv, Listed
      <3>3. \E i \in 1 .. n : closers'[i] = r
        BY <1>4, <3>1
      <3> QED
        BY <1>2, <3>2, <3>3
    <2> QED
      BY <1>1, <1>4, <2>1, <2>2, <2>3, <2>4 DEF ShutdownInv, Listed
  <1>15. Progress'
    <2> SUFFICES ASSUME Begun, NEW i \in 1 .. n
                 PROVE  /\ i < cursor => closers'[i] \notin Started'
                        /\ i = cursor =>
                             (closers'[i] \in Started' <=> \E d \in Callers : step'[d] = "select")
                        /\ i > cursor =>
                             /\ closers'[i] \in Started' \/ closers'[i] \notin early'
                             /\ state'[closers'[i]] = "closing" => timeUp
      BY <1>1, <1>4 DEF Progress, Begun
    <2>1. early' = early
      BY <1>2 DEF ShutdownInv, Phases
    <2>2. (\E d \in Callers : step'[d] = "select") <=> \E d \in Callers : step[d] = "select"
      BY <1>2, <1>10
    <2>3. CASE i \in 1 .. Len(closers)
      BY <1>4, <1>7, <1>12, <2>1, <2>2, <2>3 DEF ShutdownInv, Progress
    <2>4. CASE i = n
      <3>1. cursor < n
        BY <1>4 DEF ShutdownInv, ShutdownTypeOK
      <3>2. r \notin early /\ r \notin Started'
        BY <1>3, <1>6, <1>12 DEF ShutdownInv, Listed, Started
      <3>3. cursor \in Nat /\ n \in Nat
        BY <1>4 DEF ShutdownInv, ShutdownTypeOK
      <3> QED
        BY <1>4, <1>8, <2>1, <2>4, <3>1, <3>2, <3>3
    <2> QED
      BY <1>5, <2>3, <2>4
  <1> QED
    BY <1>9, <1>11, <1>13, <1>14, <1>15 DEF ShutdownInv

(* The Once, the flag, and the end of Trigger.                             *)
LEMMA OnceKeeps ==
  ASSUME ShutdownInv, NEW c \in Callers,
         EnterRun(c) \/ EnterTrigger(c) \/ SetFlag(c) \/ TriggerCancel(c)
  PROVE  ShutdownInv'
  <1>1. UNCHANGED <<closers, mu, cursor, state, early, arg, signalled, timeUp>>
    BY DEF EnterRun, EnterTrigger, OnceDo, SetFlag, TriggerCancel
  <1>2. /\ Started' = Started /\ Running' = Running
        /\ step \in [Callers -> Steps]
    BY <1>1 DEF Started, Running, ShutdownInv, ShutdownTypeOK
  <1>3. ASSUME NEW s \in Steps \ {"select"}, step' = [step EXCEPT ![c] = s],
               flag' \in BOOLEAN, once' \in {"free", "held", "done"}, cancelled' \in BOOLEAN,
               ~Registering(c), s \notin {"lock", "loadFlag", "append"},
               outcome' \in {"none", "nil", "timeout", "trigger"},
               result' \in [Callers -> {"none", "nil", "timeout"}],
               step[c] # "select", OneWorks', Phases', Begun' = Begun
        PROVE  ShutdownInv'
    <2>1. ShutdownTypeOK'
      BY <1>1, <1>3 DEF ShutdownInv, ShutdownTypeOK
    <2>2. Listed'
      BY <1>1, <1>2, <1>3 DEF ShutdownInv, Listed, Registering
    <2>3. (\E d \in Callers : step'[d] = "select") <=> \E d \in Callers : step[d] = "select"
      BY <1>2, <1>3
    <2>4. Progress'
      BY <1>1, <1>2, <1>3, <2>3 DEF ShutdownInv, Progress
    <2> QED
      BY <1>3, <2>1, <2>2, <2>4 DEF ShutdownInv
  <1>4. CASE EnterRun(c) \/ EnterTrigger(c)
    <2>1. /\ step[c] \in {"run", "trigger"} /\ UNCHANGED <<flag, cancelled, outcome>>
          /\ Begun' = Begun
      BY <1>1, <1>4 DEF EnterRun, EnterTrigger, OnceDo, Begun
    <2>2. /\ result' \in [Callers -> {"none", "nil", "timeout"}]
          /\ \A d \in Callers : result'[d] # "none" => result[d] # "none" \/ once = "done"
      BY <1>4 DEF EnterRun, EnterTrigger, ShutdownInv, ShutdownTypeOK
    <2>3. \/ UNCHANGED once /\ step' = [step EXCEPT ![c] = "idle"]
          \/ \E first \in {"runFlag", "triggerFlag"} :
               once = "free" /\ once' = "held" /\ step' = [step EXCEPT ![c] = first]
      BY <1>4 DEF EnterRun, EnterTrigger, OnceDo, GoTo
    <2>4. \A d \in Callers : result'[d] # "none" => outcome # "none"
      BY <2>2 DEF ShutdownInv, Phases
    <2>5. ASSUME NEW first \in {"runFlag", "triggerFlag"}, once = "free", once' = "held",
                 step' = [step EXCEPT ![c] = first]
          PROVE  ShutdownInv'
      <3>1. \A d \in Callers : step[d] \notin Working
        BY <2>5 DEF ShutdownInv, OneWorks
      <3>2. OneWorks'
        BY <1>2, <2>5, <3>1 DEF OneWorks
      <3>3. ~signalled /\ ~cancelled
        BY <2>5 DEF ShutdownInv, Phases
      <3>4. \A d \in Callers : step'[d] \in Working => step'[d] \in {"runFlag", "triggerFlag"}
        BY <1>2, <2>5, <3>1
      <3>5. Phases'
        BY <1>1, <1>2, <2>1, <2>4, <2>5, <3>3, <3>4 DEF ShutdownInv, Phases, Begun, Working
      <3>6. first \in Steps \ {"select"}
        BY DEF Steps
      <3> QED
        BY <1>3, <2>1, <2>2, <2>5, <3>2, <3>5, <3>6
        DEF ShutdownInv, ShutdownTypeOK, Registering
    <2>6. CASE UNCHANGED once /\ step' = [step EXCEPT ![c] = "idle"]
      <3>1. OneWorks'
        BY <1>2, <2>6 DEF ShutdownInv, OneWorks, Working
      <3>2. Phases'
        BY <1>1, <1>2, <2>1, <2>4, <2>6 DEF ShutdownInv, Phases, Begun
      <3>3. "idle" \in Steps \ {"select"}
        BY DEF Steps
      <3> QED
        BY <1>3, <2>1, <2>2, <2>6, <3>1, <3>2, <3>3
        DEF ShutdownInv, ShutdownTypeOK, Registering
    <2> QED
      BY <2>3, <2>5, <2>6
  <1>5. CASE SetFlag(c)
    <2>1. PICK s \in {"wait", "triggerCancel"} :
            /\ step' = [step EXCEPT ![c] = s]
            /\ step[c] \in {"runFlag", "triggerFlag"}
            /\ flag' = TRUE /\ UNCHANGED <<once, cancelled, outcome, result>>
      BY <1>5 DEF SetFlag, GoTo, answers
    <2>2. OneWorks' /\ Begun' = Begun
      BY <1>1, <1>2, <2>1 DEF ShutdownInv, OneWorks, Working, Begun
    <2>3. ~signalled /\ ~cancelled
      BY <2>1 DEF ShutdownInv, Phases
    <2>4. Phases'
      BY <1>1, <1>2, <2>1, <2>3 DEF ShutdownInv, Phases, Begun
    <2> QED
      BY <1>3, <2>1, <2>2, <2>4 DEF ShutdownInv, ShutdownTypeOK, Registering, Steps
  <1>6. CASE TriggerCancel(c)
    <2>1. /\ step' = [step EXCEPT ![c] = "idle"] /\ step[c] = "triggerCancel"
          /\ cancelled' = TRUE /\ once' = "done" /\ outcome' = "trigger"
          /\ UNCHANGED <<flag, result>>
      BY <1>6 DEF TriggerCancel, GoTo
    <2>2. ~signalled /\ ~cancelled /\ cursor = 0 /\ Started = {}
      BY <2>1 DEF ShutdownInv, Phases, Begun
    <2>3. \A d \in Callers : step'[d] \notin Working
      BY <1>2, <2>1 DEF ShutdownInv, OneWorks, Working
    <2>4. OneWorks' /\ Begun' = Begun
      BY <1>1, <2>2, <2>3 DEF OneWorks, Begun
    <2>5. Phases'
      BY <1>1, <1>2, <2>1, <2>2, <2>3 DEF Phases, Begun, Working
    <2> QED
      BY <1>3, <2>1, <2>4, <2>5 DEF ShutdownInv, ShutdownTypeOK, Registering, Steps
  <1> QED
    BY <1>4, <1>5, <1>6

(* The beginning of a shutdown.                                            *)
LEMMA WaitKeeps ==
  ASSUME ShutdownInv, NEW c \in Callers, Wait(c)
  PROVE  ShutdownInv'
  <1>1. UNCHANGED <<flag, once, closers, mu, state, early, arg, signalled, timeUp, outcome, result>>
    BY DEF answers, Wait
  <1>2. /\ step[c] = "wait" /\ step' = [step EXCEPT ![c] = "loop"]
        /\ cancelled' = TRUE /\ cursor' = Len(closers)
        /\ signalled \/ cancelled
    BY DEF Wait, GoTo
  <1>3. flag /\ ~cancelled /\ signalled
    BY <1>2 DEF ShutdownInv, Phases
  <1>4. /\ Started = {} /\ once = "held" /\ outcome = "none"
        /\ \A d \in Callers : result[d] = "none"
    <2>1. once = "held"
      BY <1>2 DEF ShutdownInv, OneWorks, Working
    <2> QED
      BY <1>3, <2>1 DEF ShutdownInv, Phases, Begun
  <1>5. Len(closers) \in Nat /\ step \in [Callers -> Steps] /\ closers \in Seq(Resources)
    BY DEF ShutdownInv, ShutdownTypeOK
  <1>6. Started' = Started /\ Running' = Running
    BY <1>1 DEF Started, Running
  <1>7. \A d \in Callers : d # c => step[d] \notin Working
    BY <1>2 DEF ShutdownInv, OneWorks, Working
  <1>8. \A d \in Callers : d # c => step'[d] \notin Working
    BY <1>2, <1>5, <1>7
  <1>9. step'[c] = "loop"
    BY <1>2, <1>5
  <1>10. ShutdownTypeOK'
    BY <1>1, <1>2, <1>5 DEF ShutdownInv, ShutdownTypeOK, Steps
  <1>11. OneWorks'
    BY <1>1, <1>2, <1>8 DEF ShutdownInv, OneWorks, Working
  <1>12. once # "free"
    BY <1>2 DEF ShutdownInv, OneWorks, Working
  <1>13. Phases'
    BY <1>1, <1>2, <1>3, <1>4, <1>6, <1>8, <1>9, <1>12
    DEF Phases, Begun, Working
  <1>14. Listed'
    BY <1>1, <1>2, <1>5 DEF ShutdownInv, Listed, Registering
  <1>15. Progress'
    <2>1. \A d \in Callers : step'[d] # "select"
      BY <1>8, <1>9 DEF Working
    <2>2. \A i \in 1 .. Len(closers) : closers[i] \notin Started' /\ ~(i > Len(closers))
      BY <1>4, <1>5, <1>6
    <2> QED
      BY <1>1, <1>2, <2>1, <2>2 DEF Progress
  <1> QED
    BY <1>10, <1>11, <1>13, <1>14, <1>15 DEF ShutdownInv

(* The loop starts the closer under its cursor, or is over.                *)
LEMMA LoopKeeps ==
  ASSUME ShutdownInv, NEW c \in Callers, Loop(c)
  PROVE  ShutdownInv'
  <1>1. UNCHANGED <<flag, once, cancelled, closers, mu, cursor, early,
                    arg, signalled, timeUp, outcome, result>>
    BY DEF answers, Loop
  <1>2. /\ step[c] = "loop"
        /\ IF cursor = 0
             THEN step' = [step EXCEPT ![c] = "final"] /\ UNCHANGED state
             ELSE /\ step' = [step EXCEPT ![c] = "select"]
                  /\ state' = [state EXCEPT ![closers[cursor]] = "closing"]
    BY DEF Loop, GoTo, Become
  <1>3. /\ Begun /\ Begun' /\ once = "held" /\ outcome = "none"
        /\ \A d \in Callers : result[d] = "none"
    <2>1. Begun /\ once = "held"
      BY <1>2 DEF ShutdownInv, Phases, OneWorks, Working
    <2> QED
      BY <1>1, <2>1 DEF ShutdownInv, ShutdownTypeOK, Phases, Begun
  <1>4. /\ Len(closers) \in Nat /\ cursor \in 0 .. Len(closers)
        /\ step \in [Callers -> Steps] /\ state \in [Resources -> States]
        /\ \A i \in 1 .. Len(closers) : closers[i] \in Resources
    BY DEF ShutdownInv, ShutdownTypeOK
  <1>5. \A d \in Callers : d # c => step[d] \notin Working
    BY <1>2 DEF ShutdownInv, OneWorks, Working
  <1>6. \A d \in Callers : d # c => step'[d] = step[d] /\ step'[d] \notin Working
    BY <1>2, <1>4, <1>5
  <1>7. step'[c] = IF cursor = 0 THEN "final" ELSE "select"
    BY <1>2, <1>4
  <1>8. ShutdownTypeOK'
    BY <1>1, <1>2, <1>4 DEF ShutdownInv, ShutdownTypeOK, Steps, States
  <1>9. OneWorks'
    BY <1>1, <1>3, <1>6 DEF OneWorks
  <1>10. Phases'
    <2>1. flag
      BY <1>3 DEF ShutdownInv, Phases
    <2>2. cursor = 0 \/ cursor > 0
      BY <1>4
    <2> QED
      BY <1>1, <1>3, <1>6, <1>7, <2>1, <2>2 DEF Phases, Working
  <1>11. CASE cursor = 0
    <2>1. UNCHANGED state /\ Started' = Started
      BY <1>2, <1>11 DEF Started
    <2>2. Listed'
      BY <1>1, <1>2, <1>4, <1>6, <1>7, <2>1 DEF ShutdownInv, Listed, Registering
    <2>3. Progress'
      <3>1. \A i \in 1 .. Len(closers) : i # cursor /\ i > cursor
        BY <1>4, <1>11
      <3>2. \A i \in 1 .. Len(closers) : ~(i < cursor)
        BY <1>4, <1>11
      <3> QED
        BY <1>1, <1>3, <2>1, <3>1, <3>2 DEF ShutdownInv, Progress
    <2> QED
      BY <1>8, <1>9, <1>10, <2>2, <2>3 DEF ShutdownInv
  <1>12. CASE cursor # 0
    <2> DEFINE r == closers[cursor]
    <2>1. cursor \in 1 .. Len(closers) /\ r \in Resources
      BY <1>4, <1>12
    <2>2. /\ \A i \in 1 .. Len(closers) : i # cursor => closers[i] # r
          /\ state[r] \in {"open", "closing", "late", "closed"}
      BY <2>1 DEF ShutdownInv, Listed
    <2> HIDE DEF r
    <2>3. state' = [state EXCEPT ![r] = "closing"]
      BY <1>2, <1>12 DEF r
    <2>4. /\ state'[r] = "closing"
          /\ \A x \in Resources : x # r => state'[x] = state[x]
      BY <1>4, <2>1, <2>3
    <2>5. Started' = Started \cup {r}
      BY <2>1, <2>4 DEF Started
    <2>6. Listed'
      <3>1. \A d \in Callers : Registering(d)' => Registering(d)
        BY <1>6, <1>7, <1>12 DEF Registering
      <3>2. \A d \in Callers : Registering(d) =>
              arg[d] \in Resources /\ arg[d] # r /\ state[arg[d]] = "offered"
        BY <2>2 DEF ShutdownInv, Listed
      <3>3. \A d \in Callers : Registering(d)' => state'[arg[d]] = "offered"
        BY <2>4, <3>1, <3>2
      <3>4. \A i \in 1 .. Len(closers) :
              state'[closers[i]] \in {"open", "closing", "late", "closed"}
        <4>1. \A i \in 1 .. Len(closers) :
                state[closers[i]] \in {"open", "closing", "late", "closed"}
          BY DEF ShutdownInv, Listed
        <4> QED
          BY <1>4, <2>4, <4>1
      <3> QED
        BY <1>1, <3>1, <3>2, <3>3, <3>4 DEF ShutdownInv, Listed
    <2>7. Progress'
      <3> SUFFICES ASSUME NEW i \in 1 .. Len(closers)
                   PROVE  /\ i < cursor => closers[i] \notin Started'
                          /\ i = cursor =>
                               (closers[i] \in Started' <=> \E d \in Callers : step'[d] = "select")
                          /\ i > cursor =>
                               /\ closers[i] \in Started' \/ closers[i] \notin early
                               /\ state'[closers[i]] = "closing" => timeUp
        BY <1>1 DEF Progress
      <3>1. CASE i = cursor
        <4>1. step'[c] = "select" /\ closers[i] \in Started'
          BY <1>7, <1>12, <2>5, <3>1 DEF r
        <4> QED
          BY <1>4, <3>1, <4>1
      <3>2. CASE i # cursor
        <4>1. closers[i] # r /\ closers[i] \in Resources
          BY <1>4, <2>2, <3>2
        <4> QED
          BY <1>3, <2>4, <2>5, <3>2, <4>1 DEF ShutdownInv, Progress
      <3> QED
        BY <3>1, <3>2
    <2> QED
      BY <1>8, <1>9, <1>10, <2>6, <2>7 DEF ShutdownInv
  <1> QED
    BY <1>11, <1>12

(* The loop goes on to the next closer.                                    *)
LEMMA SelectKeeps ==
  ASSUME ShutdownInv, NEW c \in Callers, Select(c)
  PROVE  ShutdownInv'
  <1>1. UNCHANGED <<flag, once, cancelled, closers, mu, state, early,
                    arg, signalled, timeUp, outcome, result>>
    BY DEF answers, Select
  <1>2. /\ step[c] = "select" /\ step' = [step EXCEPT ![c] = "loop"]
        /\ state[closers[cursor]] \in {"late", "closed"} \/ timeUp
        /\ cursor' = cursor - 1
    BY DEF Select, GoTo
  <1>3. /\ Begun /\ Begun' /\ cursor > 0 /\ once = "held" /\ outcome = "none"
        /\ \A d \in Callers : result[d] = "none"
    <2>1. Begun /\ cursor > 0 /\ once = "held"
      BY <1>2 DEF ShutdownInv, Phases, OneWorks, Working
    <2> QED
      BY <1>1, <2>1 DEF ShutdownInv, ShutdownTypeOK, Phases, Begun
  <1>4. /\ Len(closers) \in Nat /\ cursor \in 1 .. Len(closers)
        /\ step \in [Callers -> Steps]
    BY <1>3 DEF ShutdownInv, ShutdownTypeOK
  <1>5. \A d \in Callers : d # c => step[d] \notin Working
    BY <1>2 DEF ShutdownInv, OneWorks, Working
  <1>6. \A d \in Callers : d # c => step'[d] = step[d] /\ step'[d] \notin Working
    BY <1>2, <1>4, <1>5
  <1>7. step'[c] = "loop"
    BY <1>2, <1>4
  <1>8. ShutdownTypeOK'
    BY <1>1, <1>2, <1>4 DEF ShutdownInv, ShutdownTypeOK, Steps
  <1>9. OneWorks'
    BY <1>1, <1>3, <1>6 DEF OneWorks
  <1>10. Phases'
    <2>1. flag
      BY <1>3 DEF ShutdownInv, Phases
    <2> QED
      BY <1>1, <1>3, <1>6, <1>7, <2>1 DEF Phases, Working
  <1>11. Listed'
    BY <1>1, <1>6, <1>7 DEF ShutdownInv, Listed, Registering
  <1>12. Progress'
    <2> SUFFICES ASSUME NEW i \in 1 .. Len(closers)
                 PROVE  /\ i < cursor - 1 => closers[i] \notin Started
                        /\ i = cursor - 1 =>
                             (closers[i] \in Started <=> \E d \in Callers : step'[d] = "select")
                        /\ i > cursor - 1 =>
                             /\ closers[i] \in Started \/ closers[i] \notin early
                             /\ state[closers[i]] = "closing" => timeUp
      BY <1>1, <1>2 DEF Progress, Started
    <2>1. \A d \in Callers : step'[d] # "select"
      BY <1>6, <1>7 DEF Working
    <2>2. CASE i < cursor
      <3>1. closers[i] \notin Started
        BY <1>3, <2>2 DEF ShutdownInv, Progress
      <3> QED
        BY <1>4, <2>1, <2>2, <3>1
    <2>3. CASE i = cursor
      <3>1. closers[i] \in Started
        BY <1>2, <1>3, <2>3 DEF ShutdownInv, Progress
      <3>2. state[closers[i]] = "closing" => timeUp
        BY <1>2, <2>3
      <3> QED
        BY <1>4, <2>3, <3>1, <3>2
    <2>4. CASE i > cursor
      <3>1. /\ closers[i] \in Started \/ closers[i] \notin early
            /\ state[closers[i]] = "closing" => timeUp
        BY <1>3, <2>4 DEF ShutdownInv, Progress
      <3> QED
        BY <1>4, <2>4, <3>1
    <2> QED
      BY <1>4, <2>2, <2>3, <2>4
  <1> QED
    BY <1>8, <1>9, <1>10, <1>11, <1>12 DEF ShutdownInv

(* Run returns.                                                            *)
LEMMA FinalKeeps ==
  ASSUME ShutdownInv, NEW c \in Callers, Final(c)
  PROVE  ShutdownInv'
  <1>1. UNCHANGED <<flag, cancelled, closers, mu, cursor, state, early, arg, signalled, timeUp>>
    BY DEF Final
  <1>2. /\ step[c] = "final" /\ step' = [step EXCEPT ![c] = "idle"]
        /\ (Running = {} /\ outcome' = "nil") \/ outcome' = "timeout"
        /\ once' = "done" /\ result' = [result EXCEPT ![c] = outcome']
    BY DEF Final, GoTo
  <1>3. Begun /\ Begun' /\ cursor = 0 /\ flag /\ step \in [Callers -> Steps]
    <2>1. Begun /\ cursor = 0
      BY <1>2 DEF ShutdownInv, Phases
    <2> QED
      BY <1>1, <2>1 DEF ShutdownInv, ShutdownTypeOK, Phases, Begun
  <1>4. \A d \in Callers : d # c => step[d] \notin Working
    BY <1>2 DEF ShutdownInv, OneWorks, Working
  <1>5. \A d \in Callers : d # c => step'[d] = step[d]
    BY <1>2, <1>3
  <1>6. step'[c] = "idle"
    BY <1>2, <1>3
  <1>7. \A d \in Callers : step'[d] \notin Working
    BY <1>4, <1>5, <1>6 DEF Working
  <1>8. ShutdownTypeOK'
    BY <1>1, <1>2 DEF ShutdownInv, ShutdownTypeOK, Steps
  <1>9. OneWorks'
    BY <1>7 DEF OneWorks
  <1>10. Running' = Running /\ Started' = Started
    BY <1>1 DEF Running, Started
  <1>11. Phases'
    BY <1>1, <1>2, <1>3, <1>7, <1>10 DEF Phases, Working
  <1>12. Listed'
    BY <1>1, <1>5, <1>6 DEF ShutdownInv, Listed, Registering
  <1>13. Progress'
    <2>1. \A i \in 1 .. Len(closers) : i # cursor
      BY <1>3
    <2> QED
      BY <1>1, <1>3, <1>10, <2>1 DEF ShutdownInv, Progress
  <1> QED
    BY <1>8, <1>9, <1>11, <1>12, <1>13 DEF ShutdownInv

(* A closer ends, or is waited for no longer: it stays started.            *)
LEMMA CloserKeeps ==
  ASSUME ShutdownInv, NEW r \in Resources, CloserEnds(r) \/ ShareUp(r)
  PROVE  ShutdownInv'
  <1>1. UNCHANGED <<flag, once, cancelled, closers, mu, cursor, early,
                    step, arg, signalled, timeUp, outcome, result>>
    BY DEF answers, CloserEnds, ShareUp
  <1>2. PICK s \in {"late", "closed"} : state' = [state EXCEPT ![r] = s]
    BY DEF CloserEnds, ShareUp, Become
  <1>3. state[r] \in {"closing", "late"}
    BY DEF CloserEnds, ShareUp, Running
  <1>4. /\ state'[r] = s /\ state \in [Resources -> States]
        /\ \A x \in Resources : x # r => state'[x] = state[x]
        /\ \A i \in 1 .. Len(closers) : closers[i] \in Resources
    BY <1>2 DEF ShutdownInv, ShutdownTypeOK
  <1>5. ShutdownTypeOK'
    BY <1>1, <1>2 DEF ShutdownInv, ShutdownTypeOK, States
  <1>6. OneWorks'
    BY <1>1 DEF ShutdownInv, OneWorks
  <1>7. Started' = Started /\ Running' \subseteq Running
    BY <1>3, <1>4 DEF Started, Running
  <1>8. Phases'
    BY <1>1, <1>7 DEF ShutdownInv, Phases, Begun
  <1>9. Listed'
    <2>1. \A d \in Callers : Registering(d) =>
            arg[d] \in Resources /\ state[arg[d]] = "offered" /\ arg[d] # r
      BY <1>3 DEF ShutdownInv, Listed
    <2>2. \A i \in 1 .. Len(closers) : state'[closers[i]] \in {"open", "closing", "late", "closed"}
      BY <1>4 DEF ShutdownInv, Listed
    <2> QED
      BY <1>1, <1>4, <2>1, <2>2 DEF ShutdownInv, Listed, Registering
  <1>10. Progress'
    <2>1. \A i \in 1 .. Len(closers) :
            state'[closers[i]] = "closing" => state[closers[i]] = "closing"
      BY <1>4
    <2> QED
      BY <1>1, <1>7, <2>1 DEF ShutdownInv, Progress, Begun
  <1> QED
    BY <1>5, <1>6, <1>8, <1>9, <1>10 DEF ShutdownInv

(* Time and signals.                                                       *)
LEMMA EventKeeps ==
  ASSUME ShutdownInv, TimeUp \/ Signal \/ UNCHANGED shutdownVars
  PROVE  ShutdownInv'
  <1>1. /\ UNCHANGED <<flag, once, cancelled, closers, mu, cursor, state, early,
                       step, arg, outcome, result>>
        /\ timeUp' = timeUp \/ timeUp' = TRUE
    BY DEF answers, TimeUp, Signal, handler, shutdownVars
  <1>2. signalled' = signalled \/ (signalled' = TRUE /\ \E c \in Callers : step[c] = "wait")
    BY DEF TimeUp, Signal, shutdownVars
  <1>3. Begun' = Begun
    <2>1. (\E c \in Callers : step[c] = "wait") => ~cancelled
      BY DEF ShutdownInv, Phases
    <2>2. signalled \in BOOLEAN /\ cancelled \in BOOLEAN
      BY DEF ShutdownInv, ShutdownTypeOK
    <2> QED
      BY <1>1, <1>2, <2>1, <2>2 DEF Begun
  <1>4. ShutdownTypeOK' /\ OneWorks' /\ Listed'
    <2>1. ShutdownTypeOK'
      BY <1>1, <1>2 DEF ShutdownInv, ShutdownTypeOK
    <2>2. OneWorks'
      BY <1>1 DEF ShutdownInv, OneWorks
    <2>3. Listed'
      BY <1>1 DEF ShutdownInv, Listed, Registering
    <2> QED
      BY <2>1, <2>2, <2>3
  <1>5. Started' = Started /\ Running' = Running
    BY <1>1 DEF Started, Running
  <1>6. Phases'
    <2>1. (\E c \in Callers : step[c] = "wait") =>
            /\ once = "held"
            /\ \A c \in Callers : step[c] \notin {"runFlag", "triggerFlag", "triggerCancel"}
      BY DEF ShutdownInv, OneWorks, Working
    <2> QED
      BY <1>1, <1>2, <1>3, <1>5, <2>1 DEF ShutdownInv, Phases
  <1>7. Progress'
    BY <1>1, <1>3, <1>5 DEF ShutdownInv, Progress
  <1> QED
    BY <1>4, <1>6, <1>7 DEF ShutdownInv

LEMMA ShutdownInvHolds == ShutdownSpec => []ShutdownInv
  <1>1. ShutdownInit => ShutdownInv
    <2> SUFFICES ASSUME ShutdownInit PROVE ShutdownInv
      OBVIOUS
    <2>1. Len(closers) = 0 /\ 1 .. Len(closers) = {}
      BY DEF ShutdownInit
    <2>2. Started = {} /\ Running = {}
      BY DEF ShutdownInit, Started, Running
    <2>3. ShutdownTypeOK
      <3>1. closers \in Seq(Resources) /\ cursor \in 0 .. Len(closers)
        BY <2>1 DEF ShutdownInit
      <3>2. mu \in Callers \cup {None} /\ step \in [Callers -> Steps]
        BY DEF ShutdownInit, Steps
      <3>3. arg \in [Callers -> Resources \cup {None}] /\ state \in [Resources -> States]
        BY DEF ShutdownInit, States
      <3> QED
        BY <3>1, <3>2, <3>3 DEF ShutdownInit, ShutdownTypeOK
    <2>4. OneWorks /\ Listed
      BY <2>1 DEF ShutdownInit, OneWorks, Working, Listed, Registering
    <2>5. Phases /\ Progress
      BY <2>2 DEF ShutdownInit, Phases, Progress, Begun
    <2> QED
      BY <2>3, <2>4, <2>5 DEF ShutdownInv
  <1>2. ShutdownInv /\ [ShutdownNext]_shutdownVars => ShutdownInv'
    BY BystanderKeeps, RegisterKeeps, AppendKeeps, OnceKeeps, WaitKeeps, LoopKeeps,
       SelectKeeps, FinalKeeps, CloserKeeps, EventKeeps
    DEF ShutdownNext, Serve
  <1> QED
    BY <1>1, <1>2, PTL DEF ShutdownSpec

(* The handler's, its callers' and its closers' state keeps its type: the  *)
(* cursor never leaves the list, though it grows meanwhile.                *)
THEOREM ShutdownTypeCorrect == ShutdownSpec => []ShutdownTypeOK
  <1>1. ShutdownInv => ShutdownTypeOK
    BY DEF ShutdownInv
  <1> QED
    BY <1>1, ShutdownInvHolds, PTL

(* The closers start in the reverse order of their registration, side by   *)
(* side only when time is up.                                              *)
THEOREM ClosersInOrder == ShutdownSpec => []ClosedInOrder
  <1>1. ASSUME ShutdownInv PROVE ClosedInOrder
    <2>1. Started # {} => Begun
      BY <1>1 DEF ShutdownInv, Phases
    <2>2. Len(closers) \in Nat /\ cursor \in Nat
      BY <1>1 DEF ShutdownInv, ShutdownTypeOK
    <2>3. ASSUME NEW i \in 1 .. Len(closers), NEW j \in 1 .. Len(closers),
                 i < j, closers[i] \in Started
          PROVE  \/ closers[j] \in Started /\ (state[closers[j]] # "closing" \/ timeUp)
                 \/ closers[j] \notin early
      <3>1. ~(i < cursor)
        BY <1>1, <2>1, <2>3 DEF ShutdownInv, Progress
      <3>2. j > cursor
        BY <2>2, <2>3, <3>1
      <3> QED
        BY <1>1, <2>1, <2>3, <3>2 DEF ShutdownInv, Progress
    <2> QED
      BY <2>3 DEF ClosedInOrder
  <1> QED
    BY <1>1, ShutdownInvHolds, PTL

(* When a Run has returned, every closer that was registered in time has   *)
(* been started unless a Trigger came first; and when it returned nil, all *)
(* have ended unless a Run has timed out.                                  *)
THEOREM ReturnsTell == ShutdownSpec => []ReturnTells
  <1>1. ASSUME ShutdownInv, NEW c \in Callers, result[c] # "none"
        PROVE  /\ early \subseteq Started \/ outcome = "trigger"
               /\ Running = {} \/ outcome = "timeout"
    <2>1. outcome \in {"nil", "timeout", "trigger"}
      BY <1>1 DEF ShutdownInv, ShutdownTypeOK, Phases
    <2>2. ASSUME outcome # "trigger", NEW r \in early PROVE r \in Started
      <3>1. Begun /\ cursor = 0
        BY <1>1, <2>1, <2>2 DEF ShutdownInv, Phases
      <3>2. PICK i \in 1 .. Len(closers) : closers[i] = r
        BY <1>1 DEF ShutdownInv, Listed
      <3>3. i > cursor
        BY <3>1
      <3> QED
        BY <1>1, <3>1, <3>2, <3>3 DEF ShutdownInv, Progress
    <2>3. outcome = "trigger" => Running = {}
      BY <1>1 DEF ShutdownInv, Phases, Started, Running
    <2>4. outcome = "nil" => Running = {}
      BY <1>1 DEF ShutdownInv, Phases
    <2> QED
      BY <2>1, <2>2, <2>3, <2>4
  <1>2. ShutdownInv => ReturnTells
    BY <1>1 DEF ReturnTells
  <1> QED
    BY <1>2, ShutdownInvHolds, PTL

(* No closer is closed twice: the loop starts one that has not been        *)
(* started, and what has been started stays so.                            *)
ClosedOnce ==
  [][/\ Started \subseteq Started'
     /\ \A c \in Callers :
          step[c] = "loop" /\ step'[c] = "select" =>
            closers[cursor] \in Started' \ Started]_shutdownVars

(* Only Loop starts closers.                                               *)
LEMMA LoopStarts ==
  ASSUME ShutdownInv, NEW c \in Callers, Loop(c)
  PROVE  /\ Started \subseteq Started'
         /\ \A d \in Callers :
              step[d] = "loop" /\ step'[d] = "select" => closers[cursor] \in Started' \ Started
  <1>1. step[c] = "loop" /\ \A d \in Callers : step[d] = "loop" => d = c
    BY DEF Loop, ShutdownInv, OneWorks, Working
  <1>2. Begun /\ cursor \in 0 .. Len(closers) /\ Len(closers) \in Nat
    BY <1>1 DEF ShutdownInv, ShutdownTypeOK, Phases
  <1>3. \A d \in Callers : step[d] # "select"
    BY <1>1 DEF ShutdownInv, OneWorks, Working
  <1>4. CASE cursor = 0
    <2>1. UNCHANGED state /\ step' = [step EXCEPT ![c] = "final"]
      BY <1>4 DEF Loop, GoTo
    <2>2. step'[c] = "final" /\ Started' = Started
      BY <2>1 DEF ShutdownInv, ShutdownTypeOK, Started
    <2> QED
      BY <1>1, <2>2
  <1>5. CASE cursor # 0
    <2> DEFINE r == closers[cursor]
    <2>1. cursor \in 1 .. Len(closers) /\ r \in Resources
      BY <1>2, <1>5 DEF ShutdownInv, ShutdownTypeOK
    <2>2. r \notin Started
      BY <1>2, <1>3, <2>1 DEF ShutdownInv, Progress
    <2>3. state' = [state EXCEPT ![r] = "closing"]
      BY <1>5 DEF Loop, Become
    <2> HIDE DEF r
    <2>4. r \in Started' /\ Started \subseteq Started'
      BY <2>1, <2>3 DEF ShutdownInv, ShutdownTypeOK, Started
    <2> QED
      BY <1>1, <2>2, <2>4 DEF r
  <1> QED
    BY <1>4, <1>5

LEMMA OthersStartNothing ==
  ASSUME ShutdownInv, [ShutdownNext]_shutdownVars, ~\E c \in Callers : Loop(c)
  PROVE  /\ Started \subseteq Started'
         /\ \A d \in Callers : ~(step[d] = "loop" /\ step'[d] = "select")
  <1>1. CASE \E r \in Resources : CloserEnds(r) \/ ShareUp(r)
    BY <1>1 DEF CloserEnds, ShareUp, Become, Running, Started, ShutdownInv, ShutdownTypeOK
  <1>2. CASE TimeUp \/ Signal \/ UNCHANGED shutdownVars
    BY <1>2 DEF TimeUp, Signal, shutdownVars, handler, Started
  <1>3. ASSUME NEW c \in Callers,
               \/ Lock(c) \/ Run(c) \/ Trigger(c) \/ WaitForCompletion(c) \/ EnterRun(c)
               \/ EnterTrigger(c) \/ SetFlag(c) \/ Wait(c) \/ Select(c) \/ Final(c)
               \/ TriggerCancel(c) \/ WaitAll(c)
        PROVE  /\ UNCHANGED state
               /\ \A d \in Callers : ~(step[d] = "loop" /\ step'[d] = "select")
    BY <1>3 DEF Lock, Run, Trigger, WaitForCompletion, EnterRun, EnterTrigger, OnceDo, SetFlag,
                Wait, Select, Final, TriggerCancel, WaitAll, GoTo, handler,
                ShutdownInv, ShutdownTypeOK
  <1>4. ASSUME NEW c \in Callers, Register(c) \/ LoadFlag(c) \/ AppendCloser(c)
        PROVE  /\ Started \subseteq Started'
               /\ \A d \in Callers : ~(step[d] = "loop" /\ step'[d] = "select")
    <2>1. \A d \in Callers : ~(step[d] = "loop" /\ step'[d] = "select")
      BY <1>4 DEF Register, LoadFlag, AppendCloser, GoTo, ShutdownInv, ShutdownTypeOK
    <2>2. Registering(c) => arg[c] \in Resources /\ state[arg[c]] = "offered"
      BY DEF ShutdownInv, Listed
    <2>3. UNCHANGED state \/ \E r \in Resources, s \in States :
            state[r] \in {"new", "offered"} /\ state' = [state EXCEPT ![r] = s]
      BY <1>4, <2>2 DEF Register, LoadFlag, AppendCloser, Become, Registering, States
    <2>4. Started \subseteq Started'
      BY <2>3 DEF Started, ShutdownInv, ShutdownTypeOK
    <2> QED
      BY <2>1, <2>4
  <1>5. CASE \E c \in Callers :
               \/ Lock(c) \/ Run(c) \/ Trigger(c) \/ WaitForCompletion(c) \/ EnterRun(c)
               \/ EnterTrigger(c) \/ SetFlag(c) \/ Wait(c) \/ Select(c) \/ Final(c)
               \/ TriggerCancel(c) \/ WaitAll(c)
    BY <1>3, <1>5 DEF Started
  <1> QED
    BY <1>1, <1>2, <1>4, <1>5 DEF ShutdownNext, Serve

THEOREM NothingClosedTwice == ShutdownSpec => ClosedOnce
  <1>1. ShutdownInv /\ [ShutdownNext]_shutdownVars =>
          [/\ Started \subseteq Started'
           /\ \A c \in Callers :
                step[c] = "loop" /\ step'[c] = "select" =>
                  closers[cursor] \in Started' \ Started]_shutdownVars
    BY LoopStarts, OthersStartNothing
  <1> QED
    BY <1>1, ShutdownInvHolds, PTL DEF ShutdownSpec, ClosedOnce
=============================================================================
