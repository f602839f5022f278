---------------------------- MODULE ServerProofs ----------------------------
(***************************************************************************)
(* What is proved of the limits for roles, for any number of requests,     *)
(* roles and buckets and any burst.  What is left of a role's account      *)
(* covers what its bucket holds and the requests that have another bucket: *)
(* those that an update of the limit has met in AllowRole.                 *)
(***************************************************************************)
EXTENDS Server, FiniteSetTheorems, TLAPS

Steps == {"idle", "allow", "lookup", "role", "auth", "handle", "reply", "lost"}

(* The requests held to the limit of r that have a bucket the role had     *)
(* before.                                                                 *)
Late(r) == {c \in Pending(r) : req[c].bucket # roleLims[r]}

(* An account covers the bucket and the late requests.                     *)
Covered ==
  \A r \in Roles : roleLims[r] # None =>
    level[roleLims[r]] + Cardinality(Late(r)) <= credit[r]

(* No two roles share a bucket.                                            *)
Own == \A r, s \in Roles : roleLims[r] = roleLims[s] /\ roleLims[r] # None => r = s

(* A request that has looked a bucket up is held to the limit of a role    *)
(* that has one.                                                           *)
LookedUp ==
  \A c \in Calls : req[c].bucket # None =>
    pc[c] = "role" /\ req[c].as \in Roles /\ roleLims[req[c].as] # None

(* A request that looks up, has a role.                                    *)
HasRole == \A c \in Calls : pc[c] = "lookup" => req[c].role \in Roles

(* The inductive invariant.                                                *)
IInv == TypeOK /\ Covered /\ Own /\ LookedUp /\ HasRole /\ RoleLimitHolds

-----------------------------------------------------------------------------
LEMMA BurstType == MaxBurst \in Int /\ MaxBurst >= 0 /\ MaxBurst \in 0 .. MaxBurst
  BY RateLimiterAssumption

LEMMA NoRequestType == NoRequest \in Request
  BY DEF NoRequest, NoHeader, Request, Headers, Codes

(* How many there are of some requests.                                    *)
LEMMA Counting ==
  ASSUME NEW S \in SUBSET Calls
  PROVE  /\ Cardinality(S) \in Nat
         /\ S = {} => Cardinality(S) = 0
         /\ \A T \in SUBSET S : Cardinality(T) \in Nat /\ Cardinality(T) <= Cardinality(S)
         /\ \A c \in S : Cardinality(S \ {c}) = Cardinality(S) - 1
  <1>1. IsFiniteSet(S)
    BY ServerAssumption, FS_Subset
  <1> QED
    BY <1>1, FS_Subset, FS_CardinalityType, FS_RemoveElement, FS_EmptySet

LEMMA LateType == \A r \in Roles : Late(r) \in SUBSET Calls
  BY DEF Late, Pending

(* The late requests after a step of one request: it is none any more when *)
(* it has no bucket then, and has not become one when it has looked a      *)
(* bucket up.                                                              *)
LEMMA LateAfter ==
  ASSUME IInv, NEW c \in Calls, NEW q \in Request, req' = [req EXCEPT ![c] = q],
         UNCHANGED roleLims, NEW r \in Roles
  PROVE  /\ q.bucket = None => Late(r)' = Late(r) \ {c}
         /\ req[c].bucket = None /\ q.bucket = roleLims[q.as] => Late(r)' = Late(r)
  <1>1. \A x \in Calls : req'[x] = IF x = c THEN q ELSE req[x]
    BY DEF IInv, TypeOK
  <1>2. Late(r)' = {x \in Calls : req'[x].bucket # None /\ req'[x].as = r
                                 /\ req'[x].bucket # roleLims[r]}
    BY DEF Late, Pending
  <1>3. Late(r) = {x \in Calls : req[x].bucket # None /\ req[x].as = r
                                /\ req[x].bucket # roleLims[r]}
    BY DEF Late, Pending
  <1>4. CASE q.bucket = None
    BY <1>1, <1>2, <1>3, <1>4
  <1>5. CASE req[c].bucket = None /\ q.bucket = roleLims[q.as]
    BY <1>1, <1>2, <1>3, <1>5
  <1> QED
    BY <1>4, <1>5

(* A new limiter gives every limited role a full bucket of its own.        *)
LEMMA NewLimiter ==
  ASSUME NEW limited \in SUBSET Roles, NewRateLimiter(limited),
         \A r \in Roles : Late(r) = {}
  PROVE  LimiterTypeOK /\ Covered /\ Own /\ RoleLimitHolds
  <1>1. PICK g \in [Roles -> Buckets] : IsInjective(g)
    BY RateLimiterAssumption DEF ExistsInjection, Injection
  <1>2. [r \in limited |-> g[r]] \in Injection(limited, Buckets)
    BY <1>1 DEF Injection, IsInjective
  <1>3. PICK own : own = CHOOSE f \in Injection(limited, Buckets) : TRUE
    OBVIOUS
  <1>4. own \in [limited -> Buckets] /\ IsInjective(own)
    BY <1>2, <1>3 DEF Injection
  <1>5. roleLims = [r \in Roles |-> IF r \in limited THEN own[r] ELSE None]
    BY <1>3 DEF NewRateLimiter
  <1>6. roleLims \in [Roles -> Buckets \cup {None}]
    BY <1>4, <1>5
  <1>7. level = [b \in Buckets \cup {Service} |-> MaxBurst] /\ credit = [r \in Roles |-> MaxBurst]
    BY DEF NewRateLimiter
  <1>8. LimiterTypeOK
    BY <1>6, <1>7, RateLimiterAssumption DEF LimiterTypeOK
  <1>9. Covered
    <2>1. \A r \in Roles : Cardinality(Late(r)) = 0
      BY LateType, Counting
    <2> QED
      BY <1>6, <1>7, <2>1, RateLimiterAssumption DEF Covered
  <1>10. Own
    BY <1>4, <1>5, RateLimiterAssumption DEF Own, IsInjective
  <1>11. RoleLimitHolds
    BY <1>7, RateLimiterAssumption DEF RoleLimitHolds
  <1> QED
    BY <1>8, <1>9, <1>10, <1>11

LEMMA InitIInv == Init => IInv
  <1> SUFFICES ASSUME Init PROVE IInv
    OBVIOUS
  <1>1. PICK limited \in SUBSET Roles : NewRateLimiter(limited)
    BY DEF Init
  <1>2. LimiterTypeOK /\ Covered /\ Own /\ RoleLimitHolds
    <2>1. \A r \in Roles : Late(r) = {}
      BY DEF Init, Late, Pending, NoRequest
    <2> QED
      BY <1>1, <2>1, NewLimiter
  <1>3. setup \in [auth : BOOLEAN, roles : BOOLEAN]
    <2>1. UserServer \in [auth : BOOLEAN, roles : BOOLEAN]
      BY DEF UserServer
    <2>2. OrderServer \in [auth : BOOLEAN, roles : BOOLEAN]
      BY DEF OrderServer
    <2>3. SpotServer \in [auth : BOOLEAN, roles : BOOLEAN]
      BY DEF SpotServer
    <2>4. TestServer \in [auth : BOOLEAN, roles : BOOLEAN]
      BY DEF TestServer
    <2> QED
      BY <2>1, <2>2, <2>3, <2>4 DEF Init
  <1>4. TypeOK
    BY <1>2, <1>3, NoRequestType DEF Init, TypeOK
  <1>5. LookedUp /\ HasRole
    BY DEF Init, LookedUp, HasRole, NoRequest
  <1> QED
    BY <1>2, <1>4, <1>5 DEF IInv

(* The accounts cover the limits still, when no bucket holds more than     *)
(* before and no request has become late.                                  *)
LEMMA CoveredStays ==
  ASSUME IInv, UNCHANGED <<roleLims, credit>>,
         level' \in [Buckets \cup {Service} -> 0 .. MaxBurst],
         \A b \in Buckets : level'[b] <= level[b],
         \A r \in Roles : Late(r)' \in SUBSET Late(r)
  PROVE  Covered'
  <1> SUFFICES ASSUME NEW r \in Roles, roleLims[r] # None
               PROVE  level'[roleLims[r]] + Cardinality(Late(r)') <= credit[r]
    BY DEF Covered
  <1>1. /\ roleLims[r] \in Buckets /\ credit[r] \in Int
        /\ level[roleLims[r]] \in Int /\ level'[roleLims[r]] \in Int
    <2>1. /\ roleLims[r] \in Buckets /\ credit[r] \in Int
          /\ level \in [Buckets \cup {Service} -> 0 .. MaxBurst]
      BY DEF IInv, TypeOK, LimiterTypeOK
    <2> QED
      BY <2>1, RateLimiterAssumption
  <1>2. level[roleLims[r]] + Cardinality(Late(r)) <= credit[r]
    BY DEF IInv, Covered
  <1>3. /\ Cardinality(Late(r)) \in Nat /\ Cardinality(Late(r)') \in Nat
        /\ Cardinality(Late(r)') <= Cardinality(Late(r))
    BY LateType, Counting
  <1>4. level'[roleLims[r]] <= level[roleLims[r]]
    BY <1>1
  <1> QED
    BY <1>1, <1>2, <1>3, <1>4

(* So they do when the limits stay.                                        *)
LEMMA CoveredQuietly ==
  ASSUME IInv, UNCHANGED <<level, roleLims, credit>>,
         \A r \in Roles : Late(r)' \in SUBSET Late(r)
  PROVE  Covered'
  <1>1. level \in [Buckets \cup {Service} -> 0 .. MaxBurst]
    BY DEF IInv, TypeOK, LimiterTypeOK
  <1>2. \A b \in Buckets : level[b] \in Int
    BY <1>1, BurstType
  <1>3. \A b \in Buckets : level'[b] <= level[b]
    BY <1>2
  <1> QED
    BY <1>1, <1>3, CoveredStays

(* A request goes on, and what it has looked up is gone; the map stays.    *)
LEMMA RequestStepKeeps ==
  ASSUME IInv, NEW c \in Calls, UNCHANGED <<roleLims, setup>>,
         LimiterTypeOK', Covered', Own', RoleLimitHolds',
         NEW s \in Steps, pc' = [pc EXCEPT ![c] = s],
         NEW r \in Request, req' = [req EXCEPT ![c] = r],
         r.bucket = None, s = "lookup" => r.role \in Roles,
         state' \in {"up", "stopping", "stopped", "timed out", "crashed"}
  PROVE  IInv'
  <1> USE DEF IInv
  <1>1. TypeOK'
    BY DEF TypeOK, Steps
  <1>2. LookedUp'
    BY DEF LookedUp, TypeOK
  <1>3. HasRole'
    BY DEF HasRole, TypeOK
  <1> QED
    BY <1>1, <1>2, <1>3

(* The same, when the limits stay as well.                                 *)
LEMMA QuietStepKeeps ==
  ASSUME IInv, NEW c \in Calls, UNCHANGED <<limiter, setup>>,
         NEW s \in Steps, pc' = [pc EXCEPT ![c] = s],
         NEW r \in Request, req' = [req EXCEPT ![c] = r],
         r.bucket = None, s = "lookup" => r.role \in Roles,
         state' \in {"up", "stopping", "stopped", "timed out", "crashed"}
  PROVE  IInv'
  <1>1. UNCHANGED <<level, roleLims, credit, setup>>
    BY DEF limiter
  <1>2. LimiterTypeOK' /\ Own' /\ RoleLimitHolds'
    BY <1>1 DEF IInv, TypeOK, LimiterTypeOK, Own, RoleLimitHolds
  <1>3. Covered'
    <2>1. \A o \in Roles : Late(o)' \in SUBSET Late(o)
      BY <1>1, LateAfter
    <2> QED
      BY <1>1, <2>1, CoveredQuietly
  <1> QED
    BY <1>1, <1>2, <1>3, RequestStepKeeps

(* A request is answered, the limits stay.                                 *)
LEMMA AnswerKeeps ==
  ASSUME IInv, NEW c \in Calls, NEW code \in Codes, Answer(c, code),
         UNCHANGED <<limiter, setup>>
  PROVE  IInv'
  <1>1. PICK r : r = [NoRequest EXCEPT !.code = code]
    OBVIOUS
  <1>2. r \in Request /\ r.bucket = None
    BY <1>1, NoRequestType DEF NoRequest, Request
  <1>3. /\ pc' = [pc EXCEPT ![c] = "reply"] /\ req' = [req EXCEPT ![c] = r]
        /\ state' \in {"up", "stopping", "stopped", "timed out", "crashed"}
    BY <1>1 DEF Answer, Goto, IInv, TypeOK
  <1> QED
    BY <1>2, <1>3, QuietStepKeeps DEF Steps

(* A token is taken from the bucket b.                                     *)
LEMMA TakenFrom ==
  ASSUME IInv, NEW b \in Buckets \cup {Service}, Has(b), level' = Taken(b)
  PROVE  /\ level' \in [Buckets \cup {Service} -> 0 .. MaxBurst]
         /\ level'[b] = level[b] - 1
         /\ \A x \in Buckets : level'[x] <= level[x]
  <1>1. level \in [Buckets \cup {Service} -> 0 .. MaxBurst]
    BY DEF IInv, TypeOK, LimiterTypeOK
  <1>2. level[b] \in 1 .. MaxBurst
    BY <1>1, RateLimiterAssumption DEF Has
  <1>3. level' = [level EXCEPT ![b] = level[b] - 1]
    BY DEF Taken
  <1> QED
    BY <1>1, <1>2, <1>3, RateLimiterAssumption

(* The service's limit.                                                    *)
LEMMA AllowKeeps ==
  ASSUME IInv, NEW c \in Calls, Allow(c)
  PROVE  IInv'
  <1>1. CASE Answer(c, "ResourceExhausted") /\ UNCHANGED level
    <2>1. UNCHANGED <<limiter, setup>>
      BY <1>1 DEF Allow, limiter
    <2> QED
      BY <1>1, <2>1, AnswerKeeps DEF Codes
  <1>2. CASE /\ Has(Service) /\ level' = Taken(Service) /\ UNCHANGED <<state>>
             /\ Goto(c, IF req[c].role = None THEN AfterLimiter ELSE "lookup", req[c])
    <2>1. UNCHANGED <<roleLims, credit, setup>>
      BY DEF Allow
    <2>2. PICK s, r : s = (IF r.role = None THEN AfterLimiter ELSE "lookup") /\ r = req[c]
      OBVIOUS
    <2>3. r \in Request /\ r.role \in Roles \cup {None}
      BY <2>2 DEF IInv, TypeOK, Request
    <2>4. r.bucket = None
      BY <2>2, RateLimiterAssumption DEF Allow, IInv, LookedUp
    <2>5. s \in Steps /\ (s = "lookup" => r.role \in Roles)
      BY <2>2, <2>3 DEF AfterLimiter, Steps
    <2>6. pc' = [pc EXCEPT ![c] = s] /\ req' = [req EXCEPT ![c] = r]
      BY <1>2, <2>2 DEF Goto
    <2>7. state' \in {"up", "stopping", "stopped", "timed out", "crashed"}
      BY <1>2 DEF IInv, TypeOK
    <2>8. \A o \in Roles : Late(o)' \in SUBSET Late(o)
      BY <2>1, <2>3, <2>4, <2>6, LateAfter
    <2>9. /\ level' \in [Buckets \cup {Service} -> 0 .. MaxBurst]
          /\ \A b \in Buckets : level'[b] <= level[b]
      BY <1>2, TakenFrom
    <2>10. Covered'
      BY <2>1, <2>8, <2>9, CoveredStays
    <2>11. LimiterTypeOK' /\ Own' /\ RoleLimitHolds'
      BY <2>1, <2>9 DEF IInv, TypeOK, LimiterTypeOK, Own, RoleLimitHolds
    <2> QED
      BY <2>1, <2>3, <2>4, <2>5, <2>6, <2>7, <2>10, <2>11, RequestStepKeeps
  <1> QED
    BY <1>1, <1>2 DEF Allow

(* What is looked up is in the map.                                        *)
LEMMA LookUpKeeps ==
  ASSUME IInv, NEW c \in Calls, LookUp(c)
  PROVE  IInv'
  <1>1. /\ pc' = [pc EXCEPT ![c] = "role"] /\ UNCHANGED <<limiter, setup, state>>
        /\ pc[c] = "lookup" /\ req[c].role \in Roles
    BY DEF LookUp, Goto, IInv, HasRole
  <1>2. PICK r, o : /\ o = LimitedAs(req[c].role)
                    /\ r = [req[c] EXCEPT !.bucket = roleLims[o], !.as = o]
    OBVIOUS
  <1>3. o \in Roles
    BY <1>1, <1>2, RateLimiterAssumption DEF LimitedAs
  <1>4. roleLims[o] \in Buckets \cup {None}
    BY <1>3 DEF IInv, TypeOK, LimiterTypeOK
  <1>5. r \in Request /\ r.bucket = roleLims[o] /\ r.as = o
    <2>1. req[c] \in Request
      BY DEF IInv, TypeOK
    <2> QED
      BY <1>2, <1>3, <1>4, <2>1 DEF Request
  <1>6. req' = [req EXCEPT ![c] = r]
    BY <1>2 DEF LookUp, Goto, Limiter
  <1>7. TypeOK'
    BY <1>1, <1>5, <1>6 DEF IInv, TypeOK, LimiterTypeOK, limiter
  <1>8. Covered' /\ Own' /\ RoleLimitHolds'
    <2>1. UNCHANGED <<level, roleLims, credit>>
      BY <1>1 DEF limiter
    <2>2. req[c].bucket = None
      BY <1>1 DEF IInv, LookedUp
    <2>3. \A s \in Roles : Late(s)' \in SUBSET Late(s)
      BY <1>5, <1>6, <2>1, <2>2, LateAfter
    <2>4. Covered'
      BY <2>1, <2>3, CoveredQuietly
    <2> QED
      BY <2>1, <2>4 DEF IInv, Own, RoleLimitHolds
  <1>9. LookedUp'
    BY <1>1, <1>3, <1>5, <1>6 DEF IInv, LookedUp, TypeOK, limiter
  <1>10. HasRole'
    BY <1>1, <1>6 DEF IInv, HasRole, TypeOK
  <1> QED
    BY <1>7, <1>8, <1>9, <1>10 DEF IInv

(* The limit of the role: what is taken is taken from the role's bucket,   *)
(* or else there is one late request less.                                 *)
LEMMA AllowRoleKeeps ==
  ASSUME IInv, NEW c \in Calls, AllowRole(c)
  PROVE  IInv'
  <1>1. PICK b, r : b = req[c].bucket /\ r = req[c].as
    OBVIOUS
  <1>2. UNCHANGED <<roleLims, setup>>
    BY DEF AllowRole
  <1>3. CASE Panic(c) /\ UNCHANGED <<level, credit>>
    BY <1>2, <1>3, AnswerKeeps DEF Panic, Codes, limiter
  <1>4. CASE Answer(c, "ResourceExhausted") /\ UNCHANGED <<level, credit>>
    BY <1>2, <1>4, AnswerKeeps DEF Codes, limiter
  <1>5. CASE /\ b # None /\ Has(b) /\ level' = Taken(b) /\ UNCHANGED state
             /\ credit' = [credit EXCEPT ![r] = @ - 1]
             /\ Goto(c, AfterLimiter, [req[c] EXCEPT !.bucket = None, !.as = None])
    <2>1. b \in Buckets /\ r \in Roles /\ roleLims[r] # None
      BY <1>1, <1>5 DEF IInv, TypeOK, Request, LookedUp
    <2>2. /\ level \in [Buckets \cup {Service} -> 0 .. MaxBurst]
          /\ credit \in [Roles -> Int]
          /\ roleLims \in [Roles -> Buckets \cup {None}]
      BY DEF IInv, TypeOK, LimiterTypeOK
    <2>3. PICK s, q : s = AfterLimiter /\ q = [req[c] EXCEPT !.bucket = None, !.as = None]
      OBVIOUS
    <2>4. q \in Request /\ q.bucket = None
      <3>1. req[c] \in Request
        BY DEF IInv, TypeOK
      <3> QED
        BY <2>3, <3>1 DEF Request
    <2>5. s \in Steps /\ s # "lookup"
      BY <2>3 DEF AfterLimiter, Steps
    <2>6. pc' = [pc EXCEPT ![c] = s] /\ req' = [req EXCEPT ![c] = q]
      BY <1>5, <2>3 DEF Goto
    <2>7. state' \in {"up", "stopping", "stopped", "timed out", "crashed"}
      BY <1>5 DEF IInv, TypeOK
    <2>8. /\ level' \in [Buckets \cup {Service} -> 0 .. MaxBurst]
          /\ level'[b] = level[b] - 1
          /\ \A x \in Buckets : level'[x] <= level[x]
      BY <1>5, <2>1, TakenFrom
    <2>9. /\ credit' \in [Roles -> Int] /\ credit'[r] = credit[r] - 1
          /\ \A o \in Roles \ {r} : credit'[o] = credit[o]
      BY <1>5, <2>1, <2>2
    <2>10. \A o \in Roles : Late(o)' = Late(o) \ {c}
      BY <1>2, <2>4, <2>6, LateAfter
    <2>11. ASSUME NEW o \in Roles, roleLims[o] # None
           PROVE  /\ level'[roleLims[o]] + Cardinality(Late(o)') <= credit'[o]
                  /\ level'[roleLims[o]] \in Nat /\ Cardinality(Late(o)') \in Nat
      <3>1. level[roleLims[o]] + Cardinality(Late(o)) <= credit[o]
        BY <2>11 DEF IInv, Covered
      <3>2. /\ roleLims[o] \in Buckets /\ level[roleLims[o]] \in Nat
            /\ level'[roleLims[o]] \in Nat /\ credit[o] \in Int
            /\ level'[roleLims[o]] <= level[roleLims[o]]
        BY <2>2, <2>8, <2>11, RateLimiterAssumption
      <3>3. /\ Late(o) \in SUBSET Calls /\ Late(o)' \in SUBSET Late(o)
            /\ Cardinality(Late(o)) \in Nat /\ Cardinality(Late(o)') \in Nat
            /\ Cardinality(Late(o)') <= Cardinality(Late(o))
        BY <2>10, LateType, Counting
      <3>4. CASE o # r
        BY <2>9, <3>1, <3>2, <3>3, <3>4
      <3>5. CASE o = r /\ roleLims[r] = b
        BY <2>8, <2>9, <3>1, <3>2, <3>3, <3>5
      <3>6. CASE o = r /\ roleLims[r] # b
        <4>1. c \in Late(r)
          BY <1>1, <1>5, <3>6 DEF Late, Pending
        <4>2. Cardinality(Late(o)') = Cardinality(Late(o)) - 1
          BY <2>10, <3>3, <3>6, <4>1, Counting
        <4> QED
          BY <2>9, <3>1, <3>2, <3>3, <3>6, <4>2
      <3> QED
        BY <3>4, <3>5, <3>6
    <2>12. Covered'
      BY <1>2, <2>11 DEF Covered
    <2>13. RoleLimitHolds'
      <3>1. credit'[r] >= 0
        BY <2>1, <2>9, <2>11
      <3> QED
        BY <2>9, <3>1 DEF IInv, RoleLimitHolds
    <2>14. LimiterTypeOK' /\ Own'
      BY <1>2, <2>2, <2>8, <2>9 DEF IInv, LimiterTypeOK, Own
    <2> QED
      BY <1>2, <2>4, <2>5, <2>6, <2>7, <2>12, <2>13, <2>14, RequestStepKeeps
  <1> QED
    BY <1>1, <1>3, <1>4, <1>5 DEF AllowRole

(* The other steps of a request.                                           *)
LEMMA OtherStepsKeep ==
  ASSUME IInv, NEW c \in Calls,
         Arrive(c) \/ Authenticate(c) \/ Handle(c) \/ Respond(c)
  PROVE  IInv'
  <1>1. state \in {"up", "stopping", "stopped", "timed out", "crashed"} /\ req[c] \in Request
    BY DEF IInv, TypeOK
  <1>2. CASE Arrive(c)
    <2>1. PICK p \in BOOLEAN, h \in Headers, o \in Roles \cup {None} :
            Goto(c, "allow", [NoRequest EXCEPT !.public = p, !.header = h, !.role = o])
      BY <1>2 DEF Arrive
    <2>2. PICK r : r = [NoRequest EXCEPT !.public = p, !.header = h, !.role = o]
      OBVIOUS
    <2>3. r \in Request /\ r.bucket = None
      BY <2>2, NoRequestType DEF NoRequest, Request
    <2>4. /\ pc' = [pc EXCEPT ![c] = "allow"] /\ req' = [req EXCEPT ![c] = r]
          /\ UNCHANGED <<limiter, setup, state>>
      BY <1>2, <2>1, <2>2 DEF Arrive, Goto
    <2> QED
      BY <1>1, <2>3, <2>4, QuietStepKeeps DEF Steps
  <1>3. CASE Authenticate(c)
    <2>1. UNCHANGED <<limiter, setup>> /\ req[c].bucket = None
      BY <1>3, RateLimiterAssumption DEF Authenticate, IInv, LookedUp
    <2>2. CASE Answer(c, "Unauthenticated") \/ Answer(c, "PermissionDenied")
      BY <2>1, <2>2, AnswerKeeps DEF Codes
    <2>3. ASSUME NEW r \in {req[c], [req[c] EXCEPT !.claims = TRUE]},
                 Goto(c, "handle", r), UNCHANGED state
          PROVE  IInv'
      <3>1. r \in Request /\ r.bucket = None
        BY <1>1, <2>1 DEF Request
      <3>2. pc' = [pc EXCEPT ![c] = "handle"] /\ req' = [req EXCEPT ![c] = r]
        BY <2>3 DEF Goto
      <3> QED
        BY <1>1, <2>1, <2>3, <3>1, <3>2, QuietStepKeeps DEF Steps
    <2> QED
      BY <1>3, <2>2, <2>3 DEF Authenticate
  <1>4. CASE Handle(c)
    BY <1>4, AnswerKeeps DEF Handle, Panic, Codes
  <1>5. CASE Respond(c)
    <2>1. /\ pc' = [pc EXCEPT ![c] = "idle"] /\ req' = [req EXCEPT ![c] = NoRequest]
          /\ UNCHANGED <<limiter, setup, state>> /\ NoRequest.bucket = None
      BY <1>5 DEF Respond, Goto, NoRequest
    <2> QED
      BY <1>1, <2>1, NoRequestType, QuietStepKeeps DEF Steps
  <1> QED
    BY <1>2, <1>3, <1>4, <1>5

-----------------------------------------------------------------------------
(* A new limit: the role has its full bucket, and the late requests are    *)
(* among the pending ones, which the new account allows for.               *)
LEMMA ChangeLimitKeeps ==
  ASSUME IInv, NEW r \in Roles, ChangeLimit(r)
  PROVE  IInv'
  <1>1. PICK free : free = Free(InUse)
    OBVIOUS
  <1>2. PICK b : b = CHOOSE x \in free : TRUE
    OBVIOUS
  <1>3. free # {} /\ b \in free
    BY <1>1, <1>2 DEF ChangeLimit, UpdateRoleLimit
  <1>4. /\ roleLims' = [roleLims EXCEPT ![r] = b]
        /\ credit' = [credit EXCEPT ![r] = MaxBurst + Cardinality(Pending(r))]
        /\ level' = [x \in DOMAIN level |->
             IF x \in free \/ (x = roleLims[r] /\ x \notin InUse)
               THEN MaxBurst ELSE level[x]]
    BY <1>1, <1>2 DEF ChangeLimit, UpdateRoleLimit
  <1>5. UNCHANGED <<setup, state, pc, req>>
    BY DEF ChangeLimit
  <1>6. /\ level \in [Buckets \cup {Service} -> 0 .. MaxBurst]
        /\ credit \in [Roles -> Int]
        /\ roleLims \in [Roles -> Buckets \cup {None}]
    BY DEF IInv, TypeOK, LimiterTypeOK
  <1>7. b \in Buckets /\ \A s \in Roles : roleLims[s] \notin free
    BY <1>1, <1>3, <1>6, RateLimiterAssumption DEF Free, Range
  <1>8. Pending(r) \in SUBSET Calls /\ Cardinality(Pending(r)) \in Nat
    <2>1. Pending(r) \in SUBSET Calls
      BY DEF Pending
    <2> QED
      BY <2>1, Counting
  <1>9. LimiterTypeOK'
    BY <1>4, <1>6, <1>7, <1>8, RateLimiterAssumption DEF LimiterTypeOK
  <1>10. TypeOK'
    BY <1>5, <1>9 DEF IInv, TypeOK
  <1>11. Covered'
    <2> SUFFICES ASSUME NEW s \in Roles, roleLims'[s] # None
                 PROVE  level'[roleLims'[s]] + Cardinality(Late(s)') <= credit'[s]
      BY DEF Covered
    <2>1. CASE s = r
      <3>1. Late(r)' \in SUBSET Pending(r)
        BY <1>5 DEF Late, Pending
      <3>2. Cardinality(Late(r)') \in Nat /\ Cardinality(Late(r)') <= Cardinality(Pending(r))
        BY <1>8, <3>1, Counting
      <3>3. level'[roleLims'[r]] = MaxBurst /\ credit'[r] = MaxBurst + Cardinality(Pending(r))
        BY <1>3, <1>4, <1>6, <1>7
      <3> QED
        BY <1>8, <2>1, <3>2, <3>3, RateLimiterAssumption
    <2>2. CASE s # r
      <3>1. roleLims'[s] = roleLims[s] /\ credit'[s] = credit[s]
        BY <1>4, <1>6, <2>2
      <3>2. roleLims[s] \in Buckets /\ roleLims[s] \notin free /\ roleLims[s] # roleLims[r]
        BY <1>6, <1>7, <2>2, <3>1 DEF IInv, Own
      <3>3. level'[roleLims[s]] = level[roleLims[s]]
        BY <1>4, <1>6, <3>2
      <3>4. Late(s)' = Late(s)
        BY <1>5, <3>1 DEF Late, Pending
      <3> QED
        BY <3>1, <3>3, <3>4 DEF IInv, Covered
    <2> QED
      BY <2>1, <2>2
  <1>12. Own'
    BY <1>3, <1>4, <1>6, <1>7 DEF IInv, Own
  <1>13. LookedUp'
    <2>1. \A s \in Roles : roleLims[s] # None => roleLims'[s] # None
      BY <1>4, <1>6, <1>7, RateLimiterAssumption
    <2> QED
      BY <1>5, <2>1 DEF IInv, LookedUp
  <1>14. HasRole'
    BY <1>5 DEF IInv, HasRole
  <1>15. RoleLimitHolds'
    BY <1>4, <1>6, <1>8, RateLimiterAssumption DEF IInv, RoleLimitHolds
  <1> QED
    BY <1>10, <1>11, <1>12, <1>13, <1>14, <1>15 DEF IInv

(* Time adds no more to a bucket than to the account of its role.          *)
LEMMA TickKeeps ==
  ASSUME IInv, NEW b \in Buckets \cup {Service}, Tick(b)
  PROVE  IInv'
  <1>1. /\ level' = [level EXCEPT ![b] = level[b] + 1] /\ level[b] < MaxBurst
        /\ credit' = [r \in Roles |->
             IF roleLims[r] = b THEN credit[r] + 1 ELSE credit[r]]
        /\ UNCHANGED <<roleLims, setup, state, pc, req>>
    BY DEF Tick, Refill
  <1>2. /\ level \in [Buckets \cup {Service} -> 0 .. MaxBurst]
        /\ credit \in [Roles -> Int]
        /\ roleLims \in [Roles -> Buckets \cup {None}]
    BY DEF IInv, TypeOK, LimiterTypeOK
  <1>3. level' \in [Buckets \cup {Service} -> 0 .. MaxBurst]
    BY <1>1, <1>2, RateLimiterAssumption
  <1>4. credit' \in [Roles -> Int]
    BY <1>1, <1>2, RateLimiterAssumption
  <1>5. TypeOK'
    BY <1>1, <1>3, <1>4 DEF IInv, TypeOK, LimiterTypeOK
  <1>6. Covered'
    <2> SUFFICES ASSUME NEW r \in Roles, roleLims[r] # None
                 PROVE  level'[roleLims[r]] + Cardinality(Late(r)) <= credit'[r]
      <3>1. \A r \in Roles : Late(r)' = Late(r)
        BY <1>1 DEF Late, Pending
      <3> QED
        BY <1>1, <3>1 DEF Covered
    <2>1. /\ level[roleLims[r]] + Cardinality(Late(r)) <= credit[r]
          /\ roleLims[r] \in Buckets /\ credit[r] \in Int
          /\ level[roleLims[r]] \in 0 .. MaxBurst /\ Cardinality(Late(r)) \in Nat
      BY <1>2, LateType, Counting DEF IInv, Covered
    <2>2. CASE roleLims[r] = b
      <3>1. level'[b] = level[b] + 1
        BY <1>1, <1>2
      <3> QED
        BY <1>1, <2>1, <2>2, <3>1, RateLimiterAssumption
    <2>3. CASE roleLims[r] # b
      BY <1>1, <1>2, <2>1, <2>3
    <2> QED
      BY <2>2, <2>3
  <1>7. RoleLimitHolds'
    BY <1>1, <1>2, RateLimiterAssumption DEF IInv, RoleLimitHolds
  <1>8. Own' /\ LookedUp' /\ HasRole'
    BY <1>1 DEF IInv, Own, LookedUp, HasRole
  <1> QED
    BY <1>5, <1>6, <1>7, <1>8 DEF IInv

(* The process ends.                                                       *)
LEMMA GoneKeeps ==
  ASSUME IInv, Gone, state' \in {"stopped", "timed out"}
  PROVE  IInv'
  <1>1. /\ level \in [Buckets \cup {Service} -> 0 .. MaxBurst]
        /\ pc \in [Calls -> Steps] /\ setup' \in [auth : BOOLEAN, roles : BOOLEAN]
    BY DEF Gone, IInv, TypeOK, LimiterTypeOK, Steps
  <1>2. level' = [b \in Buckets \cup {Service} |-> MaxBurst]
    BY <1>1 DEF Gone
  <1>3. level' \in [Buckets \cup {Service} -> 0 .. MaxBurst]
    BY <1>2, BurstType
  <1>4. credit' = [r \in Roles |-> MaxBurst] /\ roleLims' = [r \in Roles |-> None]
    BY DEF Gone
  <1>5. LimiterTypeOK'
    BY <1>3, <1>4, BurstType DEF LimiterTypeOK
  <1>6. /\ pc' = [c \in Calls |-> IF pc[c] = "idle" THEN "idle" ELSE "lost"]
        /\ req' = [c \in Calls |-> NoRequest]
    BY DEF Gone
  <1>7. TypeOK'
    BY <1>1, <1>5, <1>6, NoRequestType DEF TypeOK
  <1>8. Covered' /\ Own' /\ RoleLimitHolds'
    BY <1>4, BurstType DEF Covered, Own, RoleLimitHolds
  <1>9. LookedUp' /\ HasRole'
    BY DEF Gone, LookedUp, HasRole, NoRequest
  <1> QED
    BY <1>7, <1>8, <1>9 DEF IInv

LEMMA NextIInv == IInv /\ [Next]_vars => IInv'
  <1> SUFFICES ASSUME IInv, [Next]_vars PROVE IInv'
    OBVIOUS
  <1>1. ASSUME NEW c \in Calls, Arrive(c) \/ Serve(c)
        PROVE  IInv'
    BY <1>1, AllowKeeps, LookUpKeeps, AllowRoleKeeps, OtherStepsKeep DEF Serve
  <1>2. ASSUME NEW r \in Roles, ChangeLimit(r)
        PROVE  IInv'
    BY <1>2, ChangeLimitKeeps
  <1>3. ASSUME NEW b \in Buckets \cup {Service}, Tick(b)
        PROVE  IInv'
    BY <1>3, TickKeeps
  <1>4. CASE Stop \/ UNCHANGED vars
    <2>1. /\ UNCHANGED <<level, roleLims, credit, setup, pc, req>>
          /\ state' \in {"up", "stopping", "stopped", "timed out", "crashed"}
      BY <1>4 DEF Stop, vars, limiter, IInv, TypeOK
    <2> QED
      BY <2>1
      DEF IInv, TypeOK, LimiterTypeOK, Covered, Own, LookedUp, HasRole, RoleLimitHolds,
          Late, Pending
  <1>5. CASE Stopped \/ StopTimeout
    BY <1>5, GoneKeeps DEF Stopped, StopTimeout
  <1> QED
    BY <1>1, <1>2, <1>3, <1>4, <1>5 DEF Next

-----------------------------------------------------------------------------
(* The inductive invariant holds of every state of the server.             *)
THEOREM Invariant == Spec => []IInv
  <1> QED
    BY InitIInv, NextIInv, PTL DEF Spec

(* Every variable has its type: in particular no bucket ever holds less    *)
(* than nothing or more than the burst.                                    *)
THEOREM TypeCorrect == Spec => []TypeOK
  <1>1. IInv => TypeOK
    BY DEF IInv
  <1> QED
    BY <1>1, Invariant, PTL

(* The requests held to a role's limit get no more between two updates of  *)
(* it than a full bucket, what time adds, and one token for each request   *)
(* that the update met between its lookup and its question.                *)
THEOREM RoleLimitKept == Spec => []RoleLimitHolds
  <1>1. IInv => RoleLimitHolds
    BY DEF IInv
  <1> QED
    BY <1>1, Invariant, PTL
=============================================================================
