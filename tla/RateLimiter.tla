---------------------------- MODULE RateLimiter ----------------------------
(***************************************************************************)
(* shared/ratelimit: the token bucket of a service and those of the roles. *)
(*                                                                         *)
(* A bucket (golang.org/x/time/rate) has a lock of its own, so that to ask *)
(* it is one step.  The limiter's lock covers only the map of the roles'   *)
(* buckets: AllowRole looks its bucket up in one step, asks it in another, *)
(* and UpdateRoleLimit may put a new bucket in its place between the two.  *)
(* Buckets are objects: one that nobody refers to is free for the next     *)
(* limit.  How fast a bucket fills is left open.                           *)
(*                                                                         *)
(* AllowN, AllowBytes, Wait and WaitRole, which no service calls, are left *)
(* out.                                                                    *)
(***************************************************************************)
EXTENDS Integers, Functions

CONSTANTS
  Roles,    \* the roles that requests have
  Buckets,  \* the objects that are buckets of roles
  MaxBurst, \* what a bucket holds
  Service,  \* the bucket of the service, serviceLim
  None      \* no bucket

ASSUME RateLimiterAssumption ==
  /\ MaxBurst \in Nat
  /\ None \notin Buckets \cup {Service} /\ Service \notin Buckets
  /\ "USER" \in Roles /\ None \notin Roles
  /\ ExistsInjection(Roles, Buckets)

VARIABLES
  level,    \* the tokens in each bucket
  roleLims, \* RateLimiter.roleLims: role -> its bucket
  credit    \* history: what the requests held to a role's limit may still
            \* get, by the account opened at the limit's last update

limiter == <<level, roleLims, credit>>

LimiterTypeOK ==
  /\ level \in [Buckets \cup {Service} -> 0 .. MaxBurst]
  /\ roleLims \in [Roles -> Buckets \cup {None}]
  /\ credit \in [Roles -> Int]

(* A new limiter, for a configuration that limits the roles in limited.    *)
NewRateLimiter(limited) ==
  /\ level = [b \in Buckets \cup {Service} |-> MaxBurst]
  /\ LET own == CHOOSE f \in Injection(limited, Buckets) : TRUE
     IN roleLims = [r \in Roles |-> IF r \in limited THEN own[r] ELSE None]
  /\ credit = [r \in Roles |-> MaxBurst]

(* Allow of golang.org/x/time/rate: a bucket gives a token that it has.    *)
Has(b) == level[b] > 0
Taken(b) == [level EXCEPT ![b] = @ - 1]

(* The role whose limit a role is held to: its own, or else that of USER.  *)
LimitedAs(role) == IF roleLims[role] # None THEN role ELSE "USER"

(* The bucket AllowRole finds; there may be none.                          *)
Limiter(role) == roleLims[LimitedAs(role)]

(* The buckets that neither the map nor a request refers to.               *)
Free(inUse) == Buckets \ (inUse \cup Range(roleLims))

(* A mutant: the limits of the other roles are built anew as well.         *)
UpdateAllLimits(role, inUse, pending) ==
  /\ LET b == CHOOSE x \in Free(inUse) : TRUE
     IN /\ Free(inUse) # {}
        /\ roleLims' = [roleLims EXCEPT ![role] = b]
        /\ level' = [x \in DOMAIN level |-> IF x \in Buckets THEN MaxBurst ELSE level[x]]
  /\ credit' = [credit EXCEPT ![role] = MaxBurst + pending]

(* UpdateRoleLimit puts a new bucket in the place of the role's; inUse are *)
(* the buckets that somebody has looked up.  One that nobody refers to any *)
(* more is full, ready to be the next new bucket.  The new account is of a *)
(* full bucket, and of a token for each of the requests, pending, that     *)
(* have a bucket which the role had before.                                *)
UpdateRoleLimit(role, inUse, pending) ==
  /\ LET b == CHOOSE x \in Free(inUse) : TRUE
     IN /\ Free(inUse) # {}
        /\ roleLims' = [roleLims EXCEPT ![role] = b]
        /\ level' = [x \in DOMAIN level |->
             IF x \in Free(inUse) \/ (x = roleLims[role] /\ x \notin inUse)
               THEN MaxBurst ELSE level[x]]
  /\ credit' = [credit EXCEPT ![role] = MaxBurst + pending]

(* Time adds a token to a bucket that is not full.                         *)
Refill(b) ==
  /\ level[b] < MaxBurst
  /\ level' = [level EXCEPT ![b] = @ + 1]
  /\ credit' = [r \in Roles |-> IF roleLims[r] = b THEN credit[r] + 1 ELSE credit[r]]
  /\ UNCHANGED roleLims
=============================================================================
