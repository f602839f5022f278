------------------------------- MODULE Server -------------------------------
(***************************************************************************)
(* A gRPC server of the system: the interceptors each request goes through *)
(* before its handler, in the order the services chain them, and the end   *)
(* of the server when fx stops the application.                            *)
(*                                                                         *)
(* XRequestID, the logger and the metrics pass every request and answer on *)
(* as it is.  Inside them are the recovery from panics, the rate limiter   *)
(* and, in the user service, the authentication.  The handlers are the     *)
(* modules OrderService, AuthService and SpotService: here they answer or  *)
(* panic.                                                                  *)
(*                                                                         *)
(* The limiter holds a request to the limit of a role when an interceptor  *)
(* ahead of it has put the role into the context (WithUserRole).  The      *)
(* services have none that does, and set no limits for roles; they are     *)
(* taken as the tests of the limiter set them up.                          *)
(***************************************************************************)
EXTENDS RateLimiter, FiniteSets

CONSTANT Calls \* requests that can be in the server at the same time

ASSUME ServerAssumption == IsFiniteSet(Calls)

VARIABLES
  setup,  \* the server's configuration, which never changes
  state,  \* of the server
  pc,     \* the next step of each request
  req     \* what each request brings and what has been found about it

vars == <<limiter, setup, state, pc, req>>

(* What a request is answered; "handled" is any answer of a handler.       *)
Codes == {"handled", "ResourceExhausted", "Unauthenticated", "PermissionDenied", "Internal"}

(* The authorization a request brings: whether there is a bearer token,    *)
(* whether the token fits the validator -- its algorithm, its signature,   *)
(* its issuer and its audience --, whether its time is over by more than   *)
(* the clock skew, and whether its role is a name of the enum UserRole.    *)
(* No token fits that the user service signs: it has no audience, and its  *)
(* issuer is not the one of the validators' default configuration.         *)
Headers == [bearer : BOOLEAN, fits : BOOLEAN, over : BOOLEAN, known : BOOLEAN]

NoHeader == [bearer |-> FALSE, fits |-> FALSE, over |-> FALSE, known |-> FALSE]

(* Validator.ValidateAndExtract has claims and no error.                   *)
ValidateAndExtract(h) == h.fits /\ ~h.over

Request ==
  [public : BOOLEAN, header : Headers, role : Roles \cup {None},
   claims : BOOLEAN, bucket : Buckets \cup {None}, as : Roles \cup {None}, code : Codes]

NoRequest ==
  [public |-> FALSE, header |-> NoHeader, role |-> None,
   claims |-> FALSE, bucket |-> None, as |-> None, code |-> "handled"]

TypeOK ==
  /\ LimiterTypeOK
  /\ setup \in [auth : BOOLEAN, roles : BOOLEAN]
  /\ state \in {"up", "stopping", "stopped", "timed out", "crashed"}
  /\ pc \in [Calls -> {"idle", "allow", "lookup", "role", "auth", "handle", "reply", "lost"}]
  /\ req \in [Calls -> Request]

(* The process runs.                                                       *)
Running == state \in {"up", "stopping"}

Goto(c, s, r) ==
  /\ Running
  /\ pc' = [pc EXCEPT ![c] = s]
  /\ req' = [req EXCEPT ![c] = r]

Answer(c, code) ==
  /\ Goto(c, "reply", [NoRequest EXCEPT !.code = code])
  /\ UNCHANGED state

(* A mutant: a panic ends the process.                                     *)
PanicUncaught(c) ==
  /\ pc' = [pc EXCEPT ![c] = "lost"]
  /\ state' = "crashed"
  /\ UNCHANGED req

(* UnaryPanicRecoveryInterceptor, for a panic in anything it encloses.     *)
Panic(c) == Answer(c, "Internal")

(* Where a request goes once the limiter has let it pass.                  *)
AfterLimiter == IF setup.auth THEN "auth" ELSE "handle"

-----------------------------------------------------------------------------
(* A request comes in, with a role in its context only in a server that    *)
(* puts it there.                                                          *)
Arrive(c) ==
  /\ state = "up" /\ pc[c] = "idle"
  /\ \E p \in BOOLEAN, h \in Headers, r \in Roles \cup {None} :
       /\ h = NoHeader \/ (h.bearer /\ setup.auth)
       /\ setup.auth \/ p
       /\ r # None => setup.roles
       /\ Goto(c, "allow", [NoRequest EXCEPT !.public = p, !.header = h, !.role = r])
  /\ UNCHANGED <<limiter, setup, state>>

(* The service's limit.                                                    *)
Allow(c) ==
  /\ pc[c] = "allow"
  /\ \/ /\ ~Has(Service)
        /\ Answer(c, "ResourceExhausted")
        /\ UNCHANGED level
     \/ /\ Has(Service)
        /\ level' = Taken(Service)
        /\ Goto(c, IF req[c].role = None THEN AfterLimiter ELSE "lookup", req[c])
        /\ UNCHANGED state
  /\ UNCHANGED <<roleLims, credit, setup>>

(* AllowRole under the lock of the map.                                    *)
LookUp(c) ==
  /\ pc[c] = "lookup"
  /\ Goto(c, "role", [req[c] EXCEPT !.bucket = Limiter(req[c].role),
                                    !.as = LimitedAs(req[c].role)])
  /\ UNCHANGED <<limiter, setup, state>>

(* AllowRole after it: without a bucket, a call on a nil pointer.          *)
AllowRole(c) ==
  /\ pc[c] = "role"
  /\ LET b == req[c].bucket
         r == req[c].as
     IN \/ b = None /\ Panic(c) /\ UNCHANGED <<level, credit>>
        \/ /\ b # None /\ ~Has(b)
           /\ Answer(c, "ResourceExhausted")
           /\ UNCHANGED <<level, credit>>
        \/ /\ b # None /\ Has(b)
           /\ level' = Taken(b)
           /\ credit' = [credit EXCEPT ![r] = @ - 1]
           /\ Goto(c, AfterLimiter, [req[c] EXCEPT !.bucket = None, !.as = None])
           /\ UNCHANGED state
  /\ UNCHANGED <<roleLims, setup>>

(* The user service's interceptor, with the public endpoints.              *)
Authenticate(c) ==
  /\ pc[c] = "auth"
  /\ LET h == req[c].header IN
     \/ req[c].public /\ Goto(c, "handle", req[c]) /\ UNCHANGED state
     \/ /\ ~req[c].public /\ ~(h.bearer /\ ValidateAndExtract(h))
        /\ Answer(c, "Unauthenticated")
     \/ /\ ~req[c].public /\ h.bearer /\ ValidateAndExtract(h)
        /\ \/ ~h.known /\ Answer(c, "PermissionDenied")
           \/ /\ h.known /\ UNCHANGED state
              /\ Goto(c, "handle", [req[c] EXCEPT !.claims = TRUE])
  /\ UNCHANGED <<limiter, setup>>

(* The handler answers, or panics.                                         *)
Handle(c) ==
  /\ pc[c] = "handle"
  /\ Answer(c, "handled") \/ Panic(c)
  /\ UNCHANGED <<limiter, setup>>

Respond(c) ==
  /\ pc[c] = "reply"
  /\ Goto(c, "idle", NoRequest)
  /\ UNCHANGED <<limiter, setup, state>>

-----------------------------------------------------------------------------
InUse == {req[c].bucket : c \in Calls}

(* The requests held to the limit of r that have looked a bucket up and    *)
(* not asked it yet.                                                       *)
Pending(r) == {c \in Calls : req[c].bucket # None /\ req[c].as = r}

ChangeLimit(r) ==
  /\ Running /\ setup.roles
  /\ UpdateRoleLimit(r, InUse, Cardinality(Pending(r)))
  /\ UNCHANGED <<setup, state, pc, req>>

Tick(b) ==
  /\ Running
  /\ b \in {Service} \cup Range(roleLims) \cup InUse
  /\ Refill(b)
  /\ UNCHANGED <<setup, state, pc, req>>

(* A mutant: the server is stopped without waiting for what is in it.      *)
StopAtOnce == state = "stopping"

(* GracefulStop takes no more requests and returns when none is left.      *)
Drained == state = "stopping" /\ \A c \in Calls : pc[c] = "idle"

Stop ==
  /\ state = "up"
  /\ state' = "stopping"
  /\ UNCHANGED <<limiter, setup, pc, req>>

(* The process ends, and with it all that it holds.                        *)
Gone ==
  /\ pc' = [c \in Calls |-> IF pc[c] = "idle" THEN "idle" ELSE "lost"]
  /\ req' = [c \in Calls |-> NoRequest]
  /\ level' = [b \in DOMAIN level |-> MaxBurst]
  /\ roleLims' = [r \in Roles |-> None]
  /\ credit' = [r \in Roles |-> MaxBurst]
  /\ UNCHANGED setup

Stopped ==
  /\ Drained
  /\ state' = "stopped"
  /\ Gone

(* fx gives the hooks some time, and ends the process when it is over.     *)
StopTimeout ==
  /\ state = "stopping"
  /\ state' = "timed out"
  /\ Gone

(* What each service builds, and a server with limits for roles, as the    *)
(* limiter's tests set it up.                                              *)
UserServer == [auth |-> TRUE, roles |-> FALSE]
OrderServer == [auth |-> FALSE, roles |-> FALSE]
SpotServer == [auth |-> FALSE, roles |-> FALSE]
TestServer == [auth |-> FALSE, roles |-> TRUE]

Init ==
  /\ \/ /\ setup \in {UserServer, OrderServer, SpotServer}
        /\ NewRateLimiter({})
     \/ /\ setup = TestServer
        /\ \E limited \in SUBSET Roles : NewRateLimiter(limited)
  /\ state = "up"
  /\ pc = [c \in Calls |-> "idle"]
  /\ req = [c \in Calls |-> NoRequest]

Serve(c) ==
  Allow(c) \/ LookUp(c) \/ AllowRole(c) \/ Authenticate(c) \/ Handle(c) \/ Respond(c)

Next ==
  \/ \E c \in Calls : Arrive(c) \/ Serve(c)
  \/ \E r \in Roles : ChangeLimit(r)
  \/ \E b \in Buckets \cup {Service} : Tick(b)
  \/ Stop \/ Stopped \/ StopTimeout

(* The goroutine of a request runs on, and its handler returns.            *)
Spec == Init /\ [][Next]_vars /\ \A c \in Calls : WF_vars(Serve(c))

-----------------------------------------------------------------------------
(* Between two updates of a role's limit, the requests held to it -- those *)
(* of the role, and those of roles without a limit with the ones of USER   *)
(* -- get no more than one full bucket and what time adds, and beyond that *)
(* one token for each request that an update met in AllowRole, between its *)
(* lookup and its question: it asks the bucket that the role had before.   *)
RoleLimitHolds == \A r \in Roles : credit[r] >= 0

(* Every request that comes in is answered, although its handler may panic *)
(* and AllowRole panics for want of a limit, and although the server is    *)
(* stopped meanwhile: unless the application has no time left to stop.     *)
EveryRequestAnswered ==
  \A c \in Calls : pc[c] = "allow" ~> (pc[c] = "reply" \/ state = "timed out")
=============================================================================
