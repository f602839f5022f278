# exchange-system in TLA+

A verification development for the exchange system: three Go services (order,
spot, user), a command-line client and the libraries they share. The TLA+
modules here model the parts that hold state and meet concurrency or failure;
TLC checks them on small instances (`MC*.cfg`) and TLAPS proves the properties
that matter most for every value of the constants (`*Proofs.tla`).
`PROJECT.json` lists components, runs, mutants, the lines each definition
models, hazards, findings and theorems.

## The system

| Part | State | Operations | Talks to |
|---|---|---|---|
| order-service: handlers, `OrderService`, in-memory repository | the map of orders, under one `RWMutex` | `CreateOrder`, `GetOrderStatus`, `ListOrders` | the market checker, when there is one |
| order-service: PostgreSQL repository | tables `users` (balance) and `orders` | `Save` (a transaction), three SELECTs | PostgreSQL |
| order-service: `MarketChecker` | one circuit breaker | `CheckMarketActive`, `GetMarket` | spot-service, 200 ms per call |
| shared/resilience | a `gobreaker` breaker | `Execute`, `Stats`, `IsOpen`, `GetState` | its caller's function, in a goroutine |
| user-service: handlers, `AuthService`, two repositories | users and their email index; refresh tokens and their user index; a mutex for each repository | `Register`, `Login`, `RefreshToken`, `Logout`, `LogoutAll`, `GetUser`, `UpdateRole` | - |
| user-service: JWT signer; shared/jwtvalidator | none | sign, validate | - |
| spot-service: market service, LRU cache, seeded repository | cache map and list | `ViewMarkets`, `GetMarketByID` | - |
| order-client: token manager, gRPC client, CLI | the tokens, under one `RWMutex`, and a file | `Login`, `Register`, `RefreshToken`, `Logout`, `GetAccessToken` | user-service, order-service |
| shared/ratelimit | token buckets, one per role and one per service | `Allow`, `AllowRole`, `UpdateRoleLimit`, interceptors | - |
| shared/idempotency, Redis adapter | key -> expiry; a cleanup goroutine | `CheckAndSet`, `Delete`, `Close` | Redis |
| shared/shutdown | closers, a `sync.Once`, a context | `Register`, `Run`, `Trigger` | the closers |
| shared/retry, health, interceptors, validate, logger, config, db; mappers; DI | none that matters, or none | - | - |

What is wired: gRPC runs every call in its own goroutine, behind a chain of
interceptors (request id, logger, metrics, recovery, rate limiter and, in the
user service only, authentication). The order service's DI module provides
neither an `OrderRepository` nor a `MarketClient`, installs no authentication
interceptor and never calls the idempotency store it provides; the PostgreSQL
repository and `NewMarketChecker` are called by nothing yet. The user service's
module provides neither a `KeyPair` nor the shared validator its middleware
takes. The models take each of these parts as its interface offers it.

### What is hard in it, and what makes it right

* **Order service.** Calls interleave between the count of a user's orders, the
  market check and the write, and can be cancelled at each of these points.
  Right means: an answer says what was stored; the limit is overrun by no more
  than the concurrency allows; nobody is refused below it; a read sees what was
  acknowledged before it began; a stored order stays.
* **PostgreSQL `Save`.** Client and server part company when a context ends or
  a connection breaks, and the column of the prices rounds. Right means: the
  debit and the order appear together, no overdraft, what was paid and what the
  orders cost drift apart by no more than the rounding, answers are final, every
  `Save` returns.
* **Market checker and breaker.** A caller leaves while its goroutine goes on,
  results are late, the breaker's generation changes under them. Right means:
  every admitted call is counted once, late results change nothing, a half-open
  breaker never gets stuck, and the breaker closes when the trouble is over.
* **User service.** Check-then-create, read-modify-write, and a token rotation
  of several critical sections: some errors are only logged, and signing can
  fail after a user was created or a token revoked. Right means:
  emails identify users, answers agree with the stores, a rotated or logged-out
  token is finished.
* **Spot service and its cache.** A lookup is a cache read, a repository read
  and a cache write, with other calls, other users of the cache and the clock
  between them; the cache is a map and a list that must stay in step through
  eviction, expiry and overwriting. Right means: the cache keeps the promise of
  its interface, and no answer depends on what is in it.
* **Idempotency.** Expiry, cleanup, eviction of a full store and, in Redis, a
  GET and a SET that others can come between, with a SET that is carried out
  some time before its answer arrives, or after its caller has left. Right
  means: a remembered key is executed once (in Redis: by no more than the calls
  that overlap), and behind a duplicate there is somebody who executes or, in
  Redis, somebody who cannot know.
* **Rate limits in the server chain.** A request looks its bucket up and asks
  it in two steps, and `UpdateRoleLimit` replaces it between them; handlers and
  the limiter itself panic; the server stops under its requests. Right means:
  an update gives no more away than one full bucket and a token for each request
  it finds between its two steps, and every request is answered.
* **Shutdown.** `Run` and `Trigger` share a `sync.Once` and a lock, closers hang
  or panic, `Register` comes late. Right means: the last registered is closed
  first, what any `Run` returns is as true as the Once lets it be, and a `Run`
  that had its signal returns.
* **Client.** Processes share one file that is overwritten in place and are
  killed anywhere; the unlink of a logout can fail unnoticed. Right means: a
  session saved without a neighbour is found by the next command, and a logout
  leaves either nothing or the session it found.

## Modules

| Module | Models | State and actions |
|---|---|---|
| `OrderService` | handlers, service and in-memory repository of the order service | `pc[w]`/`call[w]` is call `w`'s goroutine. `CreateOrder`, `GetOrderStatus`, `ListOrders` are the handlers' and the service's checks before the first shared step; `CountByUser`, `Save`, `GetByID`, `ListByUser` are the repository's critical sections with the code around them; `CheckMarketActive` is the market check; `Cancel` and `Respond` are gRPC |
| `Ledger` | what storing an order promises | `Place`: debit and order in one step; `Rounded` is what the column makes of a price |
| `PostgresOrders` | `Save` of the PostgreSQL repository | `pc` is the client's side, `tx` the server's; one action per statement, the UPDATE with and without a row, and `CallFails`, `ServerAborts`, `ServerCommits` for what can happen between |
| `CircuitBreaker` | gobreaker as configured | operators from breakers to breakers |
| `MarketChecker` | `MarketChecker.GetMarket` with `resilience.Execute` | `pc` is the caller, `rpc` its goroutine; `GetMarket`, `RPCReturns`, `TakeResult`, `Abandon`, `GoroutineEnds`, `ReadState`, and the environment |
| `AuthService` | handlers, service and repositories of the user service | as in `OrderService`: the calls, then one action per repository method, and `GenerateTokensFails` |
| `Cache` | what `ports.Cache` promises | `content[k]` is what a Get would find; `Put` takes a value and may forget another, `Forget`, `Close` |
| `LRUCache` | `LRUCache` of the spot service | `data` is the map, `ll` the list; one operator per method, each one critical section |
| `SpotService` | handler, service, repository and health endpoints of the spot service over `LRUCache` | a call per goroutine; `CacheGet`, `CacheDelete`, `Lookup`, `CacheSet`, `GetAll` and `PingCache`; `Elsewhere` is the environment, everybody else who has the cache; `Time` its expiry |
| `IdempotencyStore` | `idempotency.Store` and `RedisIdempotencyStore` | `kind` says which was built; `CheckAndSet` is one step of the first; of the second, `RedisGet` and `RedisSend` are the caller's, `RedisSet` the server's, and `RedisAnswer` or `RedisFails` what the caller hears. `LateSet` is a SET whose caller has gone; `Remove`, `Cleanup`, `Close`, `Expire`, `Restart` |
| `Shutdown` | `ShutdownHandler` | one action per step of `Register`, `Run`, `Trigger` and `WaitForCompletion` between which another goroutine can run; closers end, hang or outlive their share (`CloserEnds`, `ShareUp`, `TimeUp`) |
| `TokenManager` | the client's commands, its token manager and the file | one process per command: `LoadConfig`, `Prompt`, `NewTokenManager`, `Authenticate`, `OpenFile`, `WriteFile`, `RemoveFile`, `CheckToken`, `OrderRPC`, `RefreshToken`, and `Kill` |
| `RateLimiter` | `RateLimiter` over `golang.org/x/time/rate` | `level` of each bucket, `roleLims` from roles to buckets; `credit` is history, an account of each role |
| `Server` | the chain of interceptors around the handlers, and the end of a server | a request per `Calls`: `Allow`, `LookUp`, `AllowRole`, `Authenticate`, `Handle`, `Respond`; `ChangeLimit`, `Tick`, `Stop`, `StopTimeout` |
| `MC*` | instances for TLC | |
| `*Proofs` | theorems | one module per service; `SharedProofs` is about `IdempotencyStore` and `Shutdown` |

`MarketChecker` EXTENDS `CircuitBreaker`; `PostgresOrders` EXTENDS `Ledger` and
implements it over the same variables `balance` and `orders`, so the refinement
mapping is the identity and `LedgerSpec` itself is the property. `SpotService`
EXTENDS `LRUCache`, which INSTANCEs `Cache` with `content` mapped to what a Get
finds at each key: expired entries are as good as absent, so `Expire` is the
promise's `Forget`. `Server` EXTENDS `RateLimiter`. `OrderService` abstracts
`MarketChecker` to its outcome: the check can fail at any time, which is more
than a breaker with any history can do, so a composition of the two would show
nothing new about the order service. For the same reason `Server` abstracts the
handlers to answering or panicking. `SharedProofs` EXTENDS two modules that have
nothing to do with each other, for which the names in `Shutdown` that
`IdempotencyStore` has too carry a prefix (`ShutdownInit`, `ShutdownTypeOK`).

The comments "A mutant" mark operators that no specification uses: each is a
plausible mistake in the code, and substituting it for the definition it stands
beside must make TLC find a violation. They show that the properties depend on
the code.

### Abstractions

* Prices, quantities, types and timestamps of orders are dropped from
  `OrderService` (no control depends on them there); `PostgresOrders` keeps the
  price, of either sign.
* Every repository method starts with a test of the context, outside the lock.
  A cancellation between the test and the critical section has the same effect
  as one right after the critical section, so both are one action.
* Fresh uuids are values nobody has. Which one makes no difference, so
  `NewId`, `NewUserId` and `NewToken` choose one; when the bound on their
  number is used up the call that needs one waits.
* A user id of an order may have no row in `users` (`NoUser`). A price has more
  places than NUMERIC(20, 8) keeps, or not: `Unit` is the column's last place in
  what prices are counted in, and `Rounded` goes to the nearest, from the middle
  away from zero, as PostgreSQL does. No migration creates `users`, so the
  balance is taken for a number that does not round.
* Time is a flag: an interval, a timeout or a token has expired or not. A
  breaker's generation number is the set of calls that still carry the current
  one. Consecutive failures are not modelled: no configuration reads them.
* A password check can succeed or fail; a hash can fail (`bcrypt` refuses more
  than 72 bytes) and so can signing in `GenerateTokens`, wherever it is called.
  `IsActive` is never FALSE.
* A call may present any stored refresh token, which is the interface of the
  service, although no answer of it contains a refresh token.
* A call in `MarketChecker` has no number in the code; in the model its number
  is not used again before its goroutine has ended.
* In `LRUCache` `container/list` is a sequence and an entry's own element is
  found by its key; an entry is mortal (has a lifetime) or not, and past its
  lifetime or not. Markets are reduced to what the filter reads.
* `Elsewhere` drops keys, closes the cache, and writes under a market's id that
  market as this program encodes it, or bytes that cannot be decoded. Foreign
  bytes that do decode (`null`, `{}`, another market) are not covered: with them
  an answer would be whatever they say.
* In `IdempotencyStore` a SET in Redis is sent, carried out and answered in three
  steps; the caller, or its process, can be gone after each. `firsts` and
  `unsure` are history.
* In `Server` a bucket's rate is left open (`Tick` adds a token at any time). Of
  an authorization header the model keeps whether there is a bearer token,
  whether the token fits the validator, whether its time is over and whether its
  role is one the middleware knows. Handlers answer or panic.
* In `TokenManager` an issued access token is one that no process and no file
  has; the tokens a process holds and the file keep to `Tokens`.

## Runs

| Run | Instance | Shows |
|---|---|---|
| `order_service` | 2 calls, 2 users, 2 markets (one inactive), 3 ids, limit 1 | all of `OrderService`'s properties, with and without a market client |
| `order_limit` | the same | violation of `StrictLimit` |
| `order_inactive_market` | the same | violation of `NoOrderOnInactiveMarket`, after a check that failed |
| `postgres_orders` | 3 orders, 2 users with balances 2 and 1 and a user id without a row, prices 2 and -1, a column of even prices | `PostgresOrders` implements `Ledger`; no overdraft, the drift of the books; answers; liveness |
| `market_checker` | 3 calls, `MaxRequests` 2, `MinRequests` 3, at most 4 requests an interval, a known and an unknown market | the breaker's accounting and its recovery |
| `auth_service` | 2 calls, 2 emails, 2 user ids, 2 refresh tokens; a role with and one without the enum's prefix | the user service's stores and answers |
| `spot_cache` | 2 calls, 3 uuids (one without a market) and the health key, 2 places | `LRUCache` implements `Cache`; map and list agree; answers are the repository's |
| `idempotency` | 3 calls, 2 keys, a limit of 1 | how often a key is executed and who is behind a duplicate, for both stores |
| `idempotency_ttl` | 2 calls, 3 keys, a limit of 2 | violation of `ExpiredKeyIsNew` |
| `shutdown` | 3 callers, 2 resources | order of closing, what the return of any `Run` tells, that a `Run` with a signal returns |
| `token_manager` | 2 processes, 3 access tokens | the file after logins, logouts and kills |
| `server` | 2 requests, roles USER and ADMIN, 3 buckets, a burst of 1 | the account of a role under updates; that requests are answered |

Why the bounds are enough. Two calls reach every pairwise interleaving of
critical sections, and the properties relate at most two calls (the limit, for
any number of calls, is proved). With a limit of 1 and two calls the overrun
really happens (2 orders), and a third id leaves room for one order too many.
Two users tell "my orders" from "all orders". In `postgres_orders` one user can
pay for one order of price 2 and has two transactions that want one; the other
can pay for none until a negative price has made it richer. The column keeps
even prices, so that of the two prices -1 is rounded, from the middle. In `market_checker`
three calls are enough to trip the breaker (3 requests, 60% failed), to fill a
half-open breaker of 2 and to have a late call from an earlier generation
beside them; `RequestBound` cuts the counters of an interval above the value
at which they can matter. In `auth_service` two ids and two tokens allow a
duplicate registration and one rotation, with a second call in the middle. In
`spot_cache` four keys compete for two places, so the cache fills up and
evicts; the three uuids are a market anyone sees, one that is filtered
and one that does not exist. In `idempotency` the second key finds the store
full, and three calls let two meet in Redis between GET and SET while the third
comes late; keys do not touch each other in Redis. In `shutdown` two resources have an order, and three callers let a
`Run` and a `Trigger` meet while a third registers. In `token_manager` two
processes write one file, and the third token tells a stale session from a
current one. In `server` the two requests can each hold on to a replaced bucket
of USER while the third takes its place, and with a burst of 1 each of the
three tokens is one that somebody notices. The real values (limit 500, 5 requests,
5 probes) change no branch, and the
theorems hold for all of them.

`CHECK_DEADLOCK FALSE` in `MCPostgresOrders.cfg`: each order id is saved once,
so the instance stops when all `Save`s are over. `CHECK_DEADLOCK FALSE` in
`MCServer.cfg`: a server that has stopped does nothing more. The other runs
check deadlock; in `shutdown` other callers can go on where one is stuck, which
is why it checks that a `Run` returns.

Symmetry is used where no definition distinguishes the values, and only in
runs without liveness properties.

### Fairness

* `PostgresOrders`: the client's goroutine is scheduled; the server works on a
  COMMIT it received; the server ends the transactions of calls that are over
  (the deferred `Rollback`, the pool closing the connection of a cancelled
  call, or PostgreSQL noticing the loss); a call whose transaction is gone
  learns of it. No fairness for failures otherwise, nor for new `Save`s.
* `MarketChecker`: goroutines are scheduled and an RPC ends within its 200 ms
  (`Proceed`); time passes (`Expire`); and, the one assumption about callers,
  orders keep coming (`Call`): a breaker is only moved by its calls.
  `Recovers` assumes in its premise that the spot service stays up and that
  from some point on nobody leaves early or asks for an unknown market.
* `Shutdown`: the goroutine in `Run` is scheduled, and the shutdown's whole
  time is over at some point. Nothing is assumed of closers, of their shares of
  the time, of signals or of the other callers.
* `Server`: the goroutine of a request runs on and its handler returns or
  panics. Nothing is assumed of the stop, the updates or the buckets.
* The other modules are checked for safety only.

## Findings

1. **The order limit can be overrun** (`StrictLimit`, `order_limit`).
   `CreateOrder` counts and saves in two critical sections. What does hold, and
   is proved, is `LimitOvershoot`: a user never has more than limit - 1 +
   (number of concurrent calls) orders.
2. **Orders on inactive markets** (`NoOrderOnInactiveMarket`,
   `order_inactive_market`). A service with a market client stores the order
   although its check failed, for the failure is only logged. What does hold is
   `InactiveOnlyUnchecked`: such an order is always one whose own check failed,
   or one of a service that has no market client, of which
   `NoOrderOnInactiveMarket` says nothing.
3. **An expired idempotency key is still a duplicate** (`ExpiredKeyIsNew`,
   `idempotency_ttl`). `CheckAndSet` looks whether a key is in the map and never
   at its expiry, so the key counts until the cleanup's next tick; the test that
   says otherwise waits for longer than a tick.

Seen while modelling, without a run, because no document promises otherwise or
because it is not behaviour a model is needed for:

* the comment at `circuit_breaker.go:34` says ">60%", the code has `>= 0.6`;
* NotFound and the caller's own cancellation count as failures, so clients can
  open the breaker for everyone, after which orders are accepted unchecked;
* `GetOrderStatus` of an unknown order answers Internal: the handler compares
  with the service's `ErrOrderNotFound`, the repository returns its own;
* `Stats().RejectedRequests` is requests less failures;
* two concurrent `RefreshToken` calls with one token can both succeed; one that
  is cancelled between `Revoke` and `Store`, or whose signing fails there, loses
  the session; a Register whose signing fails answers an error and has created
  its user; a RefreshToken that is
  concurrent with `LogoutAll` leaves its new token valid;
* no answer of the user service carries a refresh token;
* the user service signs with issuer `exchange-system-user-service`, RS256,
  role `USER_ROLE_USER` and no audience; the shared validator expects issuer
  `exchange-system`, audience `exchange-api`, HS256 and roles like `USER`, so
  with both at their defaults none of the first's tokens passes the second;
* the order service has no interceptor that puts claims into the context, so
  CreateOrder and ListOrders answer Unauthenticated to everybody there;
* nobody becomes an administrator in a user service with an empty store:
  `UpdateRole` needs one;
* no service sets limits for roles, and with none `AllowRole` calls a nil
  limiter for a request that carries a role; the recovery interceptor answers
  Internal. A request that its role's limit refuses has used a token of the
  service's bucket;
* `XRequestID` puts an id it generates into the outgoing metadata only, so the
  logger behind it logs "unknown";
* after `Trigger`, `Run` returns nil at once and closes nothing; a second `Run`
  beside one that times out returns nil as well; a closer that overruns its
  share is left running beside the next; a `Trigger`
  during `Run`'s wait blocks until `Run` is over; the branch of `Run` that waits
  for the handler's own context is never taken; what closers return is dropped;
* the client's `RefreshToken` locks the manager and then calls `saveToDisk`,
  which locks it again: it would never return, but no command calls it. The
  token file is overwritten in place, so a kill leaves an empty one, which the
  next command takes for no session. A logout whose unlink fails says it has
  logged out and leaves the session; one that unlinks a file another process has
  opened and not written takes that process's new session with it. A missing
  configuration makes register, login and logout panic;
* a full idempotency store makes room with any key, also one that is still
  needed, whose request can then be executed again; in Redis, a SET whose caller
  died or was told of an error leaves a key that nobody executes;
* an order whose price has more than 8 places is stored at the rounded price and
  paid at the one that was sent; Save answers "insufficient balance" for a user
  that does not exist as well;
* the spot service's handler compares with the service's own errors, which the
  repository never returns: every failed lookup is Internal. Seeded markets
  whose ids are no uuids are listed and cannot be fetched;
* `ListByUser` of the PostgreSQL repository never asks `rows.Err`, so a lost
  connection shortens the list without an error.

## Theorems

All proofs use only the assumptions named in the modules: finite sets of calls,
a positive order limit, limits and bursts that are natural numbers, that the
"absent" values are not values, that a column has a last place, and that there
is a bucket for each role.

* `OrderServiceProofs`. `TypeCorrect`. `AnswersCorrect`: the answer of a
  CreateOrder and the store agree; inductive with `InProgressHasNoOrder` (a call
  that has not saved has no id) and the fact that the id a call saves under is
  new. `LimitOvershootBounded`: `LimitOvershoot` is not inductive, because
  nothing in it limits the calls that are already past the count;
  `OvershootBudget` counts them in: stored orders plus calls past the count
  never exceed limit - 1 + calls. A call passes the count only when stored
  orders are below the limit, and then at most all calls are past it; a write
  turns a call past the count into an order. `OrdersStoredForGood`: no step
  touches a stored order. `LimitHoldsForOne`: with one worker the overshoot is
  none and `StrictLimit` holds, so what the run `order_limit` shows takes two
  calls at once. `RefusalsAreRight`: a call is refused only by a count
  at the limit, and stored orders stay. `InactiveMarketsUnchecked` needs
  `CheckInv`: a call comes to its write only with a passed check of an active
  market, a failed check, or without a client. `ReadsAreFresh` needs `ReadInv`:
  what was acknowledged is stored, and what a read has to see when it begins is
  stored until it reads.
* `PostgresOrdersProofs`. `TypeCorrect`. `DebitsAreCurrent`: with
  `RowLockExclusive` and `StoredWhenCommitted` the debit a transaction has
  computed is still what the table says, for only a holder of the row's lock
  commits. `HeldRowsAreKept` states what that rests on: no two transactions hold
  a row, and while one holds it the balance changes in no step but that
  transaction's own commit. `SaveImplementsLedger`: `ServerCommits` is the
  ledger's `Place` because of that invariant, every other step a stutter.
  `NobodyIsOverdrawn` follows from the ledger's own invariant through the
  refinement, and so does
  `MoneyIsConserved`, which is about a sum over a set. `MapThenSumSet` is a fold
  that picks the elements in some order. The lemmas show that this sum, `SumOf`,
  is 0 of the empty set, a number, and does not depend on which element is
  picked first (`SumOfOneMore`), by well-founded induction on the strict
  subsets of a finite set (`SubsetInduction`); `SumSetIsSumOf` identifies the
  fold with it. The column rounds, so that the books balance only up to a drift:
  `RoundedIsNear` bounds what one rounding does by half of the last place, and
  `DriftStep` adds that up over a user's orders. `LedgerInv` says in addition
  that every user has finitely many orders, each step adding one: `OrderIds`
  itself may be infinite.
  `SaveAnswersAreFinal`: with an order's state, its transaction's state and the
  table in step, an answered Save can no longer be undone or done.
* `MarketCheckerProofs`. `TypeCorrect`; `CallsAreCounted` and
  `HalfOpenIsNeverWedged` from an invariant on the breaker record (`Balanced`,
  `ProbesOnlySucceeded`), with one lemma per breaker operation saying that it
  preserves it; `StateChangesAreCurrent` by cases on the actions.
  `ClosedBreakerBearsLittle`: a closed breaker has seen no failure, or fewer
  failures than `MinRequests`, or less than 60% of its requests failed. The
  plainer claim, that `ReadyToTrip` is false of a closed breaker, is false: it
  is asked only when a failure comes in, and an admission after four failures of
  four requests makes it true.

* `AuthServiceProofs`. The stores only grow (`Grows`: a user keeps its email, a
  token its user, what is revoked stays so), so that what one call has learned
  stays true while others run; `CallsFit` says what each call has learned at
  each of its steps. With `TokensIndexed` (the user index finds every token of
  a user) and `LoggedOutRevoked` it is inductive, and gives `TypeCorrect`,
  `EmailsAreUnique`, `AnswersHold`, `RefreshRevokes` and `LogoutIsFinal`.
  `AnswersHold` says of a Register that fails after its own checks only that it
  has created nobody or the whole user: signing and the context can fail on
  either side of `Create`.
  `IdentitiesForGood` is about steps: a stored user keeps its email although
  `Update` writes a whole user read some steps before, a token keeps its owner,
  and what is revoked or expired is never valid again.
* `SpotServiceProofs`. `CInv`: the list holds each key of the map exactly once
  and is no longer than the capacity. Lemmas about sequences say what removing
  an element and pushing one in front do to such a list. `MapAndListAgree` and
  `CacheImplemented` follow: Set is the promise's `Put` with the evicted key as
  the one that is lost, everything else a `Forget`, a `Close` or a stutter.
  `AnswersCorrect` needs `CacheHoldsMarkets`: under a market's id lies that
  market or what cannot be decoded.
* `SharedProofs`, the idempotency stores. `ExecutionsBounded` is not inductive for Redis: the
  calls between GET and SET have to be counted with those already told "first"
  (`Bound`). `DuplicatesHaveOriginals` from `Told`: a key that is present was
  answered "first", or its SET has been carried out and its caller waits for the
  answer, or will never have one.
* `SharedProofs`, the shutdown. `ShutdownInv` has four parts beside the type:
  the Once lets one caller in (`OneWorks`); what holds at each of its steps, in
  particular that a shutdown has begun only with a signal, because a Trigger
  that gets in first takes the Once away from Run (`Phases`); a resource is
  registered by one caller and stands in the list once, although `Register`
  appends while the loop reads (`Listed`); and below the cursor nothing is
  started, above it all that was registered in time, with nothing still closing
  but after a timeout (`Progress`). It gives `ShutdownTypeCorrect`,
  `ClosersInOrder`, `ReturnsTell` and `NothingClosedTwice`, for any number of
  callers and closers. `ReturnsTell` is about the return of every `Run`, also of
  one that only waited at the Once, and therefore excepts a Once that a Trigger
  has used up and, for nil, a `Run` that has timed out.
* `TokenManagerProofs`. `SessionKept`: the process that has had the file to
  itself since it opened it finds it empty when it writes (`HolderWrites`), and
  writes the token of its login (`SavesLogin`). It excepts what the code gives
  up: the time between opening and writing, and an unlink that fails.
* `ServerProofs`. `RoleLimitKept`: an update of a role's limit opens an account
  of one full bucket and a token for each request that is between its lookup and
  its question; time adds to it, requests held to the limit draw on it, whichever
  bucket they have, and it is never overdrawn. Inductive is `Covered`: the
  account covers the tokens in the role's bucket and the requests that still have
  an older one (`Late`), with no two roles sharing a bucket (`Own`) and only
  roles with a limit being asked (`LookedUp`). `TypeCorrect`.

Model-checked only: the liveness properties `EverySaveReturns`, `Recovers`,
`RunReturns` and `EveryRequestAnswered`, as liveness under
fairness is out of the prover's reach. Every other property of a passing run is
a theorem.

## Not modelled

* **shared/retry.** A sequential loop without shared state that no code outside
  its tests calls; what a model would be about, the operation it retries, does
  not exist.
* **shared/health.** Asks its checks one after the other and reports; no service
  uses it. (The spot service's own endpoints are in `SpotService`.)
* **PostgreSQL reads.** `GetByID`, `ListByUser` and `CountByUser` are one SELECT
  of committed rows each, and nothing calls them yet; a property of them would
  restate what PostgreSQL promises. What the code adds, an error it does not ask
  for, is noted above.
* **Limiter and interceptors without a caller.** `AllowN`, `AllowBytes`, `Wait`,
  `WaitRole`, the limiter's client and stream interceptors, `InitGlobal`, the
  shared validator's interceptors and `RequireRole`, and the client's
  interceptors are called by tests only.
* **Mappers, validation, configuration, logging, metrics, database pool,
  dependency injection.** Stateless conversions, I/O and construction. Mappers
  are in the lines of the definitions whose answers they build; the parts of
  the wiring that decide what runs are in `Server`'s setups.
* **Cryptography.** Signing, verifying and hashing are reduced to their verdict.
* **proto.** Generated code.
