---------------------------- MODULE OrderService ----------------------------
(***************************************************************************)
(* The order service: the gRPC handlers CreateOrder, GetOrderStatus and    *)
(* ListOrders (internal/handler), the service they call (internal/service) *)
(* and the in-memory repository (internal/adapters/inmemory).              *)
(*                                                                         *)
(* gRPC runs every call in a goroutine of its own.  A call touches shared  *)
(* state only inside the repository's methods, each of which holds the     *)
(* repository's mutex, and leaves the process only in the market check.    *)
(* One action is one such method together with the local code around it;   *)
(* everything between two of them can interleave with other calls.         *)
(*                                                                         *)
(* Every repository method, and the service before it, returns early when  *)
(* the call's context is done.  A cancellation that falls between that     *)
(* test and the critical section has the same effect as one right after    *)
(* the critical section, so test and section are one action.               *)
(***************************************************************************)
EXTENDS Naturals, FiniteSets

CONSTANTS
  Workers,              \* calls that can be in progress at the same time
  Users,                \* user ids (uuids) found in tokens
  Markets,              \* market ids (uuids) named in requests
  ActiveMarkets,        \* the markets the spot service reports as enabled
  OrderIds,             \* the uuids a run can draw: the bound on its orders
  MaxOpenOrdersPerUser, \* 500 in the source
  NoOrder               \* what the repository's map holds for an absent key

ASSUME OrderServiceAssumption ==
  /\ IsFiniteSet(Workers)
  /\ Users # {} /\ Markets # {}
  /\ ActiveMarkets \subseteq Markets
  /\ MaxOpenOrdersPerUser \in Nat \ {0}
  /\ NoOrder \notin [user : Users, market : Markets]
  /\ NoOrder \notin OrderIds

VARIABLES
  hasMarketClient, \* FALSE: the service was built with a nil MarketClient
  orders,   \* Repository.orders: order id -> order, or NoOrder
  pc,       \* the next step of each call
  call,     \* what each call was asked, and what it has learned
  done,     \* the calls whose context is cancelled or past its deadline
  acked     \* history: the ids of the orders whose creation a client has seen succeed

vars == <<hasMarketClient, orders, pc, call, done, acked>>

-----------------------------------------------------------------------------
Roles == {"UNSPECIFIED", "USER", "PREMIUM", "ADMIN"}

Codes == {"OK", "Unauthenticated", "PermissionDenied", "InvalidArgument",
          "ResourceExhausted", "FailedPrecondition", "NotFound", "Internal"}

Order == [user : Users, market : Markets]

(* A call.  "order" is the id a CreateOrder has saved or a GetOrderStatus  *)
(* asks for, "checkFailed" says that the market check returned an error,   *)
(* "seen" is a history field: those of the orders a read asks for that were *)
(* acknowledged when it started; "result" is the answer of ListOrders.     *)
Call ==
  [op : {"create", "get", "list"}, user : Users, market : Markets,
   order : OrderIds \cup {NoOrder}, checkFailed : BOOLEAN, code : Codes,
   seen : SUBSET OrderIds, result : SUBSET OrderIds]

Steps == {"idle", "count", "market", "save", "read", "reply"}

Stored == {id \in OrderIds : orders[id] # NoOrder}

OrdersOf(u) == {id \in Stored : orders[id].user = u}

TypeOK ==
  /\ hasMarketClient \in BOOLEAN
  /\ orders \in [OrderIds -> Order \cup {NoOrder}]
  /\ pc \in [Workers -> Steps]
  /\ call \in [Workers -> Call]
  /\ done \in SUBSET Workers
  /\ acked \in SUBSET OrderIds

NewCall(op, u, m, code) ==
  [op |-> op, user |-> u, market |-> m, order |-> NoOrder,
   checkFailed |-> FALSE, code |-> code, seen |-> {}, result |-> {}]

(* Fills the fields of a call that its operation does not look at.         *)
AnyUser == CHOOSE u \in Users : TRUE
AnyMarket == CHOOSE m \in Markets : TRUE

NoCall == NewCall("get", AnyUser, AnyMarket, "OK")

-----------------------------------------------------------------------------
(* The checks a CreateOrder makes before it touches any shared state, in   *)
(* the order of the code: the handler's (claims, role, required fields),   *)
(* then the service's (both ids parse as uuids), whose error the handler   *)
(* does not know and turns into Internal.                                  *)
CreateVerdict(hasClaims, role, complete, idsParse) ==
  CASE ~hasClaims                     -> "Unauthenticated"
    [] role \notin {"USER", "PREMIUM"} -> "PermissionDenied"
    [] ~complete                      -> "InvalidArgument"
    [] ~idsParse                      -> "Internal"
    [] OTHER                          -> "OK"

(* A mutant: the error itself is returned.                                 *)
RawError(err) == IF err = "none" THEN "OK" ELSE err

(* The handler compares errors by identity and the repository's "order not *)
(* found" is not the service's, so the code it would answer NotFound with  *)
(* never meets it; nor does the in-memory repository know balances.        *)
GRPCCode(err) ==
  CASE err = "none"                           -> "OK"
    [] err = "service.ErrOrderNotFound"       -> "NotFound"
    [] err = "service.ErrInvalidMarket"       -> "InvalidArgument"
    [] err = "service.ErrInsufficientBalance" -> "FailedPrecondition"
    [] err = "service.ErrTooManyOrders"       -> "ResourceExhausted"
    [] OTHER                                  -> "Internal"

(* The handler has its answer; gRPC has still to deliver it.               *)
Finish(w, c, err) ==
  /\ pc' = [pc EXCEPT ![w] = "reply"]
  /\ call' = [call EXCEPT ![w] = [c EXCEPT !.code = GRPCCode(err)]]

-----------------------------------------------------------------------------
CreateOrder(w) ==
  /\ pc[w] = "idle"
  /\ \/ \E role \in Roles, hasClaims, complete, idsParse \in BOOLEAN :
          LET code == CreateVerdict(hasClaims, role, complete, idsParse) IN
          /\ code # "OK"
          /\ pc' = [pc EXCEPT ![w] = "reply"]
          /\ call' = [call EXCEPT ![w] = NewCall("create", AnyUser, AnyMarket, code)]
     \/ \E u \in Users, m \in Markets :
          /\ pc' = [pc EXCEPT ![w] = "count"]
          /\ call' = [call EXCEPT ![w] = NewCall("create", u, m, "OK")]
  /\ UNCHANGED <<orders, done, acked>>

GetOrderStatus(w) ==
  /\ pc[w] = "idle"
  /\ \/ /\ pc' = [pc EXCEPT ![w] = "reply"]
        /\ call' = [call EXCEPT ![w] = [NoCall EXCEPT !.code = "InvalidArgument"]]
     \/ \E id \in OrderIds :
          /\ pc' = [pc EXCEPT ![w] = "read"]
          /\ call' = [call EXCEPT ![w] = [NoCall EXCEPT !.order = id, !.seen = acked \cap {id}]]
  /\ UNCHANGED <<orders, done, acked>>

ListOrders(w) ==
  /\ pc[w] = "idle"
  /\ \/ /\ pc' = [pc EXCEPT ![w] = "reply"]
        /\ call' = [call EXCEPT ![w] =
             NewCall("list", AnyUser, AnyMarket, "Unauthenticated")]
     \/ \E u \in Users :
          /\ pc' = [pc EXCEPT ![w] = "read"]
          /\ call' = [call EXCEPT ![w] =
               [NewCall("list", u, AnyMarket, "OK") EXCEPT !.seen = acked \cap OrdersOf(u)]]
  /\ UNCHANGED <<orders, done, acked>>

-----------------------------------------------------------------------------
(* CountByUser counts all the orders of a user, whatever their status.      *)
AtLimitOffByOne(u) == Cardinality(OrdersOf(u)) > MaxOpenOrdersPerUser
AtLimitOfEverybody(u) == Cardinality(Stored) >= MaxOpenOrdersPerUser
AtLimit(u) == Cardinality(OrdersOf(u)) >= MaxOpenOrdersPerUser

(* CreateOrder, the limit: CountByUser counts under the read lock, and the *)
(* lock is gone when the service compares the count.                       *)
CountByUser(w) ==
  /\ pc[w] = "count"
  /\ \/ /\ w \in done
        /\ Finish(w, call[w], "context")
     \/ /\ w \notin done
        /\ AtLimit(call[w].user)
        /\ Finish(w, call[w], "service.ErrTooManyOrders")
     \/ /\ w \notin done
        /\ ~AtLimit(call[w].user)
        /\ pc' = [pc EXCEPT ![w] = IF hasMarketClient THEN "market" ELSE "save"]
        /\ UNCHANGED call
  /\ UNCHANGED <<orders, done, acked>>

(* A mutant of the market check: the verdict is dropped.                   *)
CheckIgnored(w) ==
  /\ pc[w] = "market"
  /\ pc' = [pc EXCEPT ![w] = "save"]
  /\ UNCHANGED <<orders, call, done, acked>>

(* CreateOrder, the market check: an error is logged and the call goes on. *)
(* The spot service can be down, slow or refused by the circuit breaker at *)
(* any time, and a call whose context is done can only get an error.       *)
CheckMarketActive(w) ==
  /\ pc[w] = "market"
  /\ \/ /\ pc' = [pc EXCEPT ![w] = "save"]
        /\ call' = [call EXCEPT ![w].checkFailed = TRUE]
     \/ /\ w \notin done
        /\ call[w].market \in ActiveMarkets
        /\ pc' = [pc EXCEPT ![w] = "save"]
        /\ UNCHANGED call
     \/ /\ w \notin done
        /\ call[w].market \notin ActiveMarkets
        /\ Finish(w, call[w], "service.ErrInvalidMarket")
  /\ UNCHANGED <<orders, done, acked>>

(* uid.New: an id nobody has; which one makes no difference.  The mutant   *)
(* takes an id that does not depend on what is stored.                     *)
RequestedId == CHOOSE id \in OrderIds : TRUE
NewId == CHOOSE id \in OrderIds : id \notin Stored

(* A mutant: the write before the test of the context.                     *)
EagerSave(w) ==
  /\ pc[w] = "save"
  /\ Stored # OrderIds
  /\ orders' = [orders EXCEPT ![NewId] =
       [user |-> call[w].user, market |-> call[w].market]]
  /\ Finish(w, [call[w] EXCEPT !.order = NewId],
            IF w \in done THEN "context" ELSE "none")
  /\ UNCHANGED <<done, acked>>

(* A bound of the model: uuids do not run out, a small OrderIds would.     *)
IdLeft == Stored # OrderIds

(* CreateOrder, the write, with the id drawn just before it.               *)
Save(w) ==
  /\ pc[w] = "save"
  /\ \/ /\ w \in done
        /\ Finish(w, call[w], "context")
        /\ UNCHANGED orders
     \/ /\ w \notin done
        /\ IdLeft
        /\ orders' = [orders EXCEPT ![NewId] =
             [user |-> call[w].user, market |-> call[w].market]]
        /\ Finish(w, [call[w] EXCEPT !.order = NewId], "none")
  /\ UNCHANGED <<done, acked>>

GetByID(w) ==
  /\ pc[w] = "read"
  /\ call[w].op = "get"
  /\ Finish(w, call[w],
       IF w \in done THEN "context"
       ELSE IF call[w].order \in Stored THEN "none"
       ELSE "inmemory.ErrOrderNotFound")
  /\ UNCHANGED <<orders, done, acked>>

(* A mutant of the listing's filter, and the filter.                        *)
ListedForAnybody(u) == Stored
Listed(u) == OrdersOf(u)

ListByUser(w) ==
  /\ pc[w] = "read"
  /\ call[w].op = "list"
  /\ \/ /\ w \in done
        /\ Finish(w, call[w], "context")
     \/ /\ w \notin done
        /\ Finish(w, [call[w] EXCEPT !.result = Listed(call[w].user)], "none")
  /\ UNCHANGED <<orders, done, acked>>

-----------------------------------------------------------------------------
(* The client goes away, or the call's deadline passes.                    *)
Cancel(w) ==
  /\ pc[w] # "idle"
  /\ w \notin done
  /\ done' = done \cup {w}
  /\ UNCHANGED <<orders, pc, call, acked>>

(* gRPC delivers the handler's answer, unless the call is already over for *)
(* the client; the goroutine ends.                                        *)
Respond(w) ==
  /\ pc[w] = "reply"
  /\ pc' = [pc EXCEPT ![w] = "idle"]
  /\ done' = done \ {w}
  /\ acked' = IF w \notin done /\ call[w].op = "create" /\ call[w].code = "OK"
                THEN acked \cup {call[w].order}
                ELSE acked
  /\ call' = [call EXCEPT ![w] = NoCall]
  /\ UNCHANGED orders

-----------------------------------------------------------------------------
Init ==
  /\ hasMarketClient \in BOOLEAN
  /\ orders = [id \in OrderIds |-> NoOrder]
  /\ pc = [w \in Workers |-> "idle"]
  /\ call = [w \in Workers |-> NoCall]
  /\ done = {}
  /\ acked = {}

Receive(w) == CreateOrder(w) \/ GetOrderStatus(w) \/ ListOrders(w)

(* What the call's own goroutine does, once it has started.                *)
Handle(w) ==
  \/ CountByUser(w) \/ CheckMarketActive(w) \/ Save(w)
  \/ GetByID(w) \/ ListByUser(w) \/ Respond(w)

Next ==
  /\ \E w \in Workers : Receive(w) \/ Handle(w) \/ Cancel(w)
  /\ UNCHANGED hasMarketClient

Spec == Init /\ [][Next]_vars

-----------------------------------------------------------------------------
(* How far the limit can be overrun.  CreateOrder counts a user's orders   *)
(* and saves later, so calls in progress do not see one another; still a   *)
(* user never has more orders than the limit less one plus one for every   *)
(* call that can be in progress at once.                                   *)
LimitOvershoot ==
  \A u \in Users :
    Cardinality(OrdersOf(u)) <= MaxOpenOrdersPerUser - 1 + Cardinality(Workers)

(* The calls that have counted the orders of u and not yet saved their own.*)
PastTheCount(u) ==
  {w \in Workers : pc[w] \in {"market", "save"} /\ call[w].user = u}

(* Why the overrun is bounded: every call past the count has a place in    *)
(* the budget already, so saving its order spends what it reserved.        *)
OvershootBudget ==
  \A u \in Users :
    Cardinality(OrdersOf(u)) + Cardinality(PastTheCount(u))
      <= MaxOpenOrdersPerUser - 1 + Cardinality(Workers)

(* A call is refused for the limit only when its user really is at it: the *)
(* orders of other users do not count, and what was counted is still there *)
(* when the answer is sent.                                                *)
RefusedOnlyAtLimit ==
  \A w \in Workers :
    pc[w] = "reply" /\ call[w].code = "ResourceExhausted" =>
      Cardinality(OrdersOf(call[w].user)) >= MaxOpenOrdersPerUser

(* The creations that have succeeded and are about to be answered.         *)
Succeeded(w) == pc[w] = "reply" /\ call[w].op = "create" /\ call[w].code = "OK"

(* A CreateOrder that answers an error has saved nothing, and one that     *)
(* answers OK has saved exactly one order, its own, for its user and its   *)
(* market.  Two calls never answer with the same order.                    *)
AnswerMatchesStore ==
  /\ \A w \in Workers :
       Succeeded(w) =>
         /\ call[w].order \in Stored
         /\ orders[call[w].order] =
              [user |-> call[w].user, market |-> call[w].market]
  /\ \A w \in Workers :
       pc[w] = "reply" /\ call[w].op = "create" /\ ~Succeeded(w)
         => call[w].order = NoOrder
  /\ \A v, w \in Workers :
       Succeeded(v) /\ Succeeded(w) /\ call[v].order = call[w].order => v = w

(* A CreateOrder on its way has no order yet.                              *)
InProgressHasNoOrder ==
  \A w \in Workers :
    pc[w] \in {"count", "market", "save"} =>
      call[w].op = "create" /\ call[w].order = NoOrder

(* An order stored for a market that is not active is there because the    *)
(* market check of its call failed, never because a check said no or was   *)
(* skipped.                                                                *)
InactiveOnlyUnchecked ==
  [][\A w \in Workers :
       /\ hasMarketClient
       /\ call[w].op = "create" /\ call'[w].order \in Stored' \ Stored
       /\ call[w].market \notin ActiveMarkets
       => call[w].checkFailed]_vars

(* A read that starts after a client has seen an order's creation succeed  *)
(* finds that order: GetOrderStatus answers OK for it, and the user's      *)
(* ListOrders contains it, and contains no order of another user.          *)
ReadsSeeAcknowledged ==
  \A w \in Workers :
    pc[w] = "reply" =>
      /\ call[w].op = "get" /\ call[w].order \in call[w].seen
           => call[w].code = "OK" \/ w \in done
      /\ call[w].op = "list" /\ call[w].code = "OK"
           => /\ call[w].seen \subseteq call[w].result
              /\ \A id \in call[w].result : orders[id].user = call[w].user

(* An order once stored stays as it is: no call changes or replaces it.    *)
StoredForGood ==
  [][\A id \in Stored : orders'[id] = orders[id]]_vars

-----------------------------------------------------------------------------
(* What the tests say and the code does not keep.                          *)

(* A user never has more orders than the limit.                            *)
StrictLimit ==
  \A u \in Users : Cardinality(OrdersOf(u)) <= MaxOpenOrdersPerUser

(* A service that checks markets stores no order for one that is not       *)
(* active.                                                                 *)
NoOrderOnInactiveMarket ==
  hasMarketClient => \A id \in Stored : orders[id].market \in ActiveMarkets
=============================================================================
