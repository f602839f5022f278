------------------------- MODULE OrderServiceProofs -------------------------
(***************************************************************************)
(* Theorems about OrderService, for every set of users, markets and order  *)
(* ids, every finite set of concurrent calls and every limit.              *)
(***************************************************************************)
EXTENDS OrderService, FiniteSetTheorems, TLAPS

(* The codes the handler answers are codes of the protocol.                *)
LEMMA CodesType ==
  /\ \A err : GRPCCode(err) \in Codes
  /\ \A hasClaims, role, complete, idsParse :
       CreateVerdict(hasClaims, role, complete, idsParse) \in Codes
  BY DEF GRPCCode, CreateVerdict, Codes

(* A new call's record is a call.                                          *)
LEMMA NewCallType ==
  ASSUME NEW op \in {"create", "get", "list"}, NEW u \in Users, NEW m \in Markets,
         NEW code \in Codes
  PROVE  NewCall(op, u, m, code) \in Call
  BY DEF NewCall, Call

LEMMA NoCallType == NoCall \in Call
  <1>1. AnyUser \in Users /\ AnyMarket \in Markets
    BY OrderServiceAssumption DEF AnyUser, AnyMarket
  <1> QED
    BY <1>1, NewCallType DEF NoCall, Codes

(* What a step of Finish leaves: a reply pending, with a code.             *)
LEMMA FinishType ==
  ASSUME TypeOK, NEW w \in Workers, NEW c \in Call, NEW err, Finish(w, c, err)
  PROVE  /\ pc' \in [Workers -> Steps]
         /\ call' \in [Workers -> Call]
  BY CodesType DEF TypeOK, Finish, Call, Steps

(* Every step keeps the types.  Respond needs to know that a CreateOrder   *)
(* that succeeded has an order's id to acknowledge.                        *)
LEMMA TypeStep ==
  ASSUME TypeOK, AnswerMatchesStore, [Next]_vars
  PROVE  TypeOK'
  <1> USE DEF TypeOK
  <1>1. ASSUME NEW w \in Workers, UNCHANGED hasMarketClient, CreateOrder(w)
        PROVE TypeOK'
    <2>1. \A code \in Codes, u \in Users, m \in Markets :
            NewCall("create", u, m, code) \in Call
      BY NewCallType
    <2>2. AnyUser \in Users /\ AnyMarket \in Markets
      BY OrderServiceAssumption DEF AnyUser, AnyMarket
    <2>3. "OK" \in Codes
      BY DEF Codes
    <2> QED
      BY <1>1, <2>1, <2>2, <2>3, CodesType DEF CreateOrder, Steps
  <1>2. ASSUME NEW w \in Workers, UNCHANGED hasMarketClient, GetOrderStatus(w)
        PROVE TypeOK'
    <2>1. [NoCall EXCEPT !.code = "InvalidArgument"] \in Call
      BY NoCallType DEF Call, Codes
    <2>2. \A id \in OrderIds :
            [NoCall EXCEPT !.order = id, !.seen = acked \cap {id}] \in Call
      BY NoCallType DEF Call
    <2> QED
      BY <1>2, <2>1, <2>2 DEF GetOrderStatus, Steps
  <1>3. ASSUME NEW w \in Workers, UNCHANGED hasMarketClient, ListOrders(w)
        PROVE TypeOK'
    <2>1. AnyUser \in Users /\ AnyMarket \in Markets
      BY OrderServiceAssumption DEF AnyUser, AnyMarket
    <2>2. NewCall("list", AnyUser, AnyMarket, "Unauthenticated") \in Call
      BY <2>1, NewCallType DEF Codes
    <2>3. \A u \in Users :
            [NewCall("list", u, AnyMarket, "OK")
               EXCEPT !.seen = acked \cap OrdersOf(u)] \in Call
      BY <2>1, NewCallType DEF Call, Codes
    <2> QED
      BY <1>3, <2>2, <2>3 DEF ListOrders, Steps
  <1>4. ASSUME NEW w \in Workers, UNCHANGED hasMarketClient, CountByUser(w)
        PROVE TypeOK'
    <2>1. call[w] \in Call
      OBVIOUS
    <2> QED
      BY <1>4, <2>1, FinishType DEF CountByUser, Steps
  <1>5. ASSUME NEW w \in Workers, UNCHANGED hasMarketClient, CheckMarketActive(w)
        PROVE TypeOK'
    <2>1. call[w] \in Call /\ [call[w] EXCEPT !.checkFailed = TRUE] \in Call
      BY DEF Call
    <2> QED
      BY <1>5, <2>1, FinishType DEF CheckMarketActive, Steps
  <1>6. ASSUME NEW w \in Workers, UNCHANGED hasMarketClient, Save(w)
        PROVE TypeOK'
    <2>1. call[w] \in Call /\ [user |-> call[w].user, market |-> call[w].market] \in Order
      BY DEF Call, Order
    <2>2. CASE w \in done
      BY <1>6, <2>1, <2>2, FinishType DEF Save
    <2>3. CASE w \notin done
      <3>1. NewId \in OrderIds
        BY <1>6, <2>3 DEF Save, IdLeft, NewId, Stored
      <3>2. [call[w] EXCEPT !.order = NewId] \in Call
        BY <2>1, <3>1 DEF Call
      <3>3. /\ pc' \in [Workers -> Steps]
            /\ call' \in [Workers -> Call]
        BY <1>6, <2>3, <3>2, FinishType DEF Save
      <3> QED
        BY <1>6, <2>1, <2>3, <3>1, <3>3 DEF Save
    <2> QED
      BY <2>2, <2>3
  <1>7. ASSUME NEW w \in Workers, UNCHANGED hasMarketClient, GetByID(w)
        PROVE TypeOK'
    BY <1>7, FinishType DEF GetByID
  <1>8. ASSUME NEW w \in Workers, UNCHANGED hasMarketClient, ListByUser(w)
        PROVE TypeOK'
    <2>1. call[w] \in Call
      OBVIOUS
    <2>2. Listed(call[w].user) \in SUBSET OrderIds
      BY DEF Listed, OrdersOf, Stored
    <2>3. [call[w] EXCEPT !.result = Listed(call[w].user)] \in Call
      BY <2>1, <2>2 DEF Call
    <2> QED
      BY <1>8, <2>1, <2>3, FinishType DEF ListByUser
  <1>9. ASSUME NEW w \in Workers, UNCHANGED hasMarketClient, Respond(w)
        PROVE TypeOK'
    <2>1. acked' \in SUBSET OrderIds
      BY <1>9 DEF Respond, AnswerMatchesStore, Succeeded, Stored
    <2> QED
      BY <1>9, <2>1, NoCallType DEF Respond, Steps
  <1>10. ASSUME NEW w \in Workers, UNCHANGED hasMarketClient, Cancel(w)
         PROVE TypeOK'
    BY <1>10 DEF Cancel
  <1>11. CASE UNCHANGED vars
    BY <1>11 DEF vars
  <1> QED
    BY <1>1, <1>2, <1>3, <1>4, <1>5, <1>6, <1>7, <1>8, <1>9, <1>10, <1>11
    DEF Next, Receive, Handle

-----------------------------------------------------------------------------
(* A step that stores nothing and takes only calls of worker w to a reply  *)
(* that is no successful creation keeps every answer's match.              *)
LEMMA AnswerKept ==
  ASSUME TypeOK, AnswerMatchesStore, NEW w \in Workers,
         UNCHANGED orders,
         \A v \in Workers \ {w} : pc'[v] = pc[v] /\ call'[v] = call[v],
         pc'[w] = "reply" /\ call'[w].op = "create" =>
           call'[w].code # "OK" /\ call'[w].order = NoOrder
  PROVE  AnswerMatchesStore'
  BY DEF AnswerMatchesStore, Succeeded, Stored

(* Finish changes worker w only, and gives a failed call another code than *)
(* OK.                                                                     *)
LEMMA FinishEffect ==
  ASSUME TypeOK, NEW w \in Workers, NEW c \in Call, NEW err, Finish(w, c, err)
  PROVE  /\ pc'[w] = "reply" /\ call'[w].op = c.op /\ call'[w].order = c.order
         /\ call'[w].user = c.user /\ call'[w].market = c.market
         /\ \A v \in Workers \ {w} : pc'[v] = pc[v] /\ call'[v] = call[v]
         /\ err = "none" => call'[w].code = "OK"
         /\ err # "none" => call'[w].code # "OK"
  <1> DEFINE code == GRPCCode(err)
             d == [c EXCEPT !.code = code]
  <1>1. code \in Codes /\ (err = "none" <=> code = "OK")
    BY CodesType DEF GRPCCode
  <1>2. /\ d.op = c.op /\ d.order = c.order /\ d.user = c.user
        /\ d.market = c.market /\ d.code = code
    BY <1>1 DEF Call
  <1>3. pc' = [pc EXCEPT ![w] = "reply"] /\ call' = [call EXCEPT ![w] = d]
    BY DEF Finish
  <1> HIDE DEF d, code
  <1> QED
    BY <1>1, <1>2, <1>3 DEF TypeOK

(* Every step keeps the match of the answers with the store.               *)
LEMMA AnswerStep ==
  ASSUME TypeOK, InProgressHasNoOrder, AnswerMatchesStore, [Next]_vars
  PROVE  InProgressHasNoOrder' /\ AnswerMatchesStore'
  <1> USE DEF InProgressHasNoOrder
  <1>0. \A w \in Workers : call[w] \in Call
    BY DEF TypeOK
  <1>1. ASSUME NEW w \in Workers, CreateOrder(w)
        PROVE  InProgressHasNoOrder' /\ AnswerMatchesStore'
    <2>1. \A v \in Workers \ {w} : pc'[v] = pc[v] /\ call'[v] = call[v]
      BY <1>1 DEF CreateOrder, TypeOK
    <2>2. /\ call'[w].op = "create" /\ call'[w].order = NoOrder
          /\ pc'[w] = "reply" => call'[w].code # "OK"
      BY <1>1 DEF CreateOrder, TypeOK, NewCall
    <2> QED
      BY <1>1, <2>1, <2>2, AnswerKept DEF CreateOrder
  <1>2. ASSUME NEW w \in Workers, GetOrderStatus(w) \/ ListOrders(w)
        PROVE  InProgressHasNoOrder' /\ AnswerMatchesStore'
    <2>1. \A v \in Workers \ {w} : pc'[v] = pc[v] /\ call'[v] = call[v]
      BY <1>2 DEF GetOrderStatus, ListOrders, TypeOK
    <2>2. ASSUME GetOrderStatus(w)
          PROVE  call'[w].op # "create" /\ pc'[w] \notin {"count", "market", "save"}
      <3>1. NoCall.op = "get" /\ NoCall \in Call
        BY NoCallType DEF NoCall, NewCall
      <3>2. [NoCall EXCEPT !.code = "InvalidArgument"].op = "get"
        BY <3>1 DEF Call
      <3>3. \A id \in OrderIds :
              [NoCall EXCEPT !.order = id, !.seen = acked \cap {id}].op = "get"
        BY <3>1 DEF Call
      <3> QED
        BY <2>2, <3>2, <3>3 DEF GetOrderStatus, TypeOK
    <2>3. ASSUME ListOrders(w)
          PROVE  call'[w].op # "create" /\ pc'[w] \notin {"count", "market", "save"}
      <3>1. NewCall("list", AnyUser, AnyMarket, "Unauthenticated").op = "list"
        BY DEF NewCall
      <3>2. \A u \in Users :
              [NewCall("list", u, AnyMarket, "OK")
                 EXCEPT !.seen = acked \cap OrdersOf(u)].op = "list"
        BY DEF NewCall
      <3> QED
        BY <2>3, <3>1, <3>2 DEF ListOrders, TypeOK
    <2>4. call'[w].op # "create" /\ pc'[w] \notin {"count", "market", "save"}
      BY <1>2, <2>2, <2>3
    <2> QED
      BY <1>2, <2>1, <2>4, AnswerKept DEF GetOrderStatus, ListOrders
  <1>3. ASSUME NEW w \in Workers, CountByUser(w) \/ CheckMarketActive(w)
        PROVE  InProgressHasNoOrder' /\ AnswerMatchesStore'
    <2>1. /\ call[w].op = "create" /\ call[w].order = NoOrder
          /\ UNCHANGED orders
      BY <1>3 DEF CountByUser, CheckMarketActive
    <2>2. CASE pc'[w] = "reply"
      <3>1. \E err : err # "none" /\ Finish(w, call[w], err)
        BY <1>3, <2>2 DEF CountByUser, CheckMarketActive, TypeOK
      <3> QED
        BY <1>0, <2>1, <2>2, <3>1, FinishEffect, AnswerKept
    <2>3. CASE pc'[w] # "reply"
      <3>1. /\ call'[w].op = "create" /\ call'[w].order = NoOrder
            /\ \A v \in Workers \ {w} : pc'[v] = pc[v] /\ call'[v] = call[v]
        BY <1>0, <1>3, <2>1, <2>3, FinishEffect
        DEF CountByUser, CheckMarketActive, TypeOK, Call
      <3> QED
        BY <2>1, <2>3, <3>1, AnswerKept
    <2> QED
      BY <2>2, <2>3
  <1>4. ASSUME NEW w \in Workers, Save(w)
        PROVE  InProgressHasNoOrder' /\ AnswerMatchesStore'
    <2>1. call[w].op = "create" /\ call[w].order = NoOrder
      BY <1>4 DEF Save
    <2>2. CASE w \in done
      BY <1>0, <1>4, <2>1, <2>2, FinishEffect, AnswerKept DEF Save
    <2>3. CASE w \notin done
      <3> DEFINE o == [user |-> call[w].user, market |-> call[w].market]
                 c == [call[w] EXCEPT !.order = NewId]
      <3>1. NewId \in OrderIds /\ NewId \notin Stored
        BY <1>4, <2>3 DEF Save, IdLeft, NewId, Stored
      <3>2. o \in Order /\ o # NoOrder
        BY <1>0, OrderServiceAssumption DEF Order, Call
      <3>3. orders' = [orders EXCEPT ![NewId] = o] /\ Finish(w, c, "none")
        BY <1>4, <2>3 DEF Save
      <3>4. c \in Call /\ c.op = "create" /\ c.order = NewId
            /\ c.user = call[w].user /\ c.market = call[w].market
        BY <1>0, <2>1, <3>1 DEF Call
      <3> HIDE DEF c
      <3>5. /\ pc'[w] = "reply" /\ call'[w].code = "OK"
            /\ call'[w].op = "create" /\ call'[w].order = NewId
            /\ call'[w].user = call[w].user /\ call'[w].market = call[w].market
            /\ \A v \in Workers \ {w} : pc'[v] = pc[v] /\ call'[v] = call[v]
        BY <3>3, <3>4, FinishEffect
      <3>6. /\ orders'[NewId] = o
            /\ \A id \in OrderIds \ {NewId} : orders'[id] = orders[id]
        BY <3>1, <3>3 DEF TypeOK
      <3>7. Stored' = Stored \cup {NewId}
        BY <3>1, <3>2, <3>6 DEF Stored
      <3>8. \A v \in Workers \ {w} : Succeeded(v)' <=> Succeeded(v)
        BY <3>5 DEF Succeeded
      <3>9. Succeeded(w)'
        BY <3>5 DEF Succeeded
      <3> HIDE DEF o
      <3>10. InProgressHasNoOrder'
        BY <3>5
      <3>11. AnswerMatchesStore'
        <4>1. ASSUME NEW v \in Workers, Succeeded(v)'
              PROVE  /\ call'[v].order \in Stored'
                     /\ orders'[call'[v].order] =
                          [user |-> call'[v].user, market |-> call'[v].market]
                     /\ v # w => call'[v].order # NewId
          <5>1. CASE v = w
            BY <5>1, <3>5, <3>6, <3>7 DEF o
          <5>2. CASE v # w
            <6>1. Succeeded(v) /\ call'[v] = call[v]
              BY <4>1, <5>2, <3>5, <3>8
            <6>2. call[v].order \in Stored /\ call[v].order # NewId
              BY <6>1, <3>1 DEF AnswerMatchesStore
            <6> QED
              BY <6>1, <6>2, <3>6, <3>7 DEF AnswerMatchesStore, Stored
          <5> QED
            BY <5>1, <5>2
        <4>2. ASSUME NEW v \in Workers, pc'[v] = "reply", call'[v].op = "create",
                     ~Succeeded(v)'
              PROVE  call'[v].order = NoOrder
          BY <4>2, <3>5, <3>8, <3>9 DEF AnswerMatchesStore
        <4>3. ASSUME NEW v \in Workers, NEW x \in Workers, Succeeded(v)', Succeeded(x)',
                     call'[v].order = call'[x].order
              PROVE  v = x
          <5>1. CASE v = w \/ x = w
            BY <4>1, <4>3, <5>1, <3>5
          <5>2. CASE v # w /\ x # w
            BY <4>3, <5>2, <3>5, <3>8 DEF AnswerMatchesStore
          <5> QED
            BY <5>1, <5>2
        <4> QED
          BY <4>1, <4>2, <4>3 DEF AnswerMatchesStore
      <3> QED
        BY <3>10, <3>11
    <2> QED
      BY <2>2, <2>3
  <1>5. ASSUME NEW w \in Workers, GetByID(w)
        PROVE  InProgressHasNoOrder' /\ AnswerMatchesStore'
    BY <1>0, <1>5, FinishEffect, AnswerKept DEF GetByID
  <1>6. ASSUME NEW w \in Workers, ListByUser(w)
        PROVE  InProgressHasNoOrder' /\ AnswerMatchesStore'
    <2> DEFINE c == [call[w] EXCEPT !.result = Listed(call[w].user)]
    <2>1. c \in Call /\ c.op = "list"
      BY <1>0, <1>6 DEF Call, Listed, OrdersOf, Stored, ListByUser
    <2>2. \E d \in {call[w], c}, err \in {"context", "none"} : Finish(w, d, err)
      BY <1>6 DEF ListByUser
    <2>3. UNCHANGED orders /\ call[w].op = "list"
      BY <1>6 DEF ListByUser
    <2> HIDE DEF c
    <2> QED
      BY <1>0, <2>1, <2>2, <2>3, FinishEffect, AnswerKept
  <1>7. ASSUME NEW w \in Workers, Respond(w)
        PROVE  InProgressHasNoOrder' /\ AnswerMatchesStore'
    <2>1. /\ pc'[w] = "idle" /\ UNCHANGED orders
          /\ \A v \in Workers \ {w} : pc'[v] = pc[v] /\ call'[v] = call[v]
      BY <1>7 DEF Respond, TypeOK
    <2> QED
      BY <2>1, AnswerKept
  <1>8. ASSUME NEW w \in Workers, Cancel(w)
        PROVE  InProgressHasNoOrder' /\ AnswerMatchesStore'
    BY <1>8 DEF Cancel, AnswerMatchesStore, Succeeded, Stored
  <1>9. CASE UNCHANGED vars
    BY <1>9 DEF vars, AnswerMatchesStore, Succeeded, Stored
  <1> QED
    BY <1>1, <1>2, <1>3, <1>4, <1>5, <1>6, <1>7, <1>8, <1>9
    DEF Next, Receive, Handle

(* The inductive invariant: the types, and what a creation holds on its    *)
(* way and when it is answered.                                            *)
AnswerInv == TypeOK /\ InProgressHasNoOrder /\ AnswerMatchesStore

LEMMA AnswerInvHolds == Spec => []AnswerInv
  <1>1. Init => AnswerInv
    <2> SUFFICES ASSUME Init PROVE AnswerInv
      OBVIOUS
    <2>1. TypeOK
      BY NoCallType DEF Init, TypeOK, Steps
    <2>2. InProgressHasNoOrder /\ AnswerMatchesStore
      BY DEF Init, InProgressHasNoOrder, AnswerMatchesStore, Succeeded
    <2> QED
      BY <2>1, <2>2 DEF AnswerInv
  <1>2. AnswerInv /\ [Next]_vars => AnswerInv'
    BY TypeStep, AnswerStep DEF AnswerInv
  <1> QED
    BY <1>1, <1>2, PTL DEF Spec

(* The state of the order service keeps its types in every behaviour.      *)
THEOREM TypeCorrect == Spec => []TypeOK
  BY AnswerInvHolds, PTL DEF AnswerInv

(* An error answer to CreateOrder means nothing was saved, and an OK one   *)
(* names an order that is stored, is the call's own, and is no other       *)
(* call's.                                                                 *)
THEOREM AnswersCorrect == Spec => []AnswerMatchesStore
  BY AnswerInvHolds, PTL DEF AnswerInv

-----------------------------------------------------------------------------
(* Only finitely many orders are ever stored, so they can be counted even  *)
(* when the supply of uuids is taken to be infinite.                       *)
CountInv == IsFiniteSet(Stored) /\ OvershootBudget

LEMMA FiniteParts ==
  ASSUME IsFiniteSet(Stored), NEW u \in Users
  PROVE  /\ IsFiniteSet(OrdersOf(u)) /\ Cardinality(OrdersOf(u)) \in Nat
         /\ IsFiniteSet(PastTheCount(u)) /\ Cardinality(PastTheCount(u)) \in Nat
         /\ Cardinality(PastTheCount(u)) <= Cardinality(Workers)
         /\ Cardinality(Workers) \in Nat
  <1>1. OrdersOf(u) \in SUBSET Stored
    BY DEF OrdersOf
  <1>2. PastTheCount(u) \in SUBSET Workers
    BY DEF PastTheCount
  <1>3. IsFiniteSet(Workers)
    BY OrderServiceAssumption
  <1> QED
    BY <1>1, <1>2, <1>3, FS_Subset, FS_CardinalityType

(* A step that stores nothing and lets no further call past the count      *)
(* keeps within the budget.                                                *)
LEMMA BudgetKept ==
  ASSUME TypeOK, CountInv, UNCHANGED orders,
         \A u \in Users : PastTheCount(u)' \subseteq PastTheCount(u)
  PROVE  CountInv'
  <1>1. Stored' = Stored /\ \A u \in Users : OrdersOf(u)' = OrdersOf(u)
    BY DEF Stored, OrdersOf
  <1>2. ASSUME NEW u \in Users
        PROVE  Cardinality(PastTheCount(u)') <= Cardinality(PastTheCount(u))
    BY <1>2, FiniteParts, FS_Subset DEF CountInv
  <1>3. ASSUME NEW u \in Users
        PROVE  Cardinality(PastTheCount(u)') \in Nat
    BY <1>3, FiniteParts, FS_Subset, FS_CardinalityType DEF CountInv
  <1> QED
    BY <1>1, <1>2, <1>3, FiniteParts, OrderServiceAssumption
    DEF CountInv, OvershootBudget

(* Every step keeps within the budget: a count lets a call past only while *)
(* the user has room, whoever else is past it, and a write moves its call  *)
(* from the one term to the other.                                         *)
LEMMA BudgetStep ==
  ASSUME TypeOK, CountInv, [Next]_vars
  PROVE  CountInv'
  <1>0. \A w \in Workers : call[w] \in Call
    BY DEF TypeOK
  <1>1. ASSUME NEW w \in Workers, CountByUser(w)
        PROVE  CountInv'
    <2> DEFINE x == call[w].user
    <2>1. x \in Users
      BY <1>0 DEF Call
    <2>2. CASE pc'[w] = "reply"
      <3>1. \E err : Finish(w, call[w], err)
        BY <1>1, <2>2 DEF CountByUser, TypeOK
      <3>2. \A v \in Workers \ {w} : pc'[v] = pc[v] /\ call'[v] = call[v]
        BY <1>0, <3>1, FinishEffect
      <3> QED
        BY <1>1, <2>2, <3>2, BudgetKept DEF CountByUser, PastTheCount
    <2>3. CASE pc'[w] # "reply"
      <3>1. ~AtLimit(x) /\ UNCHANGED <<call, orders>>
            /\ \A v \in Workers \ {w} : pc'[v] = pc[v]
        BY <1>0, <1>1, <2>3, FinishEffect DEF CountByUser, TypeOK
      <3>2. Stored' = Stored /\ \A u \in Users : OrdersOf(u)' = OrdersOf(u)
        BY <3>1 DEF Stored, OrdersOf
      <3>3. IsFiniteSet(Stored')
        BY <3>2 DEF CountInv
      <3>4. \A u \in Users : Cardinality(PastTheCount(u)') \in Nat
                           /\ Cardinality(PastTheCount(u)') <= Cardinality(Workers)
        <4>1. \A u \in Users : PastTheCount(u)' \in SUBSET Workers
          BY DEF PastTheCount
        <4> QED
          BY <4>1, OrderServiceAssumption, FS_Subset, FS_CardinalityType
      <3>5. ASSUME NEW u \in Users
            PROVE  Cardinality(OrdersOf(u)') + Cardinality(PastTheCount(u)')
                     <= MaxOpenOrdersPerUser - 1 + Cardinality(Workers)
        <4>1. CASE u = x
          <5>1. Cardinality(OrdersOf(u)) < MaxOpenOrdersPerUser
            BY <3>1, <4>1, FiniteParts, OrderServiceAssumption DEF AtLimit, CountInv
          <5> QED
            BY <5>1, <3>2, <3>4, FiniteParts, OrderServiceAssumption DEF CountInv
        <4>2. CASE u # x
          <5>1. PastTheCount(u)' \in SUBSET PastTheCount(u)
            BY <3>1, <4>2 DEF PastTheCount
          <5>2. Cardinality(PastTheCount(u)') <= Cardinality(PastTheCount(u))
            BY <5>1, FiniteParts, FS_Subset DEF CountInv
          <5> QED
            BY <5>2, <3>2, <3>4, FiniteParts, OrderServiceAssumption
            DEF CountInv, OvershootBudget
        <4> QED
          BY <4>1, <4>2
      <3> QED
        BY <3>3, <3>5 DEF CountInv, OvershootBudget
    <2> QED
      BY <2>2, <2>3
  <1>2. ASSUME NEW w \in Workers, Save(w)
        PROVE  CountInv'
    <2>1. CASE w \in done
      <3>1. UNCHANGED orders /\ Finish(w, call[w], "context")
        BY <1>2, <2>1 DEF Save
      <3>2. /\ \A v \in Workers \ {w} : pc'[v] = pc[v] /\ call'[v] = call[v]
            /\ pc'[w] = "reply"
        BY <1>0, <3>1, FinishEffect
      <3> QED
        BY <3>1, <3>2, BudgetKept DEF PastTheCount
    <2>2. CASE w \notin done
      <3>0. PICK x \in Users : x = call[w].user
        BY <1>0 DEF Call
      <3> DEFINE o == [user |-> call[w].user, market |-> call[w].market]
                 c == [call[w] EXCEPT !.order = NewId]
      <3>1. x \in Users /\ o \in Order /\ o # NoOrder /\ o.user = x
        BY <1>0, <3>0, OrderServiceAssumption DEF Order, Call
      <3>2. NewId \in OrderIds /\ NewId \notin Stored
        BY <1>2, <2>2 DEF Save, IdLeft, NewId, Stored
      <3>3. orders' = [orders EXCEPT ![NewId] = o] /\ Finish(w, c, "none") /\ pc[w] = "save"
        BY <1>2, <2>2 DEF Save
      <3>4. c \in Call /\ c.user = x
        BY <1>0, <3>0, <3>2 DEF Call
      <3> HIDE DEF c
      <3>5. /\ \A v \in Workers \ {w} : pc'[v] = pc[v] /\ call'[v] = call[v]
            /\ pc'[w] = "reply"
        BY <3>3, <3>4, FinishEffect
      <3> HIDE DEF o
      <3>5a. \A id \in OrderIds : orders'[id] = IF id = NewId THEN o ELSE orders[id]
        BY <3>2, <3>3 DEF TypeOK
      <3>6. Stored' = Stored \cup {NewId}
        BY <3>1, <3>2, <3>5a DEF Stored
      <3>7. OrdersOf(x)' = OrdersOf(x) \cup {NewId} /\ NewId \notin OrdersOf(x)
        BY <3>1, <3>2, <3>6, <3>5a DEF OrdersOf, Stored
      <3>8. \A u \in Users \ {x} : OrdersOf(u)' = OrdersOf(u)
        BY <3>1, <3>2, <3>6, <3>5a DEF OrdersOf, Stored
      <3>9. PastTheCount(x)' = PastTheCount(x) \ {w} /\ w \in PastTheCount(x)
        BY <3>0, <3>3, <3>5 DEF PastTheCount
      <3>10. \A u \in Users \ {x} : PastTheCount(u)' = PastTheCount(u)
        BY <3>0, <3>3, <3>5 DEF PastTheCount
      <3>11. IsFiniteSet(Stored')
        BY <3>6, FS_AddElement DEF CountInv
      <3>12. ASSUME NEW u \in Users
             PROVE  Cardinality(OrdersOf(u)') + Cardinality(PastTheCount(u)')
                      <= MaxOpenOrdersPerUser - 1 + Cardinality(Workers)
        <4>1. CASE u = x
          <5>1. Cardinality(OrdersOf(x)') = Cardinality(OrdersOf(x)) + 1
            <6>1. IsFiniteSet(OrdersOf(x))
              BY <3>1, FiniteParts DEF CountInv
            <6>2. Cardinality(OrdersOf(x) \cup {NewId}) = Cardinality(OrdersOf(x)) + 1
              BY <3>7, <6>1, FS_AddElement
            <6> QED
              BY <3>7, <6>2
          <5>2. Cardinality(PastTheCount(x)') = Cardinality(PastTheCount(x)) - 1
            <6>1. IsFiniteSet(PastTheCount(x))
              BY <3>1, FiniteParts DEF CountInv
            <6>2. Cardinality(PastTheCount(x) \ {w}) = Cardinality(PastTheCount(x)) - 1
              BY <3>9, <6>1, FS_RemoveElement
            <6> QED
              BY <3>9, <6>2
          <5>3. Cardinality(OrdersOf(x)) \in Nat /\ Cardinality(PastTheCount(x)) \in Nat
                /\ Cardinality(OrdersOf(x)) + Cardinality(PastTheCount(x))
                      <= MaxOpenOrdersPerUser - 1 + Cardinality(Workers)
            BY <3>1, FiniteParts DEF CountInv, OvershootBudget
          <5>4. MaxOpenOrdersPerUser \in Nat /\ Cardinality(Workers) \in Nat
            BY <3>1, FiniteParts, OrderServiceAssumption DEF CountInv
          <5>5. Cardinality(OrdersOf(x)') + Cardinality(PastTheCount(x)')
                  <= MaxOpenOrdersPerUser - 1 + Cardinality(Workers)
            BY <5>1, <5>2, <5>3, <5>4
          <5> QED
            BY <4>1, <5>5
        <4>2. CASE u # x
          BY <4>2, <3>8, <3>10 DEF CountInv, OvershootBudget
        <4> QED
          BY <4>1, <4>2
      <3> QED
        BY <3>11, <3>12 DEF CountInv, OvershootBudget
    <2> QED
      BY <2>1, <2>2
  <1>3. ASSUME NEW w \in Workers, CheckMarketActive(w)
        PROVE  CountInv'
    <2>1. /\ \A v \in Workers \ {w} : pc'[v] = pc[v] /\ call'[v] = call[v]
          /\ pc'[w] \in {"save", "reply"} /\ call'[w].user = call[w].user
      BY <1>0, <1>3, FinishEffect DEF CheckMarketActive, TypeOK, Call
    <2> QED
      BY <1>3, <2>1, BudgetKept DEF CheckMarketActive, PastTheCount
  <1>4. ASSUME NEW w \in Workers, Receive(w)
        PROVE  CountInv'
    <2>1. /\ \A v \in Workers \ {w} : pc'[v] = pc[v] /\ call'[v] = call[v]
          /\ pc'[w] \in {"count", "read", "reply"}
      BY <1>4 DEF Receive, CreateOrder, GetOrderStatus, ListOrders, TypeOK
    <2> QED
      BY <1>4, <2>1, BudgetKept
      DEF Receive, CreateOrder, GetOrderStatus, ListOrders, PastTheCount
  <1>5. ASSUME NEW w \in Workers, GetByID(w) \/ ListByUser(w) \/ Respond(w)
        PROVE  CountInv'
    <2>1. /\ \A v \in Workers \ {w} : pc'[v] = pc[v] /\ call'[v] = call[v]
          /\ pc'[w] \in {"idle", "reply"}
      BY <1>5 DEF GetByID, ListByUser, Respond, Finish, TypeOK
    <2> QED
      BY <1>5, <2>1, BudgetKept DEF GetByID, ListByUser, Respond, PastTheCount
  <1>6. CASE UNCHANGED <<orders, pc, call>>
    BY <1>6, BudgetKept DEF PastTheCount
  <1> QED
    BY <1>1, <1>2, <1>3, <1>4, <1>5, <1>6 DEF Next, Handle, Cancel, vars

LEMMA BudgetHolds == Spec => [](TypeOK /\ CountInv)
  <1>1. Init => CountInv
    <2> SUFFICES ASSUME Init PROVE CountInv
      OBVIOUS
    <2>1. Stored = {} /\ \A u \in Users : OrdersOf(u) = {} /\ PastTheCount(u) = {}
      BY DEF Init, Stored, OrdersOf, PastTheCount
    <2>2. Cardinality(Workers) \in Nat
      BY OrderServiceAssumption, FS_CardinalityType
    <2> QED
      BY <2>1, <2>2, FS_EmptySet, OrderServiceAssumption DEF CountInv, OvershootBudget
  <1>2. TypeOK /\ CountInv /\ [Next]_vars => CountInv'
    BY BudgetStep
  <1> QED
    BY <1>1, <1>2, TypeCorrect, PTL DEF Spec

(* A user's orders never exceed the limit less one plus one for every call *)
(* that can be in progress at once: the check-then-save of CreateOrder     *)
(* loses the limit, but only by the number of concurrent calls.            *)
THEOREM LimitOvershootBounded == Spec => []LimitOvershoot
  <1>1. TypeOK /\ CountInv => LimitOvershoot
    BY FiniteParts, OrderServiceAssumption DEF CountInv, OvershootBudget, LimitOvershoot
  <1> QED
    BY <1>1, BudgetHolds, PTL

(* Calls that come one at a time keep the limit: what a test that makes    *)
(* its calls in turn sees is right, and only concurrency overruns it.      *)
THEOREM LimitHoldsForOne ==
  ASSUME Cardinality(Workers) = 1
  PROVE  Spec => []StrictLimit
  <1>1. TypeOK /\ LimitOvershoot => StrictLimit
    <2>1. MaxOpenOrdersPerUser - 1 + Cardinality(Workers) = MaxOpenOrdersPerUser
      BY OrderServiceAssumption
    <2> QED
      BY <2>1 DEF LimitOvershoot, StrictLimit
  <1> QED
    BY <1>1, LimitOvershootBounded, TypeCorrect, PTL

-----------------------------------------------------------------------------
(* No step changes, replaces or removes an order that is stored.           *)
LEMMA StoredStep ==
  ASSUME TypeOK, [Next]_vars, NEW id \in Stored
  PROVE  orders'[id] = orders[id] /\ id \in Stored'
  <1>1. ASSUME NEW w \in Workers, Save(w)
        PROVE  orders'[id] = orders[id]
    <2>1. CASE w \in done
      BY <1>1, <2>1 DEF Save
    <2>2. CASE w \notin done
      <3>1. NewId \notin Stored
        BY <1>1, <2>2 DEF Save, IdLeft, NewId, Stored
      <3>2. \E o : orders' = [orders EXCEPT ![NewId] = o]
        BY <1>1, <2>2 DEF Save
      <3> QED
        BY <3>1, <3>2 DEF Stored, TypeOK
    <2> QED
      BY <2>1, <2>2
  <1>2. ASSUME UNCHANGED orders
        PROVE  orders'[id] = orders[id]
    BY <1>2
  <1>3. orders'[id] = orders[id]
    BY <1>1, <1>2
    DEF Next, Receive, Handle, CreateOrder, GetOrderStatus, ListOrders, CountByUser,
        CheckMarketActive, GetByID, ListByUser, Respond, Cancel, vars
  <1> QED
    BY <1>3 DEF Stored

(* An order that is stored stays as it is.                                 *)
THEOREM OrdersStoredForGood == Spec => StoredForGood
  <1>1. TypeOK /\ [Next]_vars => [\A id \in Stored : orders'[id] = orders[id]]_vars
    BY StoredStep
  <1> QED
    BY <1>1, TypeCorrect, PTL DEF Spec, StoredForGood

LEMMA OrdersOfGrow ==
  ASSUME TypeOK, [Next]_vars, NEW u
  PROVE  OrdersOf(u) \subseteq OrdersOf(u)'
  BY StoredStep DEF OrdersOf

(* A step of one call leaves the other calls, and their contexts, alone.   *)
LEMMA OneCall ==
  ASSUME TypeOK, NEW w \in Workers, Receive(w) \/ Handle(w)
  PROVE  /\ \A v \in Workers \ {w} : pc'[v] = pc[v] /\ call'[v] = call[v]
         /\ \A v \in Workers \ {w} : v \in done <=> v \in done'
  <1>0. call[w] \in Call
    BY DEF TypeOK
  <1>1. CASE Receive(w)
    BY <1>1 DEF Receive, CreateOrder, GetOrderStatus, ListOrders, TypeOK
  <1>2. CASE CountByUser(w) \/ CheckMarketActive(w) \/ Save(w) \/ GetByID(w) \/ ListByUser(w)
    BY <1>2 DEF CountByUser, CheckMarketActive, Save, GetByID, ListByUser, Finish, TypeOK
  <1>3. CASE Respond(w)
    BY <1>3 DEF Respond, TypeOK
  <1> QED
    BY <1>1, <1>2, <1>3 DEF Handle

-----------------------------------------------------------------------------
(* The limit is the only reason to answer ResourceExhausted.               *)
LEMMA RefusalCode ==
  ASSUME NEW err, GRPCCode(err) = "ResourceExhausted"
  PROVE  err = "service.ErrTooManyOrders"
  BY DEF GRPCCode

LEMMA RefusalStep ==
  ASSUME TypeOK, TypeOK', CountInv, CountInv', RefusedOnlyAtLimit, [Next]_vars
  PROVE  RefusedOnlyAtLimit'
  <1> DEFINE Refused(w) == pc[w] = "reply" /\ call[w].code = "ResourceExhausted"
             Full(u) == Cardinality(OrdersOf(u)) >= MaxOpenOrdersPerUser
  <1>1. \A w \in Workers : call[w] \in Call /\ call'[w] \in Call
    BY DEF TypeOK
  <1>2. ASSUME NEW u \in Users, Full(u) PROVE Full(u)'
    <2>1. IsFiniteSet(Stored') /\ OrdersOf(u)' \subseteq Stored'
      BY DEF CountInv, OrdersOf
    <2>2. IsFiniteSet(OrdersOf(u)')
      BY <2>1, FS_Subset
    <2>3. /\ Cardinality(OrdersOf(u)) <= Cardinality(OrdersOf(u)')
          /\ Cardinality(OrdersOf(u)) \in Nat /\ Cardinality(OrdersOf(u)') \in Nat
      BY <2>2, OrdersOfGrow, FS_Subset, FS_CardinalityType
    <2> QED
      BY <1>2, <2>3, OrderServiceAssumption
  <1>3. ASSUME NEW w \in Workers, NEW c \in Call, NEW err, Finish(w, c, err),
               err # "service.ErrTooManyOrders"
        PROVE  ~Refused(w)'
    <2>1. GRPCCode(err) \in Codes /\ GRPCCode(err) # "ResourceExhausted"
      BY <1>3, CodesType, RefusalCode
    <2>2. call'[w] = [c EXCEPT !.code = GRPCCode(err)]
      BY <1>3 DEF Finish, TypeOK
    <2> HIDE DEF Full
    <2> QED
      BY <2>1, <2>2 DEF Call
  <1>4. ASSUME NEW w \in Workers, Receive(w) PROVE ~Refused(w)'
    <2>1. CASE CreateOrder(w)
      BY <2>1 DEF CreateOrder, CreateVerdict, NewCall, TypeOK
    <2>2. CASE GetOrderStatus(w)
      <3>1. [NoCall EXCEPT !.code = "InvalidArgument"].code = "InvalidArgument"
        BY NoCallType DEF Call
      <3> QED
        BY <2>2, <3>1 DEF GetOrderStatus, TypeOK
    <2>3. CASE ListOrders(w)
      <3>1. CASE pc' = [pc EXCEPT ![w] = "read"]
        BY <3>1 DEF TypeOK
      <3>2. CASE call' = [call EXCEPT ![w] = NewCall("list", AnyUser, AnyMarket, "Unauthenticated")]
        BY <3>2 DEF NewCall, TypeOK
      <3> QED
        BY <2>3, <3>1, <3>2 DEF ListOrders
    <2> QED
      BY <1>4, <2>1, <2>2, <2>3 DEF Receive
  <1>5. ASSUME NEW w \in Workers, CountByUser(w), Refused(w)'
        PROVE  Full(call[w].user) /\ call'[w].user = call[w].user
    <2>1. CASE Finish(w, call[w], "service.ErrTooManyOrders") /\ AtLimit(call[w].user)
      BY <1>1, <2>1, FinishEffect DEF AtLimit
    <2>2. CASE Finish(w, call[w], "context")
      BY <1>1, <1>3, <1>5, <2>2
    <2>3. CASE pc' = [pc EXCEPT ![w] = IF hasMarketClient THEN "market" ELSE "save"]
      BY <1>5, <2>3 DEF TypeOK
    <2> QED
      BY <1>5, <2>1, <2>2, <2>3 DEF CountByUser
  <1>6. ASSUME NEW w \in Workers, CheckMarketActive(w) \/ Save(w) PROVE ~Refused(w)'
    <2>1. CASE \E err \in {"context", "service.ErrInvalidMarket"} : Finish(w, call[w], err)
      BY <1>1, <1>3, <2>1
    <2>2. CASE Save(w) /\ w \notin done
      <3>1. NewId \in OrderIds
        BY <2>2 DEF Save, IdLeft, NewId, Stored
      <3>2. [call[w] EXCEPT !.order = NewId] \in Call
        BY <1>1, <3>1 DEF Call
      <3> QED
        BY <1>3, <2>2, <3>2 DEF Save
    <2>3. CASE pc' = [pc EXCEPT ![w] = "save"]
      BY <2>3 DEF TypeOK
    <2> QED
      BY <1>6, <2>1, <2>2, <2>3 DEF CheckMarketActive, Save
  <1>7. ASSUME NEW w \in Workers, GetByID(w) \/ ListByUser(w) PROVE ~Refused(w)'
    <2>1. CASE GetByID(w)
      BY <1>1, <1>3, <2>1 DEF GetByID
    <2>2. CASE ListByUser(w)
      <3>1. [call[w] EXCEPT !.result = Listed(call[w].user)] \in Call
        BY <1>1 DEF Call, Listed, OrdersOf, Stored
      <3> QED
        BY <1>1, <1>3, <2>2, <3>1 DEF ListByUser
    <2> QED
      BY <1>7, <2>1, <2>2
  <1>8. ASSUME NEW w \in Workers, Respond(w) PROVE ~Refused(w)'
    BY <1>8 DEF Respond, TypeOK
  <1>9. ASSUME NEW v \in Workers, Refused(v)', NEW u \in Users, call'[v].user = u
        PROVE  Full(u)'
    <2>1. ASSUME pc'[v] = pc[v], call'[v] = call[v] PROVE Full(u)'
      BY <1>2, <1>9, <2>1 DEF RefusedOnlyAtLimit
    <2>2. ASSUME NEW w \in Workers, Receive(w) \/ Handle(w) PROVE Full(u)'
      <3>1. CASE v # w
        BY <2>1, <2>2, <3>1, OneCall
      <3>2. CASE v = w
        <4>1. CountByUser(w)
          BY <1>4, <1>6, <1>7, <1>8, <1>9, <2>2, <3>2 DEF Handle
        <4>2. Full(u)
          BY <1>5, <1>9, <3>2, <4>1
        <4> QED
          BY <1>2, <4>2
      <3> QED
        BY <3>1, <3>2
    <2>3. CASE UNCHANGED <<pc, call>>
      BY <2>1, <2>3
    <2> QED
      BY <2>2, <2>3 DEF Next, Cancel, vars
  <1>10. \A w \in Workers : call'[w].user \in Users
    BY <1>1 DEF Call
  <1> QED
    BY <1>9, <1>10 DEF RefusedOnlyAtLimit

(* A call is refused for the limit only when its user is at it, and still  *)
(* is when the answer is sent.                                             *)
THEOREM RefusalsAreRight == Spec => []RefusedOnlyAtLimit
  <1>1. Init => RefusedOnlyAtLimit
    BY DEF Init, RefusedOnlyAtLimit
  <1>2. /\ TypeOK /\ CountInv /\ (TypeOK /\ CountInv)' /\ RefusedOnlyAtLimit /\ [Next]_vars
        => RefusedOnlyAtLimit'
    BY RefusalStep
  <1> QED
    BY <1>1, <1>2, BudgetHolds, PTL DEF Spec
-----------------------------------------------------------------------------
(* A call gets to its Save with an answer of the market check, or the news *)
(* that there is none; and only a CreateOrder is on that way.              *)
CheckInv ==
  \A w \in Workers :
    /\ pc[w] = "save" /\ hasMarketClient /\ call[w].market \notin ActiveMarkets
         => call[w].checkFailed
    /\ pc[w] \in {"idle", "read"} => call[w].op # "create"

LEMMA CheckStep ==
  ASSUME TypeOK, CheckInv, [Next]_vars
  PROVE  CheckInv'
  <1> USE DEF CheckInv
  <1>0. UNCHANGED hasMarketClient /\ \A w \in Workers : call[w] \in Call
    BY DEF Next, vars, TypeOK
  <1>1. ASSUME NEW w \in Workers, Receive(w)
        PROVE  pc'[w] # "save" /\ (pc'[w] \in {"idle", "read"} => call'[w].op # "create")
    <2>1. CASE CreateOrder(w)
      BY <2>1 DEF CreateOrder, TypeOK
    <2>2. CASE GetOrderStatus(w)
      <3>1. NoCall \in Call /\ NoCall.op = "get"
        BY NoCallType DEF NoCall, NewCall
      <3>2. \A id \in OrderIds :
              [NoCall EXCEPT !.order = id, !.seen = acked \cap {id}].op = "get"
        BY <3>1 DEF Call
      <3> QED
        BY <2>2, <3>2 DEF GetOrderStatus, TypeOK
    <2>3. CASE ListOrders(w)
      <3>1. \A u \in Users :
              [NewCall("list", u, AnyMarket, "OK") EXCEPT !.seen = acked \cap OrdersOf(u)].op = "list"
        BY DEF NewCall
      <3> QED
        BY <2>3, <3>1 DEF ListOrders, TypeOK
    <2> QED
      BY <1>1, <2>1, <2>2, <2>3 DEF Receive
  <1>2. ASSUME NEW w \in Workers, CountByUser(w) \/ CheckMarketActive(w)
        PROVE  /\ pc'[w] \notin {"idle", "read"}
               /\ pc'[w] = "save" /\ hasMarketClient /\ call'[w].market \notin ActiveMarkets
                    => call'[w].checkFailed
    <2>1. CASE CountByUser(w)
      BY <2>1 DEF CountByUser, Finish, TypeOK
    <2>2. CASE CheckMarketActive(w)
      BY <1>0, <2>2 DEF CheckMarketActive, Finish, TypeOK, Call
    <2> QED
      BY <1>2, <2>1, <2>2
  <1>3. ASSUME NEW w \in Workers, Save(w) \/ GetByID(w) \/ ListByUser(w)
        PROVE  pc'[w] = "reply"
    BY <1>3 DEF Save, GetByID, ListByUser, Finish, TypeOK
  <1>4. ASSUME NEW w \in Workers, Respond(w)
        PROVE  pc'[w] = "idle" /\ call'[w].op = "get"
    BY <1>4, NoCallType DEF Respond, NoCall, NewCall, TypeOK
  <1>5. ASSUME NEW w \in Workers, Receive(w) \/ Handle(w)
        PROVE  CheckInv'
    BY <1>0, <1>1, <1>2, <1>3, <1>4, <1>5, OneCall DEF Handle
  <1>6. CASE UNCHANGED <<pc, call>>
    BY <1>0, <1>6
  <1> QED
    BY <1>5, <1>6 DEF Next, Cancel, vars

(* An order for a market that is not active is stored only by a call whose *)
(* market check failed.                                                    *)
THEOREM InactiveMarketsUnchecked == Spec => InactiveOnlyUnchecked
  <1>1. Init => CheckInv
    <2>1. NoCall.op = "get"
      BY DEF NoCall, NewCall
    <2> QED
      BY <2>1 DEF Init, CheckInv
  <1>2. TypeOK /\ CheckInv /\ [Next]_vars => CheckInv'
    BY CheckStep
  <1>3. ASSUME AnswerInv, CheckInv, [Next]_vars, NEW w \in Workers,
               hasMarketClient, call[w].op = "create", call'[w].order \in Stored' \ Stored,
               call[w].market \notin ActiveMarkets
        PROVE  call[w].checkFailed
    <2>1. ~UNCHANGED orders
      BY <1>3 DEF Stored
    <2>2. PICK x \in Workers : Save(x)
      BY <1>3, <2>1
      DEF Next, Receive, Handle, CreateOrder, GetOrderStatus, ListOrders, CountByUser,
          CheckMarketActive, GetByID, ListByUser, Respond, Cancel, vars
    <2>3. CASE x = w
      BY <1>3, <2>2, <2>3 DEF CheckInv, Save
    <2>4. CASE x # w
      <3>1. call'[w] = call[w]
        BY <1>3, <2>2, <2>4, OneCall DEF AnswerInv, Handle
      <3>2. pc[w] \in {"count", "market", "save", "reply"}
        BY <1>3 DEF CheckInv, AnswerInv, TypeOK, Steps
      <3>3. call[w].order = NoOrder \/ call[w].order \in Stored
        BY <1>3, <3>2 DEF AnswerInv, InProgressHasNoOrder, AnswerMatchesStore, Succeeded
      <3> QED
        BY <1>3, <3>1, <3>3, OrderServiceAssumption DEF Stored
    <2> QED
      BY <2>3, <2>4
  <1>4. AnswerInv /\ CheckInv /\ [Next]_vars
          => [\A w \in Workers :
                /\ hasMarketClient
                /\ call[w].op = "create" /\ call'[w].order \in Stored' \ Stored
                /\ call[w].market \notin ActiveMarkets
                => call[w].checkFailed]_vars
    BY <1>3
  <1> QED
    BY <1>1, <1>2, <1>4, AnswerInvHolds, TypeCorrect, PTL DEF Spec, InactiveOnlyUnchecked

-----------------------------------------------------------------------------
(* What a read at step p must find is there, and what it answers holds it. *)
ReadFits(p, c, isDone) ==
  /\ p = "read" /\ c.op = "get" => c.seen \subseteq Stored
  /\ p = "read" /\ c.op = "list" => c.seen \subseteq OrdersOf(c.user)
  /\ p = "reply" /\ c.op = "get" /\ c.order \in c.seen => c.code = "OK" \/ isDone
  /\ p = "reply" /\ c.op = "list" /\ c.code = "OK" =>
       c.seen \subseteq c.result /\ c.result \subseteq OrdersOf(c.user)

ReadInv ==
  /\ acked \subseteq Stored
  /\ \A w \in Workers : ReadFits(pc[w], call[w], w \in done)

LEMMA ReadKept ==
  ASSUME TypeOK, ReadInv, [Next]_vars, NEW w \in Workers,
         pc'[w] = pc[w], call'[w] = call[w], w \in done => w \in done'
  PROVE  ReadFits(pc[w], call[w], w \in done)'
  <1>1. ReadFits(pc[w], call[w], w \in done)
    BY DEF ReadInv
  <1>2. Stored \subseteq Stored'
    BY StoredStep
  <1>3. OrdersOf(call[w].user) \subseteq OrdersOf(call[w].user)'
    BY StoredStep DEF OrdersOf
  <1> QED
    BY <1>1, <1>2, <1>3 DEF ReadFits

LEMMA ReadStep ==
  ASSUME AnswerInv, ReadInv, [Next]_vars
  PROVE  ReadInv'
  <1>0. TypeOK /\ AnswerMatchesStore /\ \A w \in Workers : call[w] \in Call
    BY DEF AnswerInv, TypeOK
  <1>1. Stored \subseteq Stored'
    BY <1>0, StoredStep
  <1>2. acked' \subseteq Stored'
    <2>1. acked \subseteq Stored
      BY DEF ReadInv
    <2>2. ASSUME NEW w \in Workers, Respond(w)
          PROVE  acked' \subseteq Stored
      <3>1. pc[w] = "reply" /\ (acked' = acked \/ (/\ call[w].op = "create" /\ call[w].code = "OK"
                                                  /\ acked' = acked \cup {call[w].order}))
        BY <2>2 DEF Respond
      <3>2. Succeeded(w) => call[w].order \in Stored
        BY <1>0 DEF AnswerMatchesStore
      <3> QED
        BY <2>1, <3>1, <3>2 DEF Succeeded
    <2>3. CASE ~ \E w \in Workers : Respond(w)
      <3>1. ASSUME NEW w \in Workers, Receive(w) PROVE acked' = acked
        BY <3>1 DEF Receive, CreateOrder, GetOrderStatus, ListOrders
      <3>2. ASSUME NEW w \in Workers, CountByUser(w) \/ CheckMarketActive(w) \/ Save(w)
            PROVE  acked' = acked
        BY <3>2 DEF CountByUser, CheckMarketActive, Save
      <3>3. ASSUME NEW w \in Workers, GetByID(w) \/ ListByUser(w) \/ Cancel(w)
            PROVE  acked' = acked
        BY <3>3 DEF GetByID, ListByUser, Cancel
      <3>4. CASE Next
        <4>1. PICK w \in Workers : Receive(w) \/ Handle(w) \/ Cancel(w)
          BY <3>4 DEF Next
        <4> QED
          BY <1>1, <2>1, <2>3, <3>1, <3>2, <3>3, <4>1 DEF Handle
      <3>5. CASE UNCHANGED vars
        BY <1>1, <2>1, <3>5 DEF vars
      <3> QED
        BY <3>4, <3>5
    <2> QED
      BY <1>1, <2>2, <2>3
  <1>3. ASSUME NEW w \in Workers, CreateOrder(w) \/ CountByUser(w) \/ CheckMarketActive(w)
                                    \/ Save(w) \/ Respond(w)
        PROVE  ReadFits(pc[w], call[w], w \in done)'
    <2>1. CASE CreateOrder(w)
      BY <2>1, <1>0 DEF CreateOrder, NewCall, TypeOK, ReadFits
    <2>2. CASE Respond(w)
      BY <2>2, <1>0 DEF Respond, TypeOK, ReadFits
    <2>3. CASE CountByUser(w) \/ CheckMarketActive(w) \/ Save(w)
      <3>1. call[w].op = "create"
        BY <2>3 DEF AnswerInv, InProgressHasNoOrder, CountByUser, CheckMarketActive, Save
      <3>2. call'[w].op = "create"
        <4>1. CASE CountByUser(w) \/ CheckMarketActive(w)
          BY <1>0, <3>1, <4>1, FinishEffect DEF CountByUser, CheckMarketActive, TypeOK, Call
        <4>2. CASE Save(w) /\ w \in done
          BY <1>0, <3>1, <4>2, FinishEffect DEF Save
        <4>3. CASE Save(w) /\ w \notin done
          <5>1. NewId \in OrderIds
            BY <4>3 DEF Save, IdLeft, NewId, Stored
          <5> DEFINE c == [call[w] EXCEPT !.order = NewId]
          <5>2. c \in Call /\ c.op = "create"
            BY <1>0, <3>1, <5>1 DEF Call
          <5>3. Finish(w, c, "none")
            BY <4>3 DEF Save
          <5> HIDE DEF c
          <5> QED
            BY <1>0, <5>2, <5>3, FinishEffect
        <4> QED
          BY <2>3, <4>1, <4>2, <4>3
      <3> QED
        BY <3>2 DEF ReadFits
    <2> QED
      BY <1>3, <2>1, <2>2, <2>3
  <1>4. ASSUME NEW w \in Workers, GetOrderStatus(w)
        PROVE  ReadFits(pc[w], call[w], w \in done)'
    <2>1. NoCall \in Call /\ NoCall.op = "get" /\ NoCall.seen = {}
      BY NoCallType DEF NoCall, NewCall
    <2>2. CASE /\ pc' = [pc EXCEPT ![w] = "reply"]
               /\ call' = [call EXCEPT ![w] = [NoCall EXCEPT !.code = "InvalidArgument"]]
      <3>1. /\ [NoCall EXCEPT !.code = "InvalidArgument"].op = "get"
            /\ [NoCall EXCEPT !.code = "InvalidArgument"].seen = {}
        BY <2>1 DEF Call
      <3>2. pc'[w] = "reply" /\ call'[w].op = "get" /\ call'[w].seen = {}
        BY <1>0, <2>2, <3>1 DEF TypeOK
      <3> QED
        BY <3>2 DEF ReadFits
    <2>3. ASSUME NEW id \in OrderIds, pc' = [pc EXCEPT ![w] = "read"],
                 call' = [call EXCEPT ![w] = [NoCall EXCEPT !.order = id, !.seen = acked \cap {id}]]
          PROVE  ReadFits(pc[w], call[w], w \in done)'
      <3>1. /\ [NoCall EXCEPT !.order = id, !.seen = acked \cap {id}].op = "get"
            /\ [NoCall EXCEPT !.order = id, !.seen = acked \cap {id}].seen = acked \cap {id}
        BY <2>1 DEF Call
      <3>2. pc'[w] = "read" /\ call'[w].op = "get" /\ call'[w].seen \subseteq acked
        BY <1>0, <2>3, <3>1 DEF TypeOK
      <3> QED
        BY <1>1, <3>2 DEF ReadFits, ReadInv
    <2> QED
      BY <1>4, <2>2, <2>3 DEF GetOrderStatus
  <1>5. ASSUME NEW w \in Workers, ListOrders(w)
        PROVE  ReadFits(pc[w], call[w], w \in done)'
    <2>1. CASE /\ pc' = [pc EXCEPT ![w] = "reply"]
               /\ call' = [call EXCEPT ![w] = NewCall("list", AnyUser, AnyMarket, "Unauthenticated")]
      BY <1>0, <2>1 DEF NewCall, TypeOK, ReadFits
    <2>2. ASSUME NEW u \in Users, pc' = [pc EXCEPT ![w] = "read"],
                 call' = [call EXCEPT ![w] =
                   [NewCall("list", u, AnyMarket, "OK") EXCEPT !.seen = acked \cap OrdersOf(u)]]
          PROVE  ReadFits(pc[w], call[w], w \in done)'
      <3>1. /\ pc'[w] = "read" /\ call'[w].op = "list" /\ call'[w].user = u
            /\ call'[w].seen \subseteq OrdersOf(u)
        BY <1>0, <2>2 DEF NewCall, TypeOK
      <3>2. OrdersOf(u) \subseteq OrdersOf(u)'
        BY <1>0, OrdersOfGrow
      <3> QED
        BY <3>1, <3>2 DEF ReadFits
    <2> QED
      BY <1>5, <2>1, <2>2 DEF ListOrders
  <1>6. ASSUME NEW w \in Workers, GetByID(w)
        PROVE  ReadFits(pc[w], call[w], w \in done)'
    <2> DEFINE err == IF w \in done THEN "context"
                      ELSE IF call[w].order \in Stored THEN "none" ELSE "inmemory.ErrOrderNotFound"
               c == [call[w] EXCEPT !.code = GRPCCode(err)]
    <2>1. pc[w] = "read" /\ call[w].op = "get" /\ call[w].seen \subseteq Stored /\ done' = done
      BY <1>6 DEF GetByID, ReadInv, ReadFits
    <2>2. c.op = "get" /\ c.order = call[w].order /\ c.seen = call[w].seen /\ c.code = GRPCCode(err)
      BY <1>0, <2>1, CodesType DEF Call
    <2>3. pc'[w] = "reply" /\ call'[w] = c
      BY <1>0, <1>6 DEF GetByID, Finish, TypeOK
    <2>4. w \in done \/ call[w].order \notin Stored \/ GRPCCode(err) = "OK"
      BY DEF GRPCCode
    <2> HIDE DEF c, err
    <2> QED
      BY <2>1, <2>2, <2>3, <2>4 DEF ReadFits
  <1>7. ASSUME NEW w \in Workers, ListByUser(w)
        PROVE  ReadFits(pc[w], call[w], w \in done)'
    <2> DEFINE u == call[w].user
               listed == [call[w] EXCEPT !.result = Listed(u)]
    <2>1. /\ pc[w] = "read" /\ call[w].op = "list" /\ call[w].seen \subseteq OrdersOf(u)
          /\ UNCHANGED orders
      BY <1>7 DEF ListByUser, ReadInv, ReadFits
    <2>2. OrdersOf(u)' = {id \in Stored : orders[id].user = u'}
      BY <2>1 DEF OrdersOf, Stored
    <2>3. CASE Finish(w, call[w], "context")
      <3>1. pc'[w] = "reply" /\ call'[w].op = "list" /\ call'[w].code # "OK"
        BY <1>0, <2>1, <2>3, FinishEffect
      <3> QED
        BY <3>1 DEF ReadFits
    <2>4. CASE Finish(w, listed, "none")
      <3> DEFINE c == [listed EXCEPT !.code = GRPCCode("none")]
      <3>1. /\ c.op = "list" /\ c.user = u /\ c.seen = call[w].seen
            /\ c.result = OrdersOf(u)
        BY <1>0, <2>1 DEF Call, Listed
      <3>2. pc'[w] = "reply" /\ call'[w] = c
        BY <1>0, <2>4 DEF Finish, TypeOK
      <3>3. OrdersOf(u) \subseteq {id \in Stored' : orders'[id].user = u}
        BY <2>1 DEF OrdersOf, Stored
      <3> HIDE DEF c
      <3> QED
        BY <2>1, <3>1, <3>2, <3>3 DEF ReadFits, OrdersOf
    <2> QED
      BY <1>7, <2>3, <2>4 DEF ListByUser
  <1>8. ASSUME NEW w \in Workers, NEW v \in Workers, Receive(w) \/ Handle(w)
        PROVE  ReadFits(pc[v], call[v], v \in done)'
    <2>1. CASE v = w
      BY <1>3, <1>4, <1>5, <1>6, <1>7, <1>8, <2>1 DEF Receive, Handle
    <2>2. CASE v # w
      BY <1>0, <1>8, <2>2, OneCall, ReadKept
    <2> QED
      BY <2>1, <2>2
  <1>9. ASSUME NEW v \in Workers, UNCHANGED <<pc, call>>, done \subseteq done'
        PROVE  ReadFits(pc[v], call[v], v \in done)'
    BY <1>0, <1>9, ReadKept
  <1> QED
    BY <1>2, <1>8, <1>9 DEF ReadInv, Next, Cancel, vars

(* A read that starts after an order's creation was acknowledged finds it. *)
THEOREM ReadsAreFresh == Spec => []ReadsSeeAcknowledged
  <1>1. Init => ReadInv
    BY DEF Init, ReadInv, ReadFits
  <1>2. AnswerInv /\ ReadInv /\ [Next]_vars => ReadInv'
    BY ReadStep
  <1>3. ReadInv => ReadsSeeAcknowledged
    BY DEF ReadInv, ReadFits, ReadsSeeAcknowledged, OrdersOf
  <1> QED
    BY <1>1, <1>2, <1>3, AnswerInvHolds, PTL DEF Spec
=============================================================================
