------------------------ MODULE PostgresOrdersProofs ------------------------
(***************************************************************************)
(* Theorems about PostgresOrders, for every set of users, orders and       *)
(* prices and all initial balances: no user is overdrawn, and the          *)
(* transaction implements the ledger.                                      *)
(***************************************************************************)
EXTENDS PostgresOrders, FiniteSetTheorems, WellFoundedInduction, TLAPS

(* Balances and prices of the rows a Save works with are numbers.          *)
LEMMA RowTypes ==
  ASSUME TypeOK, NEW id \in OrderIds, request[id] # NoOrder, request[id].user \in Users
  PROVE  /\ request[id].price \in Prices /\ request[id].price \in Int
         /\ balance[request[id].user] \in Int
         /\ RowOf(id) \in OrderRow
  BY LedgerAssumption DEF TypeOK, LedgerTypeOK, Request, OrderRow, RowOf

(* Rounding changes a price by at most half of the last place.             *)
LEMMA RoundedIsNear ==
  ASSUME NEW p \in Int
  PROVE  /\ Rounded(p) \in Int
         /\ 2 * (Rounded(p) - p) <= Unit /\ 2 * (p - Rounded(p)) <= Unit
  <1>1. Unit \in Nat \ {0}
    BY LedgerAssumption
  <1>2. p % Unit \in 0 .. Unit - 1
    BY <1>1
  <1> QED
    BY <1>1, <1>2 DEF Rounded

LEMMA RowIsOrder ==
  ASSUME NEW u \in Users, NEW p \in Prices
  PROVE  /\ Row(u, p) \in OrderRow /\ Row(u, p) # NoOrder
         /\ Row(u, p).user = u /\ Row(u, p).price = Rounded(p)
         /\ p \in Int /\ Rounded(p) \in Int
  <1>1. p \in Int /\ Rounded(p) \in Int
    BY LedgerAssumption, RoundedIsNear
  <1>2. Row(u, p) \in [user : Users, price : Int]
    BY <1>1 DEF Row
  <1> QED
    BY <1>1, <1>2, LedgerAssumption DEF OrderRow, Row

LEMMA TypeStep ==
  ASSUME TypeOK, StoredWhenCommitted, [Next]_vars
  PROVE  TypeOK'
  <1> USE DEF TypeOK, LedgerTypeOK
  <1>1. ASSUME NEW id \in OrderIds, NEW u \in Users \cup {NoUser}, NEW p \in Prices,
               Save(id, u, p)
        PROVE  TypeOK'
    <2>1. [user |-> u, price |-> p] \in Request
      BY DEF Request
    <2> QED
      BY <1>1, <2>1 DEF Save, Steps
  <1>2. ASSUME NEW id \in OrderIds, UpdateBalance(id)
        PROVE  TypeOK'
    <2>1. request[id] # NoOrder /\ request[id].user \in Users
      BY <1>2 DEF UpdateBalance, Covers, StoredWhenCommitted
    <2>2. balance[request[id].user] - request[id].price \in Int
      BY <2>1, RowTypes
    <2> QED
      BY <1>2, <2>2 DEF UpdateBalance, Steps, TxStates
  <1>3. ASSUME NEW id \in OrderIds, ServerCommits(id)
        PROVE  TypeOK'
    <2>1. RowOf(id) \in OrderRow
      BY <1>3, RowTypes DEF ServerCommits, StoredWhenCommitted
    <2> QED
      BY <1>3, <2>1 DEF ServerCommits, TxStates
  <1>4. ASSUME NEW id \in OrderIds,
               \/ BeginTx(id) \/ UpdateNoRows(id) \/ InsertOrder(id) \/ SendCommit(id)
               \/ CommitAnswered(id) \/ ServerAborts(id) \/ CallFails(id)
        PROVE  TypeOK'
    BY <1>4 DEF BeginTx, UpdateNoRows, InsertOrder, SendCommit, CommitAnswered,
                ServerAborts, CallFails, Steps, TxStates
  <1>5. CASE UNCHANGED vars
    BY <1>5 DEF vars
  <1> QED
    BY <1>1, <1>2, <1>3, <1>4, <1>5 DEF Next, ClientStep, ServerStep

(* An order is in the table exactly when its transaction has committed.    *)
LEMMA StoredStep ==
  ASSUME TypeOK, StoredWhenCommitted, [Next]_vars
  PROVE  StoredWhenCommitted'
  <1> USE DEF StoredWhenCommitted, TypeOK, LedgerTypeOK
  <1>1. ASSUME NEW id \in OrderIds, NEW u \in Users \cup {NoUser}, NEW p \in Prices,
               Save(id, u, p)
        PROVE  StoredWhenCommitted'
    <2>1. [user |-> u, price |-> p] # NoOrder
      <3>1. [user |-> u, price |-> p] \in [user : Users \cup {NoUser}, price : Int]
        BY LedgerAssumption
      <3> QED
        BY <3>1, PostgresAssumption
    <2>2. tx[id] = "none"
      BY <1>1 DEF Save
    <2> QED
      BY <1>1, <2>1, <2>2 DEF Save, RowOf
  <1>2. ASSUME NEW id \in OrderIds, ClientStep(id) \/ CallFails(id)
        PROVE  StoredWhenCommitted'
    BY <1>2 DEF ClientStep, BeginTx, UpdateBalance, Covers, UpdateNoRows, InsertOrder,
                SendCommit, CommitAnswered, CallFails, RowOf
  <1>3. ASSUME NEW id \in OrderIds, ServerStep(id)
        PROVE  StoredWhenCommitted'
    BY <1>3 DEF ServerStep, ServerCommits, ServerAborts, RowOf
  <1>4. CASE UNCHANGED vars
    BY <1>4 DEF vars, RowOf
  <1> QED
    BY <1>1, <1>2, <1>3, <1>4 DEF Next

(* The row lock: a transaction takes it only when nobody holds it, and     *)
(* nobody else's request changes meanwhile.                                *)
LEMMA LockStep ==
  ASSUME TypeOK, StoredWhenCommitted, RowLockExclusive, [Next]_vars
  PROVE  RowLockExclusive'
  <1> USE DEF RowLockExclusive, Holds, TypeOK, LedgerTypeOK
  <1>1. ASSUME NEW id \in OrderIds, NEW u \in Users \cup {NoUser}, NEW p \in Prices,
               Save(id, u, p)
        PROVE  RowLockExclusive'
    <2>1. tx[id] = "none"
      BY <1>1 DEF Save, StoredWhenCommitted
    <2>2. \A i \in OrderIds \ {id} : request'[i] = request[i]
      BY <1>1 DEF Save
    <2> QED
      BY <1>1, <2>1, <2>2 DEF Save
  <1>2. ASSUME NEW id \in OrderIds, UpdateBalance(id)
        PROVE  RowLockExclusive'
    <2>1. \A i \in OrderIds : Holds(i) => request[i].user # request[id].user
      BY <1>2 DEF UpdateBalance, RowLocked
    <2>2. UNCHANGED request /\ \A i \in OrderIds : Holds(i)' => Holds(i) \/ i = id
      BY <1>2 DEF UpdateBalance
    <2> QED
      BY <2>1, <2>2
  <1>3. ASSUME NEW id \in OrderIds,
               \/ BeginTx(id) \/ UpdateNoRows(id) \/ InsertOrder(id) \/ SendCommit(id)
               \/ CommitAnswered(id) \/ ServerStep(id) \/ CallFails(id)
        PROVE  RowLockExclusive'
    <2>1. UNCHANGED request /\ \A i \in OrderIds : Holds(i)' => Holds(i)
      BY <1>3 DEF BeginTx, UpdateNoRows, InsertOrder, SendCommit, CommitAnswered,
                  ServerStep, ServerCommits, ServerAborts, CallFails
    <2> QED
      BY <2>1
  <1>4. CASE UNCHANGED vars
    BY <1>4 DEF vars
  <1> QED
    BY <1>1, <1>2, <1>3, <1>4 DEF Next, ClientStep

(* Because of the lock, the balance a debit was computed from stays what   *)
(* it was until the debit is committed or undone.                          *)
LEMMA DebitStep ==
  ASSUME TypeOK, StoredWhenCommitted, RowLockExclusive, DebitIsCurrent, [Next]_vars
  PROVE  DebitIsCurrent'
  <1> USE DEF DebitIsCurrent, Holds, TypeOK, LedgerTypeOK
  <1>1. ASSUME NEW id \in OrderIds, NEW u \in Users \cup {NoUser}, NEW p \in Prices,
               Save(id, u, p)
        PROVE  DebitIsCurrent'
    <2>1. tx[id] = "none"
      BY <1>1 DEF Save, StoredWhenCommitted
    <2>2. \A i \in OrderIds \ {id} : request'[i] = request[i]
      BY <1>1 DEF Save
    <2> QED
      BY <1>1, <2>1, <2>2 DEF Save
  <1>2. ASSUME NEW id \in OrderIds, UpdateBalance(id)
        PROVE  DebitIsCurrent'
    BY <1>2 DEF UpdateBalance, Covers
  <1>3. ASSUME NEW id \in OrderIds, ServerCommits(id)
        PROVE  DebitIsCurrent'
    <2>1. \A i \in OrderIds : Holds(i)' => Holds(i) /\ i # id
      BY <1>3 DEF ServerCommits
    <2>2. \A i \in OrderIds : Holds(i) /\ i # id => request[i].user # request[id].user
      BY <1>3 DEF ServerCommits, RowLockExclusive
    <2>3. ASSUME NEW i \in OrderIds, Holds(i)'
          PROVE  balance'[request[i].user] = balance[request[i].user]
      <3>1. request[i].user \in Users /\ request[i].user # request[id].user
        BY <2>1, <2>2, <2>3 DEF StoredWhenCommitted
      <3> QED
        BY <1>3, <3>1 DEF ServerCommits
    <2> QED
      BY <1>3, <2>1, <2>3 DEF ServerCommits
  <1>4. ASSUME NEW id \in OrderIds,
               \/ BeginTx(id) \/ UpdateNoRows(id) \/ InsertOrder(id) \/ SendCommit(id)
               \/ CommitAnswered(id) \/ ServerAborts(id) \/ CallFails(id)
        PROVE  DebitIsCurrent'
    BY <1>4 DEF BeginTx, UpdateNoRows, InsertOrder, SendCommit, CommitAnswered,
                ServerAborts, CallFails
  <1>5. CASE UNCHANGED vars
    BY <1>5 DEF vars
  <1> QED
    BY <1>1, <1>2, <1>3, <1>4, <1>5 DEF Next, ClientStep, ServerStep

(* The inductive invariant of the transaction.                             *)
TxInv == TypeOK /\ StoredWhenCommitted /\ RowLockExclusive /\ DebitIsCurrent

LEMMA TxInvHolds == Spec => []TxInv
  <1>1. Init => TxInv
    BY LedgerAssumption
    DEF Init, LedgerInit, TxInv, TypeOK, LedgerTypeOK, StoredWhenCommitted,
        RowLockExclusive, DebitIsCurrent, Holds, Steps, TxStates
  <1>2. TxInv /\ [Next]_vars => TxInv'
    BY TypeStep, StoredStep, LockStep, DebitStep DEF TxInv
  <1> QED
    BY <1>1, <1>2, PTL DEF Spec

(* The state of the transaction model keeps its types.                     *)
THEOREM TypeCorrect == Spec => []TypeOK
  BY TxInvHolds, PTL DEF TxInv

(* Two transactions never hold the same user's row, and while one holds    *)
(* it, the balance in it changes in no step but that transaction's commit. *)
THEOREM HeldRowsAreKept == Spec => []RowLockExclusive /\ HeldRowKept
  <1>1. TxInv => RowLockExclusive
    BY DEF TxInv
  <1>2. ASSUME TxInv, [Next]_vars, NEW id \in OrderIds, Holds(id),
               balance'[request[id].user] # balance[request[id].user]
        PROVE  tx'[id] = "committed"
    <2>1. PICK other \in OrderIds : ServerCommits(other)
      <3>1. ~UNCHANGED balance
        BY <1>2
      <3> QED
        BY <1>2, <3>1
        DEF Next, ClientStep, ServerStep, Save, BeginTx, UpdateBalance, UpdateNoRows,
            InsertOrder, SendCommit, CommitAnswered, CallFails, ServerAborts, vars
    <2>2. Holds(other)
      BY <2>1 DEF ServerCommits, Holds
    <2>3. request[other].user = request[id].user
      <3>1. balance' = [balance EXCEPT ![request[other].user] = newBalance[other]]
        BY <2>1 DEF ServerCommits
      <3>2. request[id].user \in Users
        BY <1>2 DEF TxInv, StoredWhenCommitted, Holds
      <3> QED
        BY <1>2, <3>1, <3>2 DEF TxInv, TypeOK, LedgerTypeOK
    <2>4. other = id
      BY <1>2, <2>2, <2>3 DEF TxInv, RowLockExclusive
    <2> QED
      BY <1>2, <2>1, <2>4 DEF ServerCommits, TxInv, TypeOK
  <1>3. TxInv /\ [Next]_vars =>
          [\A id \in OrderIds :
             Holds(id) /\ balance'[request[id].user] # balance[request[id].user] =>
               tx'[id] = "committed"]_vars
    BY <1>2
  <1> QED
    BY <1>1, <1>3, TxInvHolds, PTL DEF Spec, HeldRowKept

(* A debit that is not yet committed is based on the current balance, and  *)
(* the balance covers it: no update of another Save is lost.               *)
THEOREM DebitsAreCurrent == Spec => []DebitIsCurrent
  BY TxInvHolds, PTL DEF TxInv

(* Every step of the transaction is a Place of the ledger or none of its   *)
(* business.                                                               *)
LEMMA StepImplementsLedger ==
  ASSUME TxInv, [Next]_vars
  PROVE  [LedgerNext]_ledgerVars
  <1>1. ASSUME NEW id \in OrderIds, ServerCommits(id)
        PROVE  LedgerNext
    <2> DEFINE u == request[id].user
               p == request[id].price
    <2>1. u \in Users /\ p \in Prices
      BY <1>1, RowTypes DEF ServerCommits, TxInv, StoredWhenCommitted
    <2>2. RowOf(id) = Row(u, p)
      BY DEF RowOf
    <2>3. orders[id] = NoOrder
      BY <1>1 DEF ServerCommits, TxInv, StoredWhenCommitted
    <2>4. newBalance[id] = balance[u] - p /\ balance[u] >= p
      BY <1>1 DEF ServerCommits, TxInv, DebitIsCurrent, Holds
    <2>5. balance' = [balance EXCEPT ![u] = balance[u] - p]
      BY <1>1, <2>4 DEF ServerCommits
    <2>6. orders' = [orders EXCEPT ![id] = Row(u, p)]
      BY <1>1, <2>2 DEF ServerCommits
    <2>7. Place(id, u, p)
      BY <2>3, <2>4, <2>5, <2>6 DEF Place
    <2> QED
      BY <2>1, <2>7 DEF LedgerNext
  <1>2. ASSUME NEW id \in OrderIds, NEW u \in Users \cup {NoUser}, NEW p \in Prices,
               Save(id, u, p)
        PROVE  UNCHANGED ledgerVars
    BY <1>2 DEF Save, ledgerVars
  <1>3. CASE UNCHANGED vars
    BY <1>3 DEF vars, ledgerVars
  <1>4. ASSUME NEW id \in OrderIds, ClientStep(id) \/ ServerAborts(id) \/ CallFails(id)
        PROVE  UNCHANGED ledgerVars
    BY <1>4 DEF ClientStep, BeginTx, UpdateBalance, UpdateNoRows, InsertOrder,
                SendCommit, CommitAnswered, ServerAborts, CallFails, ledgerVars
  <1> QED
    BY <1>1, <1>2, <1>3, <1>4 DEF Next, ServerStep

(* The debit and the insert of Save are one step of the ledger, whatever   *)
(* the other transactions, the connections and the server do meanwhile.    *)
THEOREM SaveImplementsLedger == Spec => ImplementsLedger
  <1>1. Init => LedgerInit
    BY DEF Init
  <1>2. TxInv /\ [Next]_vars => [LedgerNext]_ledgerVars
    BY StepImplementsLedger
  <1> QED
    BY <1>1, <1>2, TxInvHolds, PTL DEF Spec, ImplementsLedger, LedgerSpec

-----------------------------------------------------------------------------
(* In the ledger no user is ever overdrawn.                                *)
LEMMA LedgerNeverOverdrawn == LedgerSpec => [](LedgerTypeOK /\ NeverOverdrawn)
  <1>1. LedgerInit => LedgerTypeOK /\ NeverOverdrawn
    BY LedgerAssumption DEF LedgerInit, LedgerTypeOK, NeverOverdrawn
  <1>2. LedgerTypeOK /\ NeverOverdrawn /\ [LedgerNext]_ledgerVars
          => (LedgerTypeOK /\ NeverOverdrawn)'
    <2> SUFFICES ASSUME LedgerTypeOK, NeverOverdrawn, [LedgerNext]_ledgerVars
                 PROVE  (LedgerTypeOK /\ NeverOverdrawn)'
      OBVIOUS
    <2>1. ASSUME NEW id \in OrderIds, NEW u \in Users, NEW p \in Prices, Place(id, u, p)
          PROVE  (LedgerTypeOK /\ NeverOverdrawn)'
      <3>1. p \in Int /\ balance[u] \in Int /\ balance[u] - p >= 0
        BY <2>1, LedgerAssumption DEF Place, LedgerTypeOK
      <3>2. Row(u, p) \in OrderRow
        BY DEF OrderRow
      <3>3. LedgerTypeOK'
        BY <2>1, <3>1, <3>2 DEF Place, LedgerTypeOK
      <3>4. NeverOverdrawn'
        BY <2>1, <3>1 DEF Place, LedgerTypeOK, NeverOverdrawn
      <3> QED
        BY <3>3, <3>4
    <2>2. CASE UNCHANGED ledgerVars
      BY <2>2 DEF ledgerVars, LedgerTypeOK, NeverOverdrawn
    <2> QED
      BY <2>1, <2>2 DEF LedgerNext
  <1> QED
    BY <1>1, <1>2, PTL DEF LedgerSpec

(* No user spends more than it has, however many Saves run at once and     *)
(* wherever they fail.                                                     *)
THEOREM NobodyIsOverdrawn == Spec => []NeverOverdrawn
  BY SaveImplementsLedger, LedgerNeverOverdrawn, PTL DEF ImplementsLedger
-----------------------------------------------------------------------------
(* Save answers OK for a transaction that has committed, and "insufficient *)
(* balance" for one that has not written anything.                         *)
AnswersFitTx ==
  \A id \in OrderIds :
    /\ pc[id] = "ok" => tx[id] = "committed"
    /\ pc[id] = "insufficient" => tx[id] \in {"open", "aborted"}

LEMMA AnswersStep ==
  ASSUME TypeOK, StoredWhenCommitted, AnswersFitTx, [Next]_vars
  PROVE  AnswersFitTx'
  <1> USE DEF AnswersFitTx, TypeOK
  <1>1. ASSUME NEW id \in OrderIds, NEW u \in Users \cup {NoUser}, NEW p \in Prices,
               Save(id, u, p)
        PROVE  AnswersFitTx'
    BY <1>1 DEF Save
  <1>2. ASSUME NEW id \in OrderIds, ClientStep(id) \/ CallFails(id)
        PROVE  AnswersFitTx'
    BY <1>2 DEF ClientStep, BeginTx, UpdateBalance, UpdateNoRows, InsertOrder,
                SendCommit, CommitAnswered, CallFails
  <1>3. ASSUME NEW id \in OrderIds, ServerStep(id)
        PROVE  AnswersFitTx'
    BY <1>3 DEF ServerStep, ServerCommits, ServerAborts
  <1>4. CASE UNCHANGED vars
    BY <1>4 DEF vars
  <1> QED
    BY <1>1, <1>2, <1>3, <1>4 DEF Next

(* After OK the order is in the table, and after "insufficient balance" it *)
(* is not and its transaction can no longer commit.                        *)
THEOREM SaveAnswersAreFinal == Spec => []AnswersAreFinal
  <1>1. Init => AnswersFitTx
    BY DEF Init, AnswersFitTx
  <1>2. TxInv /\ AnswersFitTx /\ [Next]_vars => AnswersFitTx'
    BY AnswersStep DEF TxInv
  <1>3. TxInv /\ AnswersFitTx => AnswersAreFinal
    BY DEF TxInv, StoredWhenCommitted, AnswersFitTx, AnswersAreFinal
  <1> QED
    BY <1>1, <1>2, <1>3, TxInvHolds, PTL DEF Spec
-----------------------------------------------------------------------------
(* Sums.  MapThenSumSet is a recursive function that adds what it picks.   *)

(* A set of subsets of a finite set that has every subset all of whose     *)
(* proper subsets it has, has all subsets.                                 *)
LEMMA SubsetInduction ==
  ASSUME NEW S, IsFiniteSet(S), NEW Z \in SUBSET SUBSET S,
         \A s \in SUBSET S : (\A t \in SUBSET s : t # s => t \in Z) => s \in Z
  PROVE  Z = SUBSET S
  <1> DEFINE Rest == (SUBSET S) \ Z
             R == StrictSubsetOrdering(S)
  <1>1. IsWellFoundedOn(R, SUBSET S)
    BY FS_StrictSubsetOrderingWellFounded, FS_FiniteSubsetsOfFinite
  <1>2. \A s \in SUBSET S : \A t \in SUBSET s : t # s => <<t, s>> \in R
    BY DEF StrictSubsetOrdering
  <1>3. ASSUME Rest # {} PROVE FALSE
    <2> HIDE DEF R
    <2>1. PICK s \in Rest : \A t \in Rest : <<t, s>> \notin R
      <3>1. Rest \subseteq SUBSET S
        OBVIOUS
      <3> HIDE DEF Rest
      <3> QED
        BY <1>1, <1>3, <3>1, WFMin
    <2>2. \A t \in SUBSET s : t # s => t \in Z
      <3> SUFFICES ASSUME NEW t \in SUBSET s, t # s, t \notin Z PROVE FALSE
        OBVIOUS
      <3>1. t \in Rest /\ s \in SUBSET S
        OBVIOUS
      <3>2. <<t, s>> \in R
        BY <1>2, <3>1
      <3>3. <<t, s>> \notin R
        BY <2>1, <3>1
      <3> QED
        BY <3>2, <3>3
    <2> QED
      BY <2>1, <2>2
  <1> QED
    BY <1>3

Pick(s) == CHOOSE x \in s : TRUE

Adds(f, p, S) ==
  f = [s \in SUBSET S |-> IF s = {} THEN 0 ELSE p[Pick(s)] + f[s \ {Pick(s)}]]

LEMMA PickIn == ASSUME NEW s, s # {} PROVE Pick(s) \in s
  BY DEF Pick

(* What Adds says of each set.                                             *)
AddsUp(f, p, S) ==
  /\ f[{}] = 0
  /\ \A s \in SUBSET S : s # {} => /\ Pick(s) \in s
                                   /\ s \ {Pick(s)} \in SUBSET s
                                   /\ s \ {Pick(s)} # s
                                   /\ f[s] = p[Pick(s)] + f[s \ {Pick(s)}]

LEMMA AddsOf ==
  ASSUME NEW S, NEW p, NEW f, Adds(f, p, S)
  PROVE  AddsUp(f, p, S)
  <1>1. \A s \in SUBSET S : f[s] = IF s = {} THEN 0 ELSE p[Pick(s)] + f[s \ {Pick(s)}]
    <2> DEFINE g == [s \in SUBSET S |-> IF s = {} THEN 0 ELSE p[Pick(s)] + f[s \ {Pick(s)}]]
    <2>1. f = g
      BY DEF Adds
    <2>2. \A s \in SUBSET S : g[s] = IF s = {} THEN 0 ELSE p[Pick(s)] + f[s \ {Pick(s)}]
      OBVIOUS
    <2> HIDE DEF g
    <2> QED
      BY <2>1, <2>2
  <1> QED
    BY <1>1, PickIn DEF AddsUp

LEMMA AddsType ==
  ASSUME NEW S, IsFiniteSet(S), NEW p, \A x \in S : p[x] \in Int,
         NEW f, Adds(f, p, S)
  PROVE  \A s \in SUBSET S : f[s] \in Int
  <1> DEFINE Z == {s \in SUBSET S : f[s] \in Int}
  <1>1. ASSUME NEW s \in SUBSET S, \A t \in SUBSET s : t # s => t \in Z
        PROVE  s \in Z
    <2>1. CASE s = {}
      BY <2>1, AddsOf DEF AddsUp
    <2>2. CASE s # {}
      <3>1. /\ Pick(s) \in S /\ s \ {Pick(s)} \in Z
            /\ f[s] = p[Pick(s)] + f[s \ {Pick(s)}]
        <4> HIDE DEF Z
        <4> QED
          BY <1>1, <2>2, AddsOf DEF AddsUp
      <3>2. p[Pick(s)] \in Int /\ f[s \ {Pick(s)}] \in Int
        BY <3>1
      <3>3. f[s] \in Int
        BY <3>1, <3>2
      <3> QED
        BY <3>3
    <2> QED
      BY <2>1, <2>2
  <1>2. Z = SUBSET S
    <2> HIDE DEF Z
    <2>1. Z \in SUBSET SUBSET S
      BY DEF Z
    <2> QED
      BY <1>1, <2>1, SubsetInduction
  <1> QED
    BY <1>2

(* There is only one such function, also on a smaller set.                 *)
LEMMA AddsUnique ==
  ASSUME NEW S, IsFiniteSet(S), NEW T, S \in SUBSET T, NEW p, NEW f, NEW g,
         Adds(f, p, S), Adds(g, p, T)
  PROVE  \A s \in SUBSET S : f[s] = g[s]
  <1> DEFINE Z == {s \in SUBSET S : f[s] = g[s]}
  <1>3. AddsUp(f, p, S)
    BY AddsOf
  <1>4. AddsUp(g, p, T)
    BY AddsOf
  <1>1. ASSUME NEW s \in SUBSET S, \A t \in SUBSET s : t # s => t \in Z
        PROVE  s \in Z
    <2>1. CASE s = {}
      BY <1>3, <1>4, <2>1 DEF AddsUp
    <2>2. CASE s # {}
      <3>1. /\ Pick(s) \in S /\ s \ {Pick(s)} \in Z
            /\ f[s] = p[Pick(s)] + f[s \ {Pick(s)}]
        <4> HIDE DEF Z
        <4> QED
          BY <1>1, <1>3, <2>2 DEF AddsUp
      <3>2. s \in SUBSET T /\ g[s] = p[Pick(s)] + g[s \ {Pick(s)}]
        BY <1>4, <2>2 DEF AddsUp
      <3>3. f[s] = g[s]
        BY <3>1, <3>2
      <3> QED
        BY <3>3
    <2> QED
      BY <2>1, <2>2
  <1>2. Z = SUBSET S
    <2>1. Z \in SUBSET SUBSET S
      OBVIOUS
    <2> HIDE DEF Z
    <2> QED
      BY <1>1, <2>1, SubsetInduction
  <1> QED
    BY <1>2

LEMMA AddsOnSubset ==
  ASSUME NEW S, IsFiniteSet(S), NEW T, S \in SUBSET T, NEW p, NEW f, NEW g,
         Adds(f, p, S), Adds(g, p, T)
  PROVE  f[S] = g[S]
  BY AddsUnique

(* Only the prices of the elements matter.                                 *)
LEMMA AddsSame ==
  ASSUME NEW S, NEW p, NEW q, \A x \in S : p[x] = q[x], NEW f, Adds(f, p, S)
  PROVE  Adds(f, q, S)
  <1> DEFINE F(r) == [s \in SUBSET S |-> IF s = {} THEN 0 ELSE r[Pick(s)] + f[s \ {Pick(s)}]]
  <1>1. \A s \in SUBSET S : s # {} => p[Pick(s)] = q[Pick(s)]
    BY PickIn
  <1>2. F(p) = F(q)
    BY <1>1
  <1> QED
    BY <1>2 DEF Adds

(* The order in which the elements are picked makes no difference.         *)
LEMMA AddsAnyOrder ==
  ASSUME NEW S, IsFiniteSet(S), NEW p, \A x \in S : p[x] \in Int,
         NEW f, Adds(f, p, S)
  PROVE  \A s \in SUBSET S, x \in S : x \in s => f[s] = p[x] + f[s \ {x}]
  <1> DEFINE Z == {s \in SUBSET S : \A x \in s : f[s] = p[x] + f[s \ {x}]}
  <1>1. ASSUME NEW s \in SUBSET S, \A t \in SUBSET s : t # s => t \in Z
        PROVE  s \in Z
    <2> SUFFICES ASSUME NEW x \in s PROVE f[s] = p[x] + f[s \ {x}]
      OBVIOUS
    <2> DEFINE y == Pick(s)
    <2>1. y \in s /\ f[s] = p[y] + f[s \ {y}]
      BY AddsOf DEF AddsUp
    <2> HIDE DEF y
    <2>2. CASE x = y
      BY <2>1, <2>2
    <2>3. CASE x # y
      <3>1. f[s \ {y}] = p[x] + f[(s \ {y}) \ {x}]
        BY <1>1, <2>1, <2>3
      <3>2. f[s \ {x}] = p[y] + f[(s \ {x}) \ {y}]
        BY <1>1, <2>1, <2>3
      <3>3. (s \ {y}) \ {x} = (s \ {x}) \ {y}
        OBVIOUS
      <3>4. p[x] \in Int /\ p[y] \in Int /\ f[(s \ {x}) \ {y}] \in Int
        BY <2>1, AddsType
      <3>5. \A a, b, c \in Int : a + (b + c) = b + (a + c)
        OBVIOUS
      <3>6. p[y] + (p[x] + f[(s \ {x}) \ {y}]) = p[x] + (p[y] + f[(s \ {x}) \ {y}])
        BY <3>4, <3>5
      <3> QED
        BY <2>1, <3>1, <3>2, <3>3, <3>6, Zenon
    <2> QED
      BY <2>2, <2>3
  <1>2. Z = SUBSET S
    <2>1. Z \in SUBSET SUBSET S
      OBVIOUS
    <2> HIDE DEF Z
    <2> QED
      BY <1>1, <2>1, SubsetInduction
  <1> QED
    BY <1>2

(* There is such a function: what a set adds up to is put together from    *)
(* what its proper subsets do.                                             *)
LEMMA AddsExists ==
  ASSUME NEW S, IsFiniteSet(S), NEW p
  PROVE  \E f : Adds(f, p, S)
  <1> DEFINE Z == {s \in SUBSET S : \E f : Adds(f, p, s)}
             F(t) == CHOOSE f : Adds(f, p, t)
  <1>1. ASSUME NEW s \in SUBSET S, \A t \in SUBSET s : t # s => t \in Z
        PROVE  s \in Z
    <2> DEFINE Sum(t) == F(t)[t]
               f == [t \in SUBSET s |->
                       IF t = {} THEN 0 ELSE p[Pick(t)] + Sum(t \ {Pick(t)})]
               g == [t \in SUBSET s |->
                       IF t = {} THEN 0 ELSE p[Pick(t)] + f[t \ {Pick(t)}]]
    <2>1. ASSUME NEW u \in SUBSET s, u # s PROVE Adds(F(u), p, u) /\ IsFiniteSet(u)
      <3>1. u \in Z
        BY <1>1, <2>1
      <3>2. \E h : Adds(h, p, u)
        BY <3>1
      <3> QED
        BY <3>2, FS_Subset
    <2>2. ASSUME NEW u \in SUBSET s, u # s PROVE f[u] = Sum(u)
      <3>1. AddsUp(F(u), p, u)
        BY <2>1, <2>2, AddsOf
      <3>2. CASE u = {}
        BY <3>1, <3>2 DEF AddsUp
      <3>3. CASE u # {}
        <4> DEFINE v == u \ {Pick(u)}
        <4>1. v \in SUBSET u /\ v \in SUBSET s /\ v # s /\ F(u)[u] = p[Pick(u)] + F(u)[v]
          <5> HIDE DEF F
          <5> QED
            BY <2>2, <3>1, <3>3 DEF AddsUp
        <4> HIDE DEF v, F
        <4>2. Adds(F(u), p, u) /\ Adds(F(v), p, v) /\ IsFiniteSet(v)
          BY <2>1, <2>2, <4>1
        <4>5. F(v)[v] = F(u)[v]
          BY <4>1, <4>2, AddsOnSubset
        <4>6. f[u] = p[Pick(u)] + F(v)[v]
          BY <3>3 DEF v
        <4> QED
          BY <4>1, <4>5, <4>6
      <3> QED
        BY <3>2, <3>3
    <2>3. ASSUME NEW t \in SUBSET s, t # {}
          PROVE  Sum(t \ {Pick(t)}) = f[t \ {Pick(t)}]
      <3> DEFINE v == t \ {Pick(t)}
      <3>1. v \in SUBSET s /\ v # s
        BY <2>3, PickIn
      <3> HIDE DEF v, f, F
      <3>2. f[v] = F(v)[v]
        BY <2>2, <3>1
      <3> QED
        BY <3>2 DEF v
    <2>4. f = g
      <3>1. \A t \in SUBSET s : f[t] = g[t]
        <4>1. ASSUME NEW t \in SUBSET s PROVE f[t] = g[t]
          <5>1. f[t] = IF t = {} THEN 0 ELSE p[Pick(t)] + Sum(t \ {Pick(t)})
            OBVIOUS
          <5>2. g[t] = IF t = {} THEN 0 ELSE p[Pick(t)] + f[t \ {Pick(t)}]
            <6> HIDE DEF f
            <6> QED OBVIOUS
          <5> HIDE DEF f, g, Sum
          <5> QED
            BY <2>3, <5>1, <5>2
        <4> QED
          BY <4>1
      <3> QED
        BY <3>1
    <2>5. Adds(f, p, s)
      <3> HIDE DEF f
      <3> QED
        BY <2>4 DEF Adds
    <2> QED
      BY <2>5
  <1>2. Z = SUBSET S
    <2>1. Z \in SUBSET SUBSET S
      OBVIOUS
    <2> HIDE DEF Z
    <2> QED
      BY <1>1, <2>1, SubsetInduction
  <1> QED
    BY <1>2

SumOf(p, S) == (CHOOSE f : Adds(f, p, S))[S]

LEMMA SumOfEmpty == ASSUME NEW p PROVE SumOf(p, {}) = 0
  <1> DEFINE f == CHOOSE f : Adds(f, p, {})
  <1>1. Adds(f, p, {})
    BY AddsExists, FS_EmptySet
  <1> HIDE DEF f
  <1>2. AddsUp(f, p, {})
    BY <1>1, AddsOf
  <1> QED
    BY <1>2 DEF SumOf, AddsUp, f

LEMMA SumOfType ==
  ASSUME NEW S, IsFiniteSet(S), NEW p, \A y \in S : p[y] \in Int
  PROVE  SumOf(p, S) \in Int
  <1> DEFINE f == CHOOSE f : Adds(f, p, S)
  <1>1. Adds(f, p, S)
    BY AddsExists
  <1> HIDE DEF f
  <1>2. f[S] \in Int
    BY <1>1, AddsType
  <1> QED
    BY <1>2 DEF SumOf, f

(* One more element, or none: a sum depends on its elements only.          *)
LEMMA SumOfSame ==
  ASSUME NEW S, IsFiniteSet(S), NEW p, NEW q, \A y \in S : p[y] = q[y]
  PROVE  SumOf(p, S) = SumOf(q, S)
  <1> DEFINE f == CHOOSE f : Adds(f, p, S)
             g == CHOOSE g : Adds(g, q, S)
  <1>1. Adds(f, p, S) /\ Adds(g, q, S)
    BY AddsExists
  <1> HIDE DEF f, g
  <1>2. Adds(f, q, S)
    BY <1>1, AddsSame
  <1>3. f[S] = g[S]
    BY <1>1, <1>2, AddsOnSubset
  <1> QED
    BY <1>3 DEF SumOf, f, g

LEMMA SumOfOneMore ==
  ASSUME NEW S, IsFiniteSet(S), NEW x, x \notin S,
         NEW p, NEW q, \A y \in S : p[y] = q[y], \A y \in S \cup {x} : q[y] \in Int
  PROVE  SumOf(q, S \cup {x}) = q[x] + SumOf(p, S)
  <1> DEFINE T == S \cup {x}
             f == CHOOSE f : Adds(f, p, S)
             g == CHOOSE g : Adds(g, q, T)
  <1>0. IsFiniteSet(T)
    BY FS_AddElement
  <1>1. Adds(f, p, S) /\ Adds(g, q, T)
    BY <1>0, AddsExists
  <1>2. S \in SUBSET T /\ T \in SUBSET T /\ x \in T /\ T \ {x} = S
    OBVIOUS
  <1> HIDE DEF f, g, T
  <1>3. Adds(f, q, S)
    BY <1>1, AddsSame
  <1>4. f[S] = g[S]
    BY <1>1, <1>2, <1>3, AddsOnSubset
  <1>5. \A s \in SUBSET T, y \in T : y \in s => g[s] = q[y] + g[s \ {y}]
    <2>1. \A y \in T : q[y] \in Int
      BY DEF T
    <2> QED
      BY <1>0, <1>1, <2>1, AddsAnyOrder
  <1>6. g[T] = q[x] + g[S]
    BY <1>2, <1>5
  <1> QED
    BY <1>4, <1>6 DEF SumOf, f, g, T

(* MapThenSumSet of the community module is this sum.                      *)
LEMMA SumSetIsSumOf ==
  ASSUME NEW S \in SUBSET OrderIds, IsFiniteSet(S)
  PROVE  MapThenSumSet(LAMBDA id : orders[id].price, S)
           = SumOf([id \in OrderIds |-> orders[id].price], S)
  <1> DEFINE price == [id \in OrderIds |-> orders[id].price]
             Iter(f) == f = [s \in SUBSET S |-> IF s = {} THEN 0
                              ELSE orders[Pick(s)].price + f[s \ {Pick(s)}]]
             f == CHOOSE f : Adds(f, price, S)
             g == CHOOSE g : Iter(g)
  <1>1. MapThenSumSet(LAMBDA id : orders[id].price, S) = g[S]
    BY DEF MapThenSumSet, MapThenFoldSet, Pick
  <1>2. ASSUME NEW h PROVE Iter(h) <=> Adds(h, price, S)
    <2>1. \A s \in SUBSET S : s # {} => Pick(s) \in OrderIds
      BY PickIn
    <2>2. \A s \in SUBSET S : s # {} => price[Pick(s)] = orders[Pick(s)].price
      BY <2>1
    <2> HIDE DEF price
    <2>3. [s \in SUBSET S |-> IF s = {} THEN 0
             ELSE orders[Pick(s)].price + h[s \ {Pick(s)}]]
        = [s \in SUBSET S |-> IF s = {} THEN 0
             ELSE price[Pick(s)] + h[s \ {Pick(s)}]]
      BY <2>2
    <2> QED
      BY <2>3 DEF Adds
  <1>3. Adds(f, price, S)
    BY AddsExists
  <1> HIDE DEF price, f, Iter
  <1>4. Iter(g)
    BY <1>2, <1>3
  <1>5. Adds(g, price, S)
    BY <1>2, <1>4
  <1>6. f[S] = g[S]
    BY <1>3, <1>5, AddsOnSubset
  <1> QED
    BY <1>1, <1>6 DEF SumOf, f, price

-----------------------------------------------------------------------------
(* What each stored order costs.                                           *)
PriceOf == [id \in OrderIds |-> orders[id].price]

(* Only finitely many orders are ever stored.                              *)
FinitelyMany == \A u \in Users : IsFiniteSet(OrdersOf(u))

(* Conserved, with the sums as the lemmas above know them.                 *)
Drift(u) == balance[u] + SumOf(PriceOf, OrdersOf(u)) - InitialBalance[u]

BooksBalance ==
  \A u \in Users :
    /\ 2 * Drift(u) <= Unit * Cardinality(OrdersOf(u))
    /\ -(2 * Drift(u)) <= Unit * Cardinality(OrdersOf(u))

LedgerInv == LedgerTypeOK /\ FinitelyMany /\ BooksBalance

LEMMA BooksAreConserved ==
  ASSUME FinitelyMany, BooksBalance
  PROVE  Conserved
  <1>1. ASSUME NEW u \in Users
        PROVE  MapThenSumSet(LAMBDA id : orders[id].price, OrdersOf(u))
                 = SumOf(PriceOf, OrdersOf(u))
    <2>1. OrdersOf(u) \in SUBSET OrderIds /\ IsFiniteSet(OrdersOf(u))
      BY DEF OrdersOf, FinitelyMany
    <2> QED
      BY <2>1, SumSetIsSumOf DEF PriceOf
  <1> QED
    BY <1>1 DEF Conserved, BooksBalance, Drift

(* One order more moves the bound by a place, which is twice what its      *)
(* rounding can move the drift.                                            *)
LEMMA DriftStep ==
  ASSUME NEW p \in Int, NEW d \in Int, NEW n \in Nat,
         2 * d <= Unit * n, -(2 * d) <= Unit * n
  PROVE  /\ 2 * (d - p + Rounded(p)) <= Unit * (n + 1)
         /\ -(2 * (d - p + Rounded(p))) <= Unit * (n + 1)
  <1>1. Unit \in Int
    BY LedgerAssumption
  <1>2. PICK m \in Int : m = Unit * n
    BY <1>1
  <1>3. Unit * (n + 1) = m + Unit
    BY <1>1, <1>2
  <1>4. PICK q \in Int : q = Rounded(p) /\ 2 * (q - p) <= Unit /\ 2 * (p - q) <= Unit
    BY RoundedIsNear
  <1>5. 2 * (d - p + q) <= m + Unit /\ -(2 * (d - p + q)) <= m + Unit
    BY <1>1, <1>2, <1>4
  <1> QED
    BY <1>3, <1>4, <1>5

(* A placed order costs its user the price, nobody else anything, and is   *)
(* stored at the rounded price.                                            *)
LEMMA PlaceKeepsBooks ==
  ASSUME LedgerInv, NEW id \in OrderIds, NEW u \in Users, NEW p \in Prices,
         Place(id, u, p)
  PROVE  LedgerInv'
  <1> USE DEF LedgerInv
  <1>1. /\ p \in Int /\ balance[u] \in Int
        /\ \A v \in Users : InitialBalance[v] \in Int
    BY LedgerAssumption DEF LedgerTypeOK
  <1>2. /\ Row(u, p) \in OrderRow /\ Row(u, p) # NoOrder
        /\ Row(u, p).user = u /\ Row(u, p).price = Rounded(p)
    BY RowIsOrder
  <1>3. LedgerTypeOK'
    BY <1>1, <1>2 DEF Place, LedgerTypeOK
  <1>4. /\ \A i \in OrderIds : i # id => orders'[i] = orders[i]
        /\ orders'[id] = Row(u, p) /\ orders[id] = NoOrder
    BY DEF Place, LedgerTypeOK
  <1>5. OrdersOf(u)' = OrdersOf(u) \cup {id} /\ id \notin OrdersOf(u)
    BY <1>2, <1>4 DEF OrdersOf
  <1>6. \A v \in Users : v # u => OrdersOf(v)' = OrdersOf(v) /\ id \notin OrdersOf(v)
    BY <1>2, <1>4 DEF OrdersOf
  <1>7. FinitelyMany'
    <2>1. \A v \in Users : IsFiniteSet(OrdersOf(v))
      BY DEF FinitelyMany
    <2>2. IsFiniteSet(OrdersOf(u) \cup {id})
      BY <2>1, FS_AddElement
    <2>3. ASSUME NEW v \in Users PROVE IsFiniteSet(OrdersOf(v)')
      BY <1>5, <1>6, <2>1, <2>2
    <2> QED
      BY <2>3 DEF FinitelyMany
  <1>8. \A i \in OrderIds : i # id => PriceOf'[i] = PriceOf[i]
    BY <1>4 DEF PriceOf
  <1>9. \A v \in Users, i \in OrderIds : i \in OrdersOf(v)' => PriceOf'[i] \in Int
    <2>1. ASSUME NEW row \in OrderRow PROVE row.price \in Int
      <3>1. PICK v \in Users, c \in Prices : row = Row(v, c)
        BY DEF OrderRow
      <3> QED
        BY <3>1, RowIsOrder
    <2> QED
      BY <1>3, <2>1 DEF OrdersOf, PriceOf, LedgerTypeOK
  <1>10. BooksBalance'
    <2> SUFFICES ASSUME NEW v \in Users
                 PROVE  /\ 2 * Drift(v)' <= Unit * Cardinality(OrdersOf(v)')
                        /\ -(2 * Drift(v)') <= Unit * Cardinality(OrdersOf(v)')
      BY DEF BooksBalance
    <2>1. /\ IsFiniteSet(OrdersOf(v)) /\ OrdersOf(v) \subseteq OrderIds
          /\ id \notin OrdersOf(v)
          /\ 2 * Drift(v) <= Unit * Cardinality(OrdersOf(v))
          /\ -(2 * Drift(v)) <= Unit * Cardinality(OrdersOf(v))
      BY <1>5, <1>6 DEF FinitelyMany, BooksBalance, OrdersOf
    <2>2. \A y \in OrdersOf(v) : PriceOf[y] = PriceOf'[y]
      BY <1>8, <2>1
    <2>3. CASE v # u
      <3>1. SumOf(PriceOf, OrdersOf(v)) = SumOf(PriceOf', OrdersOf(v))
        BY <2>1, <2>2, SumOfSame
      <3>2. balance'[v] = balance[v] /\ OrdersOf(v)' = OrdersOf(v)
        BY <1>6, <2>3 DEF Place, LedgerTypeOK
      <3>3. Drift(v)' = Drift(v)
        BY <3>1, <3>2 DEF Drift
      <3> QED
        BY <2>1, <3>2, <3>3
    <2>4. CASE v = u
      <3> DEFINE s == SumOf(PriceOf, OrdersOf(v))
      <3>1. \A y \in OrdersOf(v) \cup {id} : PriceOf'[y] \in Int
        BY <1>5, <1>9, <2>1, <2>4
      <3>2. SumOf(PriceOf', OrdersOf(v) \cup {id}) = PriceOf'[id] + s
        BY <2>1, <2>2, <3>1, SumOfOneMore
      <3>3. s \in Int
        <4>1. \A y \in OrdersOf(v) : PriceOf[y] \in Int
          BY <2>2, <3>1
        <4> QED
          BY <2>1, <4>1, SumOfType
      <3>4. PriceOf'[id] = Rounded(p) /\ Rounded(p) \in Int
        BY <1>2, <1>4, RowIsOrder DEF PriceOf
      <3>5. balance'[v] = balance[v] - p
        BY <2>4 DEF Place, LedgerTypeOK
      <3>6. OrdersOf(v)' = OrdersOf(v) \cup {id}
        BY <1>5, <2>4
      <3>7. Drift(v)' = (balance[v] - p) + (Rounded(p) + s) - InitialBalance[v]
        BY <3>2, <3>4, <3>5, <3>6 DEF Drift
      <3>8. Drift(v) = balance[v] + s - InitialBalance[v]
        BY DEF Drift
      <3> HIDE DEF s
      <3>9. Drift(v)' = Drift(v) - p + Rounded(p) /\ Drift(v) \in Int
        BY <1>1, <2>4, <3>3, <3>4, <3>7, <3>8
      <3>10. /\ Cardinality(OrdersOf(v)') = Cardinality(OrdersOf(v)) + 1
             /\ Cardinality(OrdersOf(v)) \in Nat
        BY <2>1, <3>6, FS_AddElement, FS_CardinalityType
      <3> QED
        BY <1>1, <2>1, <3>9, <3>10, DriftStep
    <2> QED
      BY <2>3, <2>4
  <1> QED
    BY <1>3, <1>7, <1>10

LEMMA LedgerBalances == LedgerSpec => []LedgerInv
  <1>1. LedgerInit => LedgerInv
    <2> SUFFICES ASSUME LedgerInit PROVE LedgerInv
      OBVIOUS
    <2>1. LedgerTypeOK
      BY LedgerAssumption DEF LedgerInit, LedgerTypeOK
    <2>2. \A u \in Users : OrdersOf(u) = {}
      BY DEF LedgerInit, OrdersOf
    <2>3. FinitelyMany
      BY <2>2, FS_EmptySet DEF FinitelyMany
    <2>4. SumOf(PriceOf, {}) = 0
      BY SumOfEmpty
    <2>5. \A u \in Users : balance[u] + 0 - InitialBalance[u] = 0
      BY LedgerAssumption DEF LedgerInit
    <2>6. BooksBalance
      <3>1. \A u \in Users : Drift(u) = 0 /\ Cardinality(OrdersOf(u)) = 0
        BY <2>2, <2>4, <2>5, FS_EmptySet DEF Drift
      <3> QED
        BY <3>1, LedgerAssumption DEF BooksBalance
    <2> QED
      BY <2>1, <2>3, <2>6 DEF LedgerInv
  <1>2. LedgerInv /\ [LedgerNext]_ledgerVars => LedgerInv'
    <2> SUFFICES ASSUME LedgerInv, [LedgerNext]_ledgerVars PROVE LedgerInv'
      OBVIOUS
    <2>1. CASE UNCHANGED ledgerVars
      BY <2>1 DEF ledgerVars, LedgerInv, LedgerTypeOK, FinitelyMany, BooksBalance,
                  Drift, OrdersOf, PriceOf
    <2> QED
      BY <2>1, PlaceKeepsBooks DEF LedgerNext
  <1> QED
    BY <1>1, <1>2, PTL DEF LedgerSpec

(* What a user has spent is what its stored orders cost, but for the       *)
(* rounding of each, however many Saves run at once and wherever they      *)
(* fail: a debit without its order, or an order without its debit, is      *)
(* never visible.                                                          *)
THEOREM MoneyIsConserved == Spec => []Conserved
  <1>1. LedgerInv => Conserved
    BY BooksAreConserved DEF LedgerInv
  <1> QED
    BY <1>1, SaveImplementsLedger, LedgerBalances, PTL DEF ImplementsLedger
=============================================================================
