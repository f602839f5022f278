------------------------------- MODULE Ledger -------------------------------
(***************************************************************************)
(* What storing an order in the database promises, without how: placing an *)
(* order takes its price from its user's balance in the same step, and     *)
(* happens only when the balance covers it.  The column of the prices      *)
(* rounds: the order that is stored may cost a little more or less than    *)
(* its user has paid.                                                      *)
(***************************************************************************)
EXTENDS Integers, FiniteSetsExt

CONSTANTS
  Users,          \* the rows of the users table
  OrderIds,       \* the ids Save can be called with, each once
  Prices,         \* what an order can cost; the code never looks at the sign
  Unit,           \* the last place of the column orders.price, which is
                  \* NUMERIC(20, 8), in what prices are counted in
  InitialBalance, \* each user's balance before the first order
  NoOrder         \* the value of an order id that has no row

ASSUME LedgerAssumption ==
  /\ Prices \subseteq Int
  /\ Unit \in Nat \ {0}
  /\ InitialBalance \in [Users -> Nat]
  /\ NoOrder \notin [user : Users, price : Int]

VARIABLES
  balance,        \* users.balance
  orders          \* the rows of the orders table

ledgerVars == <<balance, orders>>

(* What the column makes of a price: it rounds to the nearest of its       *)
(* values, and from the middle away from zero.                             *)
Rounded(p) ==
  LET rest == p % Unit
  IN IF 2 * rest < Unit \/ (2 * rest = Unit /\ p < 0)
       THEN p - rest
       ELSE p - rest + Unit

(* The row of an order of the user u at the price p.                       *)
Row(u, p) == [user |-> u, price |-> Rounded(p)]

OrderRow == {Row(u, p) : u \in Users, p \in Prices}

LedgerInit ==
  /\ balance = InitialBalance
  /\ orders = [id \in OrderIds |-> NoOrder]

Place(id, u, p) ==
  /\ orders[id] = NoOrder
  /\ balance[u] >= p
  /\ balance' = [balance EXCEPT ![u] = @ - p]
  /\ orders' = [orders EXCEPT ![id] = Row(u, p)]

LedgerNext == \E id \in OrderIds, u \in Users, p \in Prices : Place(id, u, p)

LedgerSpec == LedgerInit /\ [][LedgerNext]_ledgerVars

-----------------------------------------------------------------------------
LedgerTypeOK ==
  /\ balance \in [Users -> Int]
  /\ orders \in [OrderIds -> OrderRow \cup {NoOrder}]

(* No user spends more than it has.                                        *)
NeverOverdrawn == \A u \in Users : balance[u] >= 0

(* The stored orders of a user.                                            *)
OrdersOf(u) == {id \in OrderIds : orders[id] # NoOrder /\ orders[id].user = u}

(* Money and orders agree: what a user has spent is what its stored orders *)
(* cost, but for the rounding of their prices, which is at most half of    *)
(* the last place for each of them.                                        *)
Conserved ==
  \A u \in Users :
    LET drift == balance[u] + MapThenSumSet(LAMBDA id : orders[id].price, OrdersOf(u))
                   - InitialBalance[u]
        most == Unit * Cardinality(OrdersOf(u))
    IN 2 * drift <= most /\ -(2 * drift) <= most
=============================================================================
