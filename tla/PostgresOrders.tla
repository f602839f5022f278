--------------------------- MODULE PostgresOrders ---------------------------
(***************************************************************************)
(* Save of the PostgreSQL repository (internal/adapters/postgres): one     *)
(* transaction that debits the user's balance and inserts the order.       *)
(*                                                                         *)
(* Every Save has an order id of its own (the service draws a fresh uuid), *)
(* so the id names the call and its database session.  The client side, pc,*)
(* is the repository's code; the server side, tx, is PostgreSQL at READ    *)
(* COMMITTED as that code uses it, and is external to the repository.  The *)
(* two sides part when the context is done or the connection breaks: the   *)
(* client has its error at once, while the server goes on until it notices *)
(* -- and a COMMIT that is on its way may still be carried out.            *)
(***************************************************************************)
EXTENDS Ledger

CONSTANT NoUser \* a user id that the users table has no row of

ASSUME PostgresAssumption ==
  NoUser \notin Users /\ NoOrder \notin [user : Users \cup {NoUser}, price : Int]

VARIABLES
  pc,       \* where each Save is
  request,  \* the order each Save was given, or NoOrder
  tx,       \* the state of each Save's transaction on the server
  newBalance \* the version of the user's row the transaction has written

vars == <<balance, orders, pc, request, tx, newBalance>>

Steps == {"new", "begin", "update", "insert", "commit", "sent",
          "ok", "insufficient", "error"}

TxStates == {"none", "open", "updated", "inserted", "committing", "committed", "aborted"}

(* What Save can be given: nothing before it looks whether the user has a  *)
(* row, or at the sign or the number of places of the price.               *)
Request == [user : Users \cup {NoUser}, price : Prices]

TypeOK ==
  /\ LedgerTypeOK
  /\ pc \in [OrderIds -> Steps]
  /\ request \in [OrderIds -> Request \cup {NoOrder}]
  /\ tx \in [OrderIds -> TxStates]
  /\ newBalance \in [OrderIds -> Int]

Init ==
  /\ LedgerInit
  /\ pc = [id \in OrderIds |-> "new"]
  /\ request = [id \in OrderIds |-> NoOrder]
  /\ tx = [id \in OrderIds |-> "none"]
  /\ newBalance = [id \in OrderIds |-> 0]

(* From its update to its end a transaction holds the lock on the row of   *)
(* its user.                                                               *)
Holds(id) == tx[id] \in {"updated", "inserted", "committing"}

(* A mutant: the row is read and written back without being locked.        *)
NeverLocked(u) == FALSE
RowLocked(u) == \E id \in OrderIds : Holds(id) /\ request[id].user = u

-----------------------------------------------------------------------------
(* The service calls Save with an order.                                   *)
Save(id, u, p) ==
  /\ pc[id] = "new"
  /\ request' = [request EXCEPT ![id] = [user |-> u, price |-> p]]
  /\ pc' = [pc EXCEPT ![id] = "begin"]
  /\ UNCHANGED <<balance, orders, tx, newBalance>>

BeginTx(id) ==
  /\ pc[id] = "begin"
  /\ pc' = [pc EXCEPT ![id] = "update"]
  /\ tx' = [tx EXCEPT ![id] = "open"]
  /\ UNCHANGED <<balance, orders, request, newBalance>>

(* A mutant of the statement: no condition on the balance.                 *)
AlwaysCovers(id) == request[id].user \in Users

(* The statement's WHERE: the user has a row, and its balance covers the   *)
(* price.                                                                  *)
Covers(id) ==
  request[id].user \in Users /\ balance[request[id].user] >= request[id].price

(* UPDATE users SET balance = balance - price WHERE ... balance >= price:  *)
(* waits while another transaction has the row, then looks at what that    *)
(* transaction left.                                                       *)
UpdateBalance(id) ==
  /\ pc[id] = "update" /\ tx[id] = "open"
  /\ ~RowLocked(request[id].user)
  /\ Covers(id)
  /\ newBalance' = [newBalance EXCEPT ![id] =
       balance[request[id].user] - request[id].price]
  /\ tx' = [tx EXCEPT ![id] = "updated"]
  /\ pc' = [pc EXCEPT ![id] = "insert"]
  /\ UNCHANGED <<balance, orders, request>>

(* A mutant: the count of updated rows is not looked at.                   *)
NoRowsIgnored(id) ==
  /\ pc[id] = "update" /\ tx[id] = "open"
  /\ request[id].user \in Users /\ ~Covers(id)
  /\ pc' = [pc EXCEPT ![id] = "insert"]
  /\ tx' = [tx EXCEPT ![id] = "updated"]
  /\ newBalance' = [newBalance EXCEPT ![id] = balance[request[id].user]]
  /\ UNCHANGED <<balance, orders, request>>

(* The same statement when it finds no row to update, for the balance does *)
(* not cover the price or there is no such user, which Save does not tell  *)
(* apart: it does not wait, for a row that fails the condition is never    *)
(* locked.  Save returns its error and the deferred Rollback ends the      *)
(* transaction, when it gets through.                                      *)
UpdateNoRows(id) ==
  /\ pc[id] = "update" /\ tx[id] = "open"
  /\ ~Covers(id)
  /\ pc' = [pc EXCEPT ![id] = "insufficient"]
  /\ UNCHANGED <<balance, orders, request, tx, newBalance>>

InsertOrder(id) ==
  /\ pc[id] = "insert" /\ tx[id] = "updated"
  /\ tx' = [tx EXCEPT ![id] = "inserted"]
  /\ pc' = [pc EXCEPT ![id] = "commit"]
  /\ UNCHANGED <<balance, orders, request, newBalance>>

SendCommit(id) ==
  /\ pc[id] = "commit" /\ tx[id] = "inserted"
  /\ tx' = [tx EXCEPT ![id] = "committing"]
  /\ pc' = [pc EXCEPT ![id] = "sent"]
  /\ UNCHANGED <<balance, orders, request, newBalance>>

(* The row that the INSERT of a Save writes.                               *)
RowOf(id) == Row(request[id].user, request[id].price)

(* Two mutants of the transaction: the two statements are committed one by *)
(* one, so that the debit is visible first, or the server loses one.       *)
CommitOrderOnly(id) ==
  /\ tx[id] = "committing"
  /\ orders' = [orders EXCEPT ![id] = RowOf(id)]
  /\ tx' = [tx EXCEPT ![id] = "committed"]
  /\ UNCHANGED <<balance, pc, request, newBalance>>

CommitLost(id) ==
  /\ tx[id] = "committing"
  /\ tx' = [tx EXCEPT ![id] = "committed"]
  /\ UNCHANGED <<balance, orders, pc, request, newBalance>>

(* The server commits: both rows become visible at once.                   *)
ServerCommits(id) ==
  /\ tx[id] = "committing"
  /\ balance' = [balance EXCEPT ![request[id].user] = newBalance[id]]
  /\ orders' = [orders EXCEPT ![id] = RowOf(id)]
  /\ tx' = [tx EXCEPT ![id] = "committed"]
  /\ UNCHANGED <<pc, request, newBalance>>

(* A mutant: Save passes on what the server says instead of nil.           *)
CommitAnsweredRaw(id) ==
  /\ pc[id] = "sent" /\ tx[id] = "committed"
  /\ pc' = [pc EXCEPT ![id] = "committed"]
  /\ UNCHANGED <<balance, orders, request, tx, newBalance>>

CommitAnswered(id) ==
  /\ pc[id] = "sent" /\ tx[id] = "committed"
  /\ pc' = [pc EXCEPT ![id] = "ok"]
  /\ UNCHANGED <<balance, orders, request, tx, newBalance>>

(* The context is done, a statement fails or the connection breaks, before *)
(* or while the call waits for the server: Save returns an error.          *)
CallFails(id) ==
  /\ pc[id] \in {"begin", "update", "insert", "commit", "sent"}
  /\ pc' = [pc EXCEPT ![id] = "error"]
  /\ UNCHANGED <<balance, orders, request, tx, newBalance>>

(* A mutant: only a Rollback that is sent undoes a transaction.            *)
AbortsOnRollbackOnly(id) ==
  /\ tx[id] = "open" /\ pc[id] = "insufficient"
  /\ tx' = [tx EXCEPT ![id] = "aborted"]
  /\ UNCHANGED <<balance, orders, pc, request, newBalance>>

(* The deferred Rollback arrives, the server notices that the connection   *)
(* is gone, or it restarts: a transaction that is not committed is undone, *)
(* its lock released.                                                      *)
ServerAborts(id) ==
  /\ tx[id] \in {"open", "updated", "inserted", "committing"}
  /\ tx' = [tx EXCEPT ![id] = "aborted"]
  /\ UNCHANGED <<balance, orders, pc, request, newBalance>>

-----------------------------------------------------------------------------
ClientStep(id) ==
  \/ BeginTx(id) \/ UpdateBalance(id) \/ UpdateNoRows(id)
  \/ InsertOrder(id) \/ SendCommit(id) \/ CommitAnswered(id)

ServerStep(id) == ServerCommits(id) \/ ServerAborts(id)

Next ==
  \E id \in OrderIds :
    \/ \E u \in Users \cup {NoUser}, p \in Prices : Save(id, u, p)
    \/ ClientStep(id) \/ ServerStep(id) \/ CallFails(id)

Returned(id) == pc[id] \in {"ok", "insufficient", "error"}

(* The client's goroutine runs, the server works on what it was sent, the  *)
(* transactions of calls that are over are undone, and a call whose        *)
(* transaction the server has undone learns of it.                         *)
Fairness ==
  \A id \in OrderIds :
    /\ WF_vars(ClientStep(id))
    /\ WF_vars(ServerCommits(id))
    /\ WF_vars(Returned(id) /\ ServerAborts(id))
    /\ WF_vars(tx[id] = "aborted" /\ CallFails(id))

Spec == Init /\ [][Next]_vars

FairSpec == Spec /\ Fairness

-----------------------------------------------------------------------------
(* The transaction implements the ledger.                                  *)
ImplementsLedger == LedgerSpec

(* Two transactions never hold the same user's row.                        *)
RowLockExclusive ==
  \A i, j \in OrderIds :
    Holds(i) /\ Holds(j) /\ request[i].user = request[j].user => i = j

(* While a transaction holds a user's row, the row changes in no step but  *)
(* the one in which that transaction commits.                              *)
HeldRowKept ==
  [][\A id \in OrderIds :
       Holds(id) /\ balance'[request[id].user] # balance[request[id].user] =>
         tx'[id] = "committed"]_vars

(* A Save has an order to write from its first step on, a transaction only *)
(* after BeginTx, a debit only for a user with a row, and its order is in  *)
(* the table when the transaction has committed and not before.            *)
StoredWhenCommitted ==
  \A id \in OrderIds :
    /\ request[id] = NoOrder <=> pc[id] = "new"
    /\ pc[id] \in {"new", "begin"} => tx[id] = "none"
    /\ tx[id] # "none" => request[id] # NoOrder
    /\ tx[id] \notin {"none", "open", "aborted"} => request[id].user \in Users
    /\ orders[id] = IF tx[id] = "committed" THEN RowOf(id) ELSE NoOrder

(* A debit in progress was computed from the balance that is still there:  *)
(* no other Save has touched the row since, and the balance covers it.     *)
DebitIsCurrent ==
  \A id \in OrderIds :
    Holds(id) =>
      /\ newBalance[id] = balance[request[id].user] - request[id].price
      /\ balance[request[id].user] >= request[id].price

(* Save's answers can be relied on as far as they go: after OK the order   *)
(* is in the table, and after "insufficient balance or user not found" it  *)
(* is not and never will be.  (After any other error it may be: see        *)
(* CallFails.)                                                             *)
AnswersAreFinal ==
  \A id \in OrderIds :
    /\ pc[id] = "ok" => orders[id] = RowOf(id)
    /\ pc[id] = "insufficient" =>
         orders[id] = NoOrder /\ tx[id] \in {"open", "aborted"}

(* Every Save returns: the wait for another Save's row lock always ends,   *)
(* even when the client of that Save is gone.                              *)
EverySaveReturns == \A id \in OrderIds : pc[id] = "begin" ~> Returned(id)
=============================================================================
