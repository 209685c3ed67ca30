------------------------------ MODULE OrderTx ------------------------------
(***************************************************************************)
(* The transactions of OrderPayments that write several rows, statement by *)
(* statement: proof uploads, approvals, rejections and webhooks.  The      *)
(* variables of OrderPayments are the committed rows; a transaction keeps  *)
(* its own versions until it commits, and holds its row locks as long.     *)
(*                                                                         *)
(* Locks are PostgreSQL's: "update" is FOR UPDATE, "nokey" what an UPDATE  *)
(* takes, "keyshare" what a foreign key takes on the row referred to.  A   *)
(* transaction that waits in a cycle is rolled back by the database, and   *)
(* any may be rolled back when its connection or its request is lost.      *)
(* Transactions that lock one row and then wait for nobody are             *)
(* OrderPayments' own actions, possible while nobody else holds the row.   *)
(***************************************************************************)
EXTENDS OrderPayments, Sequences

CONSTANTS
  Calls,    \* requests to approve, to reject, or by the webhook
  CallOf    \* what each of them is, and for which order

Kinds == {"approve", "reject", "webhook"}

ASSUME CallOfAssumption == CallOf \in [Calls -> [kind : Kinds, order : Orders]]
ASSUME CallsAssumption == IsFiniteSet(Calls) /\ Calls \cap Uploads = {}
ASSUME ProductsAssumption == IsFiniteSet(Products)

Transactions == Uploads \union Calls

VARIABLES
  step,    \* the statement each transaction is at
  locks,   \* pairs of a row and a mode
  todo,    \* products an approval has yet to deduct, in the order of its items
  writes   \* the versions it has written

txVars == <<step, locks, todo, writes>>
allVars == <<vars, txVars>>

OrderIn(t) == IF t \in Uploads THEN upload[t].order ELSE CallOf[t].order

IsCall(t, kind) == t \in Calls /\ CallOf[t].kind = kind

----------------------------------------------------------------------------
(* Rows, locks and versions *)

OrderLock(o, mode) == <<<<"order", o>>, mode>>
Row(table, key) == <<<<table, key>>, "nokey">>

Conflicting(m, n) ==
  \/ "update" \in {m, n}
  \/ m = "nokey" /\ n = "nokey"

\* Who keeps t from taking the lock.
Holders(t, lock) ==
  {u \in Transactions \ {t} :
     \E l \in locks[u] : l[1] = lock[1] /\ Conflicting(l[2], lock[2])}

Unlocked(lock) ==
  \A u \in Transactions :
    \A l \in locks[u] : l[1] = lock[1] => ~Conflicting(l[2], lock[2])

Nothing == <<>>

NoWrites ==
  [orders |-> Nothing, payments |-> Nothing, stock |-> Nothing,
   vendorOrders |-> Nothing, vendorPayouts |-> Nothing, proofs |-> Nothing]

\* One more row version in a table of a transaction.
With(written, key, value) ==
  [k \in DOMAIN written \union {key} |-> IF k = key THEN value ELSE written[k]]

\* The rows of a table, as they are once the transaction has committed; the
\* second form is for the tables with a row for each order and vendor.
Committed(table, written) ==
  [k \in DOMAIN table |-> IF k \in DOMAIN written THEN written[k] ELSE table[k]]

CommittedByVendor(table, written) ==
  [o \in Orders |-> [v \in Vendors |->
     IF <<o, v>> \in DOMAIN written THEN written[<<o, v>>] ELSE table[o][v]]]

TxInit ==
  /\ Init
  /\ step = [t \in Transactions |-> "idle"]
  /\ locks = [t \in Transactions |-> {}]
  /\ todo = [t \in Transactions |-> <<>>]
  /\ writes = [t \in Transactions |-> NoWrites]

----------------------------------------------------------------------------
(* The steps a transaction is made of *)

\* Mistake: the administrator's SELECT takes no lock.
PlainRead(t) == {}

DecisionLock(t) == {OrderLock(OrderIn(t), "update")}

Unpaid(o) == {v \in Vendors : vendorPayouts[o][v] = "unpaid"}

\* The locks the statement at hand needs; a lock it already holds costs nothing.
Wants(t) ==
  LET o == OrderIn(t) IN
  IF step[t] = "decide" THEN DecisionLock(t)
  ELSE IF step[t] = "insert" THEN {OrderLock(o, "keyshare")}
  ELSE IF step[t] = "event" THEN
    \* ON CONFLICT DO NOTHING waits for the row's inserter, not for the row.
    IF o \in webhookEvents THEN {} ELSE {Row("webhook_event", o)}
  ELSE IF step[t] = "deduct" /\ todo[t] # <<>> THEN {Row("product", Head(todo[t]))}
  ELSE IF step[t] = "settle" THEN
    {OrderLock(o, "nokey")}
      \union {Row("vendor_order", <<o, v>>) : v \in VendorsIn(o)}
      \union {Row("vendor_payout", <<o, v>>) : v \in Unpaid(o)}
  ELSE IF step[t] = "order" THEN
    \* The webhook's UPDATE passes over an order that is already paid.
    IF IsCall(t, "webhook") /\ orders[o].status = "paid" THEN {}
    ELSE {OrderLock(o, "nokey")}
  ELSE IF step[t] = "payment" THEN {Row("payment", o)}
  ELSE {}

WaitsFor(t) == UNION {Holders(t, lock) : lock \in Wants(t)}

\* t runs its statement and goes on to the next.
Runs(t, at, next) ==
  /\ step[t] = at
  /\ WaitsFor(t) = {}
  /\ step' = [step EXCEPT ![t] = next]
  /\ locks' = [locks EXCEPT ![t] = @ \union Wants(t)]

\* The deferred Rollback of db.WithTx, or the end of the connection.  Mistake:
\* it is missing, and the transaction stays open.
LocksKept(t) == locks

LocksReleased(t) == [locks EXCEPT ![t] = {}]

Ends(t) ==
  /\ step' = [step EXCEPT ![t] = "ended"]
  /\ todo' = [todo EXCEPT ![t] = <<>>]
  /\ writes' = [writes EXCEPT ![t] = NoWrites]

----------------------------------------------------------------------------
(* UploadPaymentProof *)

UploadStart(r) ==
  /\ step[r] = "idle"
  /\ UploadRead(r)
  /\ step' = [step EXCEPT ![r] = "save"]
  /\ UNCHANGED <<locks, todo, writes>>

UploadSave(r) ==
  /\ step[r] = "save"
  /\ UploadSaveFile(r)
  /\ step' = [step EXCEPT ![r] = "insert"]
  /\ UNCHANGED <<locks, todo, writes>>

UploadInsertProof(r) ==
  /\ Runs(r, "insert", "order")
  /\ writes' = [writes EXCEPT ![r].proofs = With(@, r, "pending")]
  /\ UNCHANGED <<todo, vars>>

UploadOrder(r) ==
  LET o == OrderIn(r) IN
  /\ r \in Uploads
  /\ Runs(r, "order", "payment")
  /\ writes' = [writes EXCEPT ![r].orders = With(@, o, UnderReview(orders[o]))]
  /\ UNCHANGED <<todo, vars>>

UploadPayment(r) ==
  LET o == OrderIn(r) IN
  /\ r \in Uploads
  /\ Runs(r, "payment", "commit")
  /\ writes' = [writes EXCEPT ![r].payments = With(@, o, "proof_uploaded")]
  /\ UNCHANGED <<todo, vars>>

----------------------------------------------------------------------------
(* AdminApprovePayment and AdminRejectPayment *)

\* A request arrives for an order that exists.
CallStart(c) ==
  /\ step[c] = "idle"
  /\ OrderIn(c) \in Placed
  /\ step' = [step EXCEPT ![c] = IF IsCall(c, "webhook") THEN "event" ELSE "decide"]
  /\ UNCHANGED <<locks, todo, writes, vars>>

\* A set in every order: a SELECT without ORDER BY may return any.
Arrangements(S) ==
  {s \in [1 .. Cardinality(S) -> S] : \A x \in S : \E i \in DOMAIN s : s[i] = x}

\* Mistake: the SELECT is not confined to the order.
ItemsOfAnyOrder(o) == Arrangements(Products)

ItemOrders(o) == Arrangements(Contents(o))

ApproveSelect(c) ==
  /\ IsCall(c, "approve")
  /\ Approvable(OrderIn(c))
  /\ Runs(c, "decide", "deduct")
  /\ \E s \in ItemOrders(OrderIn(c)) : todo' = [todo EXCEPT ![c] = s]
  /\ UNCHANGED <<writes, vars>>

RejectSelect(c) ==
  /\ IsCall(c, "reject")
  /\ Rejectable(OrderIn(c))
  /\ Runs(c, "decide", "order")
  /\ UNCHANGED <<todo, writes, vars>>

\* Mistake: the deduction has no condition on the stock.
InStockAssumed(c) == TRUE

InStockOf(c) == stock[Head(todo[c])] >= items[OrderIn(c)][Head(todo[c])]

ApproveDeduct(c) ==
  LET p == Head(todo[c]) IN
  /\ todo[c] # <<>>
  /\ InStockOf(c)
  /\ Runs(c, "deduct", IF Len(todo[c]) = 1 THEN "settle" ELSE "deduct")
  /\ todo' = [todo EXCEPT ![c] = Tail(@)]
  /\ writes' = [writes EXCEPT ![c].stock = With(@, p, stock[p] - items[OrderIn(c)][p])]
  /\ UNCHANGED vars

\* The order, its vendor orders and its vendor payouts, whose rows nobody holds
\* across two statements.
ApproveSettle(c) ==
  LET o == OrderIn(c) IN
  /\ Runs(c, "settle", "payment")
  /\ writes' = [writes EXCEPT
       ![c].orders = With(@, o, ApprovedOrder),
       ![c].vendorOrders =
         [k \in {o} \X VendorsIn(o) |-> ReadyVendorOrder],
       ![c].vendorPayouts =
         [k \in {o} \X Unpaid(o) |-> QueuePayout(vendorPayouts[o][k[2]])]]
  /\ UNCHANGED <<todo, vars>>

RejectOrder(c) ==
  LET o == OrderIn(c) IN
  /\ IsCall(c, "reject")
  /\ Runs(c, "order", "payment")
  /\ writes' = [writes EXCEPT ![c].orders = With(@, o, RejectedOrder(orders[o]))]
  /\ UNCHANGED <<todo, vars>>

DecisionPayment(c) ==
  LET status == IF IsCall(c, "approve") THEN "success" ELSE "failed" IN
  /\ IsCall(c, "approve") \/ IsCall(c, "reject")
  /\ Runs(c, "payment", "review")
  /\ writes' = [writes EXCEPT ![c].payments = With(@, OrderIn(c), status)]
  /\ UNCHANGED <<todo, vars>>

\* The proofs pending when the statement runs.
DecisionReview(c) ==
  LET verdict == IF IsCall(c, "approve") THEN "approved" ELSE "rejected" IN
  /\ Runs(c, "review", "commit")
  /\ writes' = [writes EXCEPT
       ![c].proofs = [r \in ProofsOf(OrderIn(c), "pending") |-> verdict]]
  /\ UNCHANGED <<todo, vars>>

\* The order has been paid or is not under review, or a product is short: the
\* transaction is over.
DecisionRefused(c) ==
  /\ WaitsFor(c) = {}
  /\ \/ step[c] = "decide" /\ IsCall(c, "approve") /\ ~Approvable(OrderIn(c))
     \/ step[c] = "decide" /\ IsCall(c, "reject") /\ ~Rejectable(OrderIn(c))
     \/ step[c] = "deduct" /\ todo[c] # <<>> /\ ~InStockOf(c)
  /\ Ends(c)
  /\ locks' = LocksReleased(c)
  /\ UNCHANGED vars

----------------------------------------------------------------------------
(* ProcessPaystackSuccess *)

\* A second call for the same reference waits for the first.
WebhookEvent(c) ==
  /\ Runs(c, "event", "payment")
  /\ UNCHANGED <<todo, writes, vars>>

WebhookPayment(c) ==
  /\ IsCall(c, "webhook")
  /\ Runs(c, "payment", "order")
  /\ writes' = [writes EXCEPT ![c].payments = With(@, OrderIn(c), "success")]
  /\ UNCHANGED <<todo, vars>>

\* What follows, the loop over the items, is refused statement by statement
\* (ConnAccepts).
WebhookOrder(c) ==
  LET o == OrderIn(c) IN
  /\ IsCall(c, "webhook")
  /\ Runs(c, "order", "commit")
  /\ writes' = IF orders[o].status = "paid" THEN writes
               ELSE [writes EXCEPT ![c].orders = With(@, o, WebhookPaid(orders[o]))]
  /\ UNCHANGED <<todo, vars>>

----------------------------------------------------------------------------
(* The end of a transaction *)

Commit(t) ==
  LET o == OrderIn(t)
      w == writes[t]
  IN
  /\ step[t] = "commit"
  /\ orders' = Committed(orders, w.orders)
  /\ payments' = Committed(payments, w.payments)
  /\ stock' = Committed(stock, w.stock)
  /\ vendorOrders' = CommittedByVendor(vendorOrders, w.vendorOrders)
  /\ vendorPayouts' = CommittedByVendor(vendorPayouts, w.vendorPayouts)
  /\ proofs' = Committed(proofs, w.proofs)
  /\ approvals' = IF IsCall(t, "approve") THEN [approvals EXCEPT ![o] = @ + 1] ELSE approvals
  /\ upload' = IF t \in Uploads
               THEN [upload EXCEPT ![t].pc = "done", ![t].wroteAt = approvals[o]]
               ELSE upload
  /\ webhookEvents' = IF IsCall(t, "webhook") THEN webhookEvents \union {o} ELSE webhookEvents
  /\ UNCHANGED <<phase, items, files, credited>>
  /\ Ends(t)
  /\ locks' = [locks EXCEPT ![t] = {}]

Rollback(t) ==
  /\ step[t] \notin {"idle", "ended"}
  /\ IF t \in Uploads THEN UploadFail(t) ELSE UNCHANGED vars
  /\ Ends(t)
  /\ locks' = LocksReleased(t)

\* Transactions that wait for each other; the database rolls one of them back.
Deadlocked(t) ==
  /\ WaitsFor(t) # {}
  /\ LET waiting == {u \in Transactions : WaitsFor(u) # {}} IN
     \E D \in SUBSET waiting :
       t \in D /\ \A u \in D : WaitsFor(u) \cap D # {}

BreakDeadlock(t) == Deadlocked(t) /\ Rollback(t)

----------------------------------------------------------------------------

Advance(t) ==
  \/ t \in Uploads /\ (UploadSave(t) \/ UploadInsertProof(t) \/ UploadOrder(t) \/ UploadPayment(t))
  \/ t \in Calls /\ (ApproveSelect(t) \/ ApproveDeduct(t) \/ ApproveSettle(t)
                       \/ RejectSelect(t) \/ RejectOrder(t)
                       \/ DecisionPayment(t) \/ DecisionReview(t) \/ DecisionRefused(t)
                       \/ WebhookEvent(t) \/ WebhookPayment(t) \/ WebhookOrder(t))
  \/ Commit(t)

\* Transactions that lock a single row, and checkouts, whose rows nobody else
\* knows of before they commit.
OneRow ==
  /\ \/ \E o \in Orders : Checkout(o)
     \/ \E o \in Orders, v \in Vendors :
          Unlocked(Row("vendor_payout", <<o, v>>)) /\ AdminMarkVendorPayoutPaid(o, v)
     \/ \E o \in Orders, v \in Vendors, s \in Reported :
          Unlocked(Row("vendor_order", <<o, v>>)) /\ VendorUpdateFulfillment(o, v, s)
     \/ \E p \in Products, n \in StockLevels :
          Unlocked(Row("product", p)) /\ VendorSetStock(p, n)
  /\ UNCHANGED txVars

TxNext ==
  \/ \E r \in Uploads : UploadStart(r)
  \/ \E c \in Calls : CallStart(c)
  \/ \E t \in Transactions : Advance(t) \/ BreakDeadlock(t) \/ Rollback(t)
  \/ OneRow

\* As long as some transaction can go on, one does, and the database looks for
\* deadlocks; nothing says which comes first, or that requests arrive.
Fairness ==
  /\ WF_allVars(\E t \in Transactions : Advance(t))
  /\ WF_allVars(\E t \in Transactions : BreakDeadlock(t))

TxSpec == TxInit /\ [][TxNext]_allVars /\ Fairness

----------------------------------------------------------------------------
(* Correctness *)

Steps == {"idle", "save", "insert", "decide", "deduct", "settle", "event",
          "order", "payment", "review", "commit", "ended"}

\* Every variable has its type.
TxTypeOK ==
  /\ TypeOK
  /\ step \in [Transactions -> Steps]
  /\ \A t \in Transactions :
       /\ \A l \in locks[t] : l[2] \in {"update", "nokey", "keyshare"}
       /\ todo[t] \in Seq(Contents(OrderIn(t)))
       /\ DOMAIN writes[t].orders \subseteq {OrderIn(t)}
       /\ DOMAIN writes[t].stock \subseteq Contents(OrderIn(t))
       /\ \A r \in DOMAIN writes[t].proofs : upload[r].order = OrderIn(t)

\* Transactions may be thought of as atomic: whatever the order in which they
\* take their locks, wait and are rolled back, the committed rows change as
\* OrderPayments says.
ImplementsOrderPayments == Spec

\* Every transaction that has begun ends, although it may have to wait for
\* others which wait for it: again and again none is under way.
TransactionsEnd == []<>(\A t \in Transactions : step[t] \in {"idle", "ended"})
=============================================================================
