--------------------------- MODULE OrderTxProofs ---------------------------
(***************************************************************************)
(* OrderTx implements OrderPayments, for any orders, calls and uploads: a  *)
(* commit is one of its actions, every other statement changes nothing it  *)
(* can see.                                                                *)
(***************************************************************************)
EXTENDS OrderTx, OrderPaymentsProofs, SequenceTheorems

----------------------------------------------------------------------------
(* What no step of OrderPayments undoes *)

\* The vendor orders of a placed order are those of its vendors.
VendorOrdersOfVendors ==
  \A o \in Placed, v \in Vendors : vendorOrders[o][v] = NoVendorOrder <=> v \notin VendorsIn(o)

LEMMA VendorOrdersDiffer ==
  NewVendorOrder # NoVendorOrder /\ ReadyVendorOrder # NoVendorOrder
BY VendorRows

Steady(o) ==
  /\ o \in Placed'
  /\ items'[o] = items[o]
  /\ orders[o].status = "paid" => orders'[o].status = "paid"
  /\ Unpaid(o)' \subseteq Unpaid(o)
  /\ \A v \in Vendors : vendorOrders'[o][v] = NoVendorOrder <=> vendorOrders[o][v] = NoVendorOrder

LEMMA PlacedSteady ==
  ASSUME IInv, [Next]_vars, NEW o \in Placed
  PROVE  Steady(o)
<1> USE DEF Steady, Placed, Unpaid
<1>1. /\ o \in Orders /\ phase[o] = "placed" /\ orders[o] \in OrderRow
      /\ TypeOK /\ ApprovedOrder.status = "paid"
  BY DEF IInv, TypeOK, ApprovedOrder
<1>2. ASSUME NEW x \in Orders, Checkout(x)
      PROVE  Steady(o)
  BY <1>1, <1>2 DEF Checkout, CheckoutItem, CheckoutRefused, PlaceOrder, TypeOK
<1>3. ASSUME NEW r \in Uploads, Upload(r)
      PROVE  Steady(o)
  <2>1. upload[r].order \in Orders
    BY <1>1 DEF TypeOK, UploadState
  <2>2. CASE UploadCommit(r)
    <3>1. orders'[o] = orders[o] \/ orders'[o] = UnderReview(orders[o])
      BY <1>1, <2>1, <2>2 DEF UploadCommit, TypeOK
    <3>2. orders'[o].status = orders[o].status
      BY <1>1, <3>1, Rows
    <3>. QED
      BY <1>1, <2>2, <3>2 DEF UploadCommit
  <2>3. CASE ~UploadCommit(r)
    BY <1>1, <1>3, <2>3 DEF Upload, UploadRead, UploadSaveFile, UploadFail
  <2>. QED
    BY <2>2, <2>3
<1>4. ASSUME NEW x \in Orders, AdminApprovePayment(x)
      PROVE  Steady(o)
  <2>1. orders'[o] = orders[o] \/ orders'[o] = ApprovedOrder
    BY <1>1, <1>4 DEF AdminApprovePayment, TypeOK
  <2>2. /\ UNCHANGED <<phase, items>>
        /\ \A v \in Vendors :
             /\ vendorOrders'[o][v] = NoVendorOrder <=> vendorOrders[o][v] = NoVendorOrder
             /\ vendorPayouts'[o][v] = "unpaid" => vendorPayouts[o][v] = "unpaid"
    BY <1>1, <1>4, VendorOrdersDiffer DEF AdminApprovePayment, TypeOK, QueuePayout
  <2>. QED
    BY <1>1, <2>1, <2>2
<1>5. ASSUME NEW x \in Orders, AdminRejectPayment(x)
      PROVE  Steady(o)
  <2>1. orders'[o] = orders[o] \/ orders'[o] = RejectedOrder(orders[o])
    BY <1>1, <1>5 DEF AdminRejectPayment, TypeOK
  <2>2. orders'[o].status = orders[o].status
    BY <1>1, <2>1, Rows
  <2>. QED
    BY <1>1, <1>5, <2>2 DEF AdminRejectPayment
<1>6. ASSUME NEW x \in Orders, NEW w \in Vendors, AdminMarkVendorPayoutPaid(x, w)
      PROVE  Steady(o)
  BY <1>1, <1>6 DEF AdminMarkVendorPayoutPaid, TypeOK
<1>7. ASSUME NEW x \in Orders, ProcessPaystackSuccess(x)
      PROVE  Steady(o)
  <2>1. orders'[o] = orders[o] \/ orders'[o] = WebhookPaid(orders[o])
    BY <1>1, <1>7 DEF ProcessPaystackSuccess, TypeOK
  <2>2. orders'[o].status = orders[o].status \/ orders'[o].status = "paid"
    BY <1>1, <2>1, Rows
  <2>. QED
    BY <1>1, <1>7, <2>2 DEF ProcessPaystackSuccess
<1>8. CASE Vendor
  <2>1. ASSUME NEW x \in Orders, NEW w \in Vendors, NEW s \in Reported, VendorUpdateFulfillment(x, w, s)
        PROVE  Steady(o)
    <3>1. \A v \in Vendors :
            vendorOrders'[o][v] = NoVendorOrder <=> vendorOrders[o][v] = NoVendorOrder
      BY <1>1, <2>1, Reporting, ReportedAssumption DEF VendorUpdateFulfillment, TypeOK
    <3>. QED
      BY <1>1, <2>1, <3>1 DEF VendorUpdateFulfillment
  <2>2. ASSUME NEW p \in Products, NEW n \in StockLevels, VendorSetStock(p, n)
        PROVE  Steady(o)
    BY <1>1, <2>2 DEF VendorSetStock
  <2>. QED
    BY <1>8, <2>1, <2>2 DEF Vendor
<1>9. CASE UNCHANGED vars
  BY <1>1, <1>9 DEF vars
<1>. QED
  BY <1>2, <1>3, <1>4, <1>5, <1>6, <1>7, <1>8, <1>9 DEF Next, Admin

LEMMA VendorOrdersSteady ==
  ASSUME IInv, VendorOrdersOfVendors, [Next]_vars
  PROVE  VendorOrdersOfVendors'
<1> SUFFICES ASSUME NEW o \in Placed', NEW v \in Vendors
             PROVE  vendorOrders'[o][v] = NoVendorOrder <=> v \notin VendorsIn(o)'
  BY DEF VendorOrdersOfVendors
<1>1. CASE o \in Placed
  <2>1. Steady(o)
    BY <1>1, PlacedSteady
  <2>2. VendorsIn(o)' = VendorsIn(o)
    BY <2>1 DEF Steady, VendorsIn, Contents
  <2>. QED
    BY <1>1, <2>1, <2>2 DEF Steady, VendorOrdersOfVendors
<1>2. CASE o \notin Placed
  <2>1. o \in Orders /\ phase[o] # "placed" /\ phase'[o] = "placed" /\ TypeOK
    BY <1>2 DEF Placed, IInv
  <2>2. PlaceOrder(o)
    BY <2>1 DEF Next, Checkout, CheckoutItem, CheckoutRefused, PlaceOrder, Upload, UploadRead,
                UploadSaveFile, UploadCommit, UploadFail, Admin, AdminApprovePayment,
                AdminRejectPayment, AdminMarkVendorPayoutPaid, ProcessPaystackSuccess, Vendor,
                VendorUpdateFulfillment, VendorSetStock, vars, TypeOK
  <2>3. VendorsIn(o)' = VendorsIn(o)
    BY <2>2 DEF PlaceOrder, VendorsIn, Contents
  <2>. QED
    BY <2>1, <2>2, <2>3, VendorOrdersDiffer DEF PlaceOrder, TypeOK
<1>. QED
  BY <1>1, <1>2

----------------------------------------------------------------------------
(* The inductive invariant *)

Tables == {"orders", "payments", "stock", "vendorOrders", "vendorPayouts", "proofs"}

Shape ==
  /\ DOMAIN step = Transactions /\ DOMAIN locks = Transactions
  /\ DOMAIN todo = Transactions /\ DOMAIN writes = Transactions
  /\ \A t \in Transactions : DOMAIN writes[t] = Tables

\* No two transactions hold locks that conflict.
LocksExclude ==
  \A t, u \in Transactions :
    t # u => \A l \in locks[t], k \in locks[u] : l[1] = k[1] => ~Conflicting(l[2], k[2])

\* An upload has locked what it has written, so that this is still what it would write.
UploadTx(r) ==
  LET o == upload[r].order
      w == writes[r]
  IN
  /\ step[r] \in {"idle", "save", "insert", "order", "payment", "commit", "ended"}
  /\ step[r] \in {"insert", "order", "payment", "commit"} => upload[r].pc = "saved"
  /\ DOMAIN w.proofs = IF step[r] \in {"order", "payment", "commit"} THEN {r} ELSE {}
  /\ DOMAIN w.orders = IF step[r] \in {"payment", "commit"} THEN {o} ELSE {}
  /\ DOMAIN w.payments = IF step[r] = "commit" THEN {o} ELSE {}
  /\ DOMAIN w.stock = {} /\ DOMAIN w.vendorOrders = {} /\ DOMAIN w.vendorPayouts = {}
  /\ r \in DOMAIN w.proofs => w.proofs[r] = "pending" /\ OrderLock(o, "keyshare") \in locks[r]
  /\ o \in DOMAIN w.orders => w.orders[o] = UnderReview(orders[o]) /\ OrderLock(o, "nokey") \in locks[r]
  /\ o \in DOMAIN w.payments => w.payments[o] = "proof_uploaded"

\* A decision holds its order from the time it has read it.
DecisionTx(c, verdict, status) ==
  LET o == CallOf[c].order
      w == writes[c]
  IN
  /\ step[c] \notin {"idle", "ended"} => o \in Placed
  /\ step[c] \notin {"idle", "decide", "ended"} => OrderLock(o, "update") \in locks[c]
  /\ DOMAIN w.orders = IF step[c] \in {"payment", "review", "commit"} THEN {o} ELSE {}
  /\ DOMAIN w.payments = IF step[c] \in {"review", "commit"} THEN {o} ELSE {}
  /\ DOMAIN w.proofs = IF step[c] = "commit" THEN ProofsOf(o, "pending") ELSE {}
  /\ o \in DOMAIN w.payments => w.payments[o] = status
  /\ \A r \in DOMAIN w.proofs : w.proofs[r] = verdict

ApproveTx(c) ==
  LET o == CallOf[c].order
      w == writes[c]
      settled == step[c] \in {"payment", "review", "commit"}
  IN
  /\ step[c] \in {"idle", "decide", "deduct", "settle", "payment", "review", "commit", "ended"}
  /\ DecisionTx(c, "approved", "success")
  /\ step[c] \notin {"idle", "decide", "ended"} => Approvable(o)
  /\ step[c] \in {"idle", "decide", "ended"} => DOMAIN w.stock = {}
  /\ DOMAIN w.stock \subseteq Contents(o)
  /\ \A p \in DOMAIN w.stock :
       /\ Row("product", p) \in locks[c]
       /\ w.stock[p] = stock[p] - items[o][p] /\ stock[p] >= items[o][p]
  /\ step[c] = "deduct" =>
       /\ todo[c] \in Seq(Contents(o))
       /\ \A p \in Contents(o) \ DOMAIN w.stock : \E i \in 1 .. Len(todo[c]) : todo[c][i] = p
  /\ step[c] = "settle" \/ settled => DOMAIN w.stock = Contents(o)
  /\ DOMAIN w.vendorOrders = IF settled THEN {o} \X VendorsIn(o) ELSE {}
  /\ DOMAIN w.vendorPayouts = IF settled THEN {o} \X Unpaid(o) ELSE {}
  /\ settled =>
       /\ w.orders[o] = ApprovedOrder
       /\ \A v \in VendorsIn(o) : w.vendorOrders[<<o, v>>] = ReadyVendorOrder
       /\ \A v \in Unpaid(o) : /\ w.vendorPayouts[<<o, v>>] = "queued"
                               /\ Row("vendor_payout", <<o, v>>) \in locks[c]

RejectTx(c) ==
  LET o == CallOf[c].order
      w == writes[c]
  IN
  /\ step[c] \in {"idle", "decide", "order", "payment", "review", "commit", "ended"}
  /\ DecisionTx(c, "rejected", "failed")
  /\ step[c] \notin {"idle", "decide", "ended"} => Rejectable(o)
  /\ DOMAIN w.stock = {} /\ DOMAIN w.vendorOrders = {} /\ DOMAIN w.vendorPayouts = {}
  /\ o \in DOMAIN w.orders => w.orders[o] = RejectedOrder(orders[o])

WebhookTx(c) ==
  LET o == CallOf[c].order
      w == writes[c]
  IN
  /\ step[c] \in {"idle", "event", "payment", "order", "commit", "ended"}
  /\ step[c] \notin {"idle", "ended"} => o \in Placed
  /\ DOMAIN w.payments = IF step[c] \in {"order", "commit"} THEN {o} ELSE {}
  /\ DOMAIN w.orders = {} \/ (step[c] = "commit" /\ DOMAIN w.orders = {o})
  /\ DOMAIN w.proofs = {} /\ DOMAIN w.stock = {}
  /\ DOMAIN w.vendorOrders = {} /\ DOMAIN w.vendorPayouts = {}
  /\ o \in DOMAIN w.payments => w.payments[o] = "success"
  /\ o \in DOMAIN w.orders => w.orders[o] = WebhookPaid(orders[o]) /\ OrderLock(o, "nokey") \in locks[c]
  /\ step[c] = "commit" /\ DOMAIN w.orders = {} => orders[o].status = "paid"

TxOf(t) ==
  /\ t \in Uploads => UploadTx(t)
  /\ IsCall(t, "approve") => ApproveTx(t)
  /\ IsCall(t, "reject") => RejectTx(t)
  /\ IsCall(t, "webhook") => WebhookTx(t)

TxInv ==
  /\ IInv
  /\ VendorOrdersOfVendors
  /\ Shape
  /\ LocksExclude
  /\ \A t \in Transactions : TxOf(t)

----------------------------------------------------------------------------
(* Locks *)

LEMMA CallTypes ==
  /\ \A c \in Calls : /\ CallOf[c].order \in Orders /\ c \notin Uploads
                      /\ IsCall(c, "approve") \/ IsCall(c, "reject") \/ IsCall(c, "webhook")
                      /\ OrderIn(c) = CallOf[c].order
  /\ \A r \in Uploads : /\ r \in Transactions /\ OrderIn(r) = upload[r].order
                        /\ \A k : ~IsCall(r, k)
  /\ TypeOK => \A r \in Uploads : upload[r].order \in Orders
BY CallOfAssumption, CallsAssumption DEF IsCall, Kinds, OrderIn, Transactions, TypeOK, UploadState

LEMMA Exclusion ==
  ASSUME LocksExclude, NEW t \in Transactions, NEW u \in Transactions, t # u
  PROVE  /\ \A o, m : OrderLock(o, "update") \in locks[t] => OrderLock(o, m) \notin locks[u]
         /\ \A o : OrderLock(o, "nokey") \in locks[t] => OrderLock(o, "nokey") \notin locks[u]
         /\ \A table, key : Row(table, key) \in locks[t] => Row(table, key) \notin locks[u]
<1>1. \A o, m : OrderLock(o, m)[1] = <<"order", o>> /\ OrderLock(o, m)[2] = m
  BY DEF OrderLock
<1>2. \A table, key : Row(table, key)[1] = <<table, key>> /\ Row(table, key)[2] = "nokey"
  BY DEF Row
<1>3. \A m : Conflicting("update", m)
  BY DEF Conflicting
<1>4. Conflicting("nokey", "nokey")
  BY DEF Conflicting
<1>5. \A l \in locks[t], k \in locks[u] : l[1] = k[1] => ~Conflicting(l[2], k[2])
  BY DEF LocksExclude
<1>6. \A o, m : OrderLock(o, "update") \in locks[t] => OrderLock(o, m) \notin locks[u]
  BY <1>1, <1>3, <1>5
<1>7. \A o : OrderLock(o, "nokey") \in locks[t] => OrderLock(o, "nokey") \notin locks[u]
  BY <1>1, <1>4, <1>5
<1>8. \A table, key : Row(table, key) \in locks[t] => Row(table, key) \notin locks[u]
  BY <1>2, <1>4, <1>5
<1>. QED
  BY <1>6, <1>7, <1>8

\* What a transaction does when it runs a statement.
LEMMA RunsLocks ==
  ASSUME Shape, LocksExclude, NEW t \in Transactions, NEW at, NEW next, Runs(t, at, next)
  PROVE  /\ step[t] = at /\ step'[t] = next
         /\ locks'[t] = locks[t] \union Wants(t)
         /\ \A u \in Transactions \ {t} : step'[u] = step[u] /\ locks'[u] = locks[u]
         /\ DOMAIN step' = Transactions /\ DOMAIN locks' = Transactions
         /\ LocksExclude'
<1>1. /\ step[t] = at /\ step'[t] = next
      /\ locks'[t] = locks[t] \union Wants(t)
      /\ \A u \in Transactions \ {t} : step'[u] = step[u] /\ locks'[u] = locks[u]
      /\ DOMAIN step' = Transactions /\ DOMAIN locks' = Transactions
  BY DEF Runs, Shape
<1>2. \A m, n : Conflicting(m, n) <=> Conflicting(n, m)
  BY DEF Conflicting
<1>3. ASSUME NEW u \in Transactions \ {t}, NEW l \in locks'[t], NEW k \in locks[u], l[1] = k[1]
      PROVE  ~Conflicting(l[2], k[2])
  <2>1. CASE l \in locks[t]
    BY <1>3, <2>1 DEF LocksExclude
  <2>2. CASE l \in Wants(t)
    <3>1. u \notin Holders(t, l)
      BY <2>2 DEF Runs, WaitsFor
    <3>2. ~Conflicting(k[2], l[2])
      BY <1>3, <3>1 DEF Holders
    <3>. QED
      BY <1>2, <3>2
  <2>. QED
    BY <1>1, <2>1, <2>2
<1>4. ASSUME NEW x \in Transactions, NEW y \in Transactions, x # y,
             NEW l \in locks'[x], NEW k \in locks'[y], l[1] = k[1]
      PROVE  ~Conflicting(l[2], k[2])
  <2>1. CASE x = t
    BY <1>1, <1>3, <1>4, <2>1
  <2>2. CASE y = t
    BY <1>1, <1>2, <1>3, <1>4, <2>2
  <2>3. CASE x # t /\ y # t
    BY <1>1, <1>4, <2>3 DEF LocksExclude
  <2>. QED
    BY <2>1, <2>2, <2>3
<1>5. LocksExclude'
  BY <1>4 DEF LocksExclude, Transactions
<1>. QED
  BY <1>1, <1>5

----------------------------------------------------------------------------
(* A transaction is not disturbed by what the others may do meanwhile *)

OwnKept(u) ==
  /\ step'[u] = step[u] /\ locks'[u] = locks[u]
  /\ todo'[u] = todo[u] /\ writes'[u] = writes[u]
  /\ u \in Uploads => upload'[u] = upload[u]

\* What it relies on is locked, or changes in one direction only.
DataKept(u) ==
  \A o \in Placed : OrderIn(u) = o =>
    /\ Steady(o)
    /\ \A m \in {"nokey", "update"} : OrderLock(o, m) \in locks[u] => orders'[o] = orders[o]
    /\ OrderLock(o, "update") \in locks[u] => ProofsOf(o, "pending")' = ProofsOf(o, "pending")
    /\ \A p \in Products : Row("product", p) \in locks[u] => stock'[p] = stock[p]
    /\ \A v \in Vendors :
         Row("vendor_payout", <<o, v>>) \in locks[u] => vendorPayouts'[o][v] = vendorPayouts[o][v]

LEMMA UploadUndisturbed ==
  ASSUME TxInv, NEW u \in Uploads, OwnKept(u), DataKept(u)
  PROVE  UploadTx(u)'
<1> DEFINE o == upload[u].order
<1>1. UploadTx(u) /\ upload'[u] = upload[u] /\ OrderIn(u) = o /\ o \in Orders
  BY CallTypes DEF TxInv, TxOf, OwnKept, IInv
<1>2. o \in DOMAIN writes[u].orders => orders'[o] = orders[o]
  <2> SUFFICES ASSUME o \in DOMAIN writes[u].orders
               PROVE  orders'[o] = orders[o]
    OBVIOUS
  <2>1. upload[u].pc = "saved" /\ OrderLock(o, "nokey") \in locks[u]
    BY <1>1 DEF UploadTx
  <2>2. o \in Placed
    BY <1>1, <2>1 DEF TxInv, IInv, UnplacedUntouched
  <2>. QED
    BY <1>1, <2>1, <2>2 DEF DataKept
<1>. QED
  BY <1>1, <1>2 DEF UploadTx, OwnKept

LEMMA DecisionUndisturbed ==
  ASSUME TxInv, NEW u \in Calls, OwnKept(u), DataKept(u), NEW verdict, NEW status,
         DecisionTx(u, verdict, status)
  PROVE  DecisionTx(u, verdict, status)'
<1> DEFINE o == CallOf[u].order
<1>1. OrderIn(u) = o
  BY CallTypes
<1>2. step[u] \notin {"idle", "ended"} => o \in Placed'
  BY <1>1 DEF DecisionTx, DataKept, Steady
<1>3. step[u] = "commit" => ProofsOf(o, "pending")' = ProofsOf(o, "pending")
  BY <1>1 DEF DecisionTx, DataKept
<1>. QED
  BY <1>2, <1>3 DEF DecisionTx, OwnKept

LEMMA ApproveUndisturbed ==
  ASSUME TxInv, NEW u \in Calls, OwnKept(u), DataKept(u), ApproveTx(u)
  PROVE  ApproveTx(u)'
<1> DEFINE o == CallOf[u].order
           w == writes[u]
           settled == step[u] \in {"payment", "review", "commit"}
<1>1. OrderIn(u) = o /\ TypeOK /\ DecisionTx(u, "approved", "success")
  BY CallTypes DEF TxInv, IInv, ApproveTx
<1>2. DecisionTx(u, "approved", "success")'
  BY <1>1, DecisionUndisturbed
<1>3. CASE step[u] \in {"idle", "decide", "ended"}
  <2>1. DOMAIN w.stock = {}
    BY <1>3 DEF ApproveTx
  <2>. QED
    BY <1>2, <1>3, <2>1 DEF ApproveTx, OwnKept
<1>4. CASE step[u] \notin {"idle", "decide", "ended"}
  <2>1. o \in Placed /\ OrderLock(o, "update") \in locks[u] /\ Approvable(o)
    BY <1>1, <1>4 DEF ApproveTx, DecisionTx
  <2>2. /\ orders'[o] = orders[o] /\ items'[o] = items[o]
        /\ Unpaid(o)' \subseteq Unpaid(o)
        /\ \A p \in Products : Row("product", p) \in locks[u] => stock'[p] = stock[p]
        /\ \A v \in Vendors :
             Row("vendor_payout", <<o, v>>) \in locks[u] => vendorPayouts'[o][v] = vendorPayouts[o][v]
    BY <1>1, <2>1 DEF DataKept, Steady
  <2>3. Contents(o)' = Contents(o) /\ VendorsIn(o)' = VendorsIn(o) /\ Approvable(o)'
    BY <2>1, <2>2 DEF Contents, VendorsIn, Approvable
  <2>4. settled => Unpaid(o)' = Unpaid(o)
    <3>1. settled => \A v \in Unpaid(o) : vendorPayouts'[o][v] = "unpaid"
      BY <2>2 DEF ApproveTx, Unpaid
    <3>. QED
      BY <2>2, <3>1 DEF Unpaid
  <2>5. \A p \in DOMAIN w.stock : p \in Products /\ stock'[p] = stock[p]
    BY <2>2 DEF ApproveTx, Contents
  <2>6. /\ step'[u] = step[u] /\ locks'[u] = locks[u] /\ todo'[u] = todo[u] /\ writes'[u] = w
    BY DEF OwnKept
  <2>7. step[u] = "deduct" =>
          /\ todo'[u] \in Seq(Contents(o)')
          /\ \A p \in Contents(o)' \ DOMAIN w.stock : \E i \in 1 .. Len(todo'[u]) : todo'[u][i] = p
    BY <2>3, <2>6 DEF ApproveTx
  <2>8. \A p \in DOMAIN w.stock :
          /\ Row("product", p) \in locks[u]
          /\ w.stock[p] = stock'[p] - items'[o][p] /\ stock'[p] >= items'[o][p]
    BY <2>2, <2>5 DEF ApproveTx
  <2>9. /\ step[u] \in {"idle", "decide", "deduct", "settle", "payment", "review", "commit", "ended"}
        /\ DOMAIN w.stock \subseteq Contents(o)
        /\ step[u] = "settle" \/ settled => DOMAIN w.stock = Contents(o)
        /\ DOMAIN w.vendorOrders = IF settled THEN {o} \X VendorsIn(o) ELSE {}
        /\ DOMAIN w.vendorPayouts = IF settled THEN {o} \X Unpaid(o) ELSE {}
        /\ settled =>
             /\ w.orders[o] = ApprovedOrder
             /\ \A v \in VendorsIn(o) : w.vendorOrders[<<o, v>>] = ReadyVendorOrder
             /\ \A v \in Unpaid(o) : /\ w.vendorPayouts[<<o, v>>] = "queued"
                                     /\ Row("vendor_payout", <<o, v>>) \in locks[u]
    BY DEF ApproveTx
  <2> DEFINE settled1 == step'[u] \in {"payment", "review", "commit"}
  <2>10. settled1 <=> settled
    BY <2>6
  <2>11. /\ DOMAIN writes'[u].vendorOrders = IF settled1 THEN {o} \X VendorsIn(o)' ELSE {}
         /\ DOMAIN writes'[u].vendorPayouts = IF settled1 THEN {o} \X Unpaid(o)' ELSE {}
    BY <2>3, <2>4, <2>6, <2>9, <2>10
  <2>12. settled1 =>
           /\ writes'[u].orders[o] = ApprovedOrder
           /\ \A v \in VendorsIn(o)' : writes'[u].vendorOrders[<<o, v>>] = ReadyVendorOrder
           /\ \A v \in Unpaid(o)' : /\ writes'[u].vendorPayouts[<<o, v>>] = "queued"
                                   /\ Row("vendor_payout", <<o, v>>) \in locks'[u]
    BY <2>3, <2>4, <2>6, <2>9, <2>10
  <2>13. /\ step'[u] \in {"idle", "decide", "deduct", "settle", "payment", "review", "commit", "ended"}
         /\ DOMAIN writes'[u].stock \subseteq Contents(o)'
         /\ step'[u] = "settle" \/ settled1 => DOMAIN writes'[u].stock = Contents(o)'
         /\ step'[u] \notin {"idle", "decide", "ended"}
    BY <1>4, <2>3, <2>6, <2>9, <2>10
  <2>14. /\ \A p \in DOMAIN writes'[u].stock :
              /\ Row("product", p) \in locks'[u]
              /\ writes'[u].stock[p] = stock'[p] - items'[o][p] /\ stock'[p] >= items'[o][p]
         /\ step'[u] = "deduct" =>
              /\ todo'[u] \in Seq(Contents(o)')
              /\ \A p \in Contents(o)' \ DOMAIN writes'[u].stock :
                   \E i \in 1 .. Len(todo'[u]) : todo'[u][i] = p
    BY <2>6, <2>7, <2>8
  <2>. QED
    BY <1>2, <2>3, <2>11, <2>12, <2>13, <2>14 DEF ApproveTx
<1>. QED
  BY <1>3, <1>4

LEMMA RejectUndisturbed ==
  ASSUME TxInv, NEW u \in Calls, OwnKept(u), DataKept(u), RejectTx(u)
  PROVE  RejectTx(u)'
<1> DEFINE o == CallOf[u].order
<1>1. OrderIn(u) = o /\ DecisionTx(u, "rejected", "failed")
  BY CallTypes DEF RejectTx
<1>2. DecisionTx(u, "rejected", "failed")'
  BY <1>1, DecisionUndisturbed
<1>3. step[u] \notin {"idle", "decide", "ended"} => orders'[o] = orders[o]
  BY <1>1 DEF DecisionTx, DataKept
<1>4. o \in DOMAIN writes[u].orders => step[u] \notin {"idle", "decide", "ended"}
  BY <1>1 DEF DecisionTx
<1>. QED
  BY <1>2, <1>3, <1>4 DEF RejectTx, Rejectable, OwnKept

LEMMA WebhookUndisturbed ==
  ASSUME TxInv, NEW u \in Calls, OwnKept(u), DataKept(u), WebhookTx(u)
  PROVE  WebhookTx(u)'
<1> DEFINE o == CallOf[u].order
<1>1. OrderIn(u) = o
  BY CallTypes
<1>2. step[u] \notin {"idle", "ended"} =>
        /\ o \in Placed'
        /\ orders[o].status = "paid" => orders'[o].status = "paid"
        /\ OrderLock(o, "nokey") \in locks[u] => orders'[o] = orders[o]
  BY <1>1 DEF WebhookTx, DataKept, Steady
<1>3. o \in DOMAIN writes[u].orders => step[u] = "commit"
  BY DEF WebhookTx
<1>. QED
  BY <1>2, <1>3 DEF WebhookTx, OwnKept

LEMMA Undisturbed ==
  ASSUME TxInv, NEW u \in Transactions, OwnKept(u), DataKept(u)
  PROVE  TxOf(u)'
<1>1. TxOf(u)
  BY DEF TxInv
<1>2. CASE u \in Uploads
  BY <1>2, CallTypes, UploadUndisturbed DEF TxOf
<1>3. CASE u \in Calls
  <2>1. u \notin Uploads
    BY <1>3, CallTypes
  <2>2. \A k : IsCall(u, k)' <=> IsCall(u, k)
    BY DEF IsCall
  <2>. QED
    BY <1>1, <1>3, <2>1, <2>2, ApproveUndisturbed, RejectUndisturbed, WebhookUndisturbed DEF TxOf
<1>. QED
  BY <1>2, <1>3 DEF Transactions

LEMMA UploadOrdersStay ==
  ASSUME IInv, [Next]_vars, NEW r \in Uploads
  PROVE  upload'[r].order = upload[r].order
<1>1. TypeOK /\ upload[r] \in UploadState
  BY DEF IInv, TypeOK
<1>2. ASSUME NEW x \in Uploads, Upload(x)
      PROVE  upload'[r].order = upload[r].order
  <2>1. upload[x] \in UploadState /\ DOMAIN upload = Uploads
    BY <1>1 DEF TypeOK
  <2>2. CASE UploadRead(x)
    BY <1>1, <2>1, <2>2 DEF UploadRead, UploadState
  <2>3. CASE UploadSaveFile(x)
    BY <1>1, <2>1, <2>3 DEF UploadSaveFile, UploadState
  <2>4. CASE UploadCommit(x)
    BY <1>1, <2>1, <2>4 DEF UploadCommit, UploadState
  <2>5. CASE UploadFail(x)
    BY <1>1, <2>1, <2>5 DEF UploadFail, UploadState
  <2>. QED
    BY <1>2, <2>2, <2>3, <2>4, <2>5 DEF Upload
<1>3. CASE UNCHANGED upload
  BY <1>3
<1>4. \/ UNCHANGED upload
      \/ \E x \in Uploads : Upload(x)
  BY DEF Next, Checkout, CheckoutItem, CheckoutRefused, PlaceOrder, Admin, AdminApprovePayment,
         AdminRejectPayment, AdminMarkVendorPayoutPaid, ProcessPaystackSuccess, Vendor,
         VendorUpdateFulfillment, VendorSetStock, vars
<1>. QED
  BY <1>2, <1>3, <1>4

\* The pending proofs of an order, when those of its uploads stay as they are.
LEMMA PendingStay ==
  ASSUME IInv, [Next]_vars, NEW o \in Orders,
         \A r \in Uploads : upload[r].order = o => proofs'[r] = proofs[r]
  PROVE  ProofsOf(o, "pending")' = ProofsOf(o, "pending")
<1>1. \A r \in Uploads : upload'[r].order = upload[r].order
  BY UploadOrdersStay
<1>. QED
  BY <1>1 DEF ProofsOf

LEMMA QuietKeeps ==
  ASSUME TxInv, [Next]_vars, UNCHANGED <<orders, proofs, stock, vendorPayouts>>, NEW u \in Transactions
  PROVE  DataKept(u)
<1>1. \A o \in Placed : /\ Steady(o) /\ o \in Orders
                        /\ ProofsOf(o, "pending")' = ProofsOf(o, "pending")
  BY PlacedSteady, PendingStay DEF TxInv, Placed
<1>. QED
  BY <1>1 DEF DataKept

\* Transactions that lock one row, while nobody else does, and checkouts.
LEMMA OneRowKeeps ==
  ASSUME TxInv, OneRow, NEW u \in Transactions
  PROVE  [Next]_vars /\ DataKept(u)
<1>1. Next
  BY DEF OneRow, Next, Admin, Vendor
<1>2. /\ \A o \in Placed : Steady(o) /\ o \in Orders
      /\ TypeOK
  BY <1>1, PlacedSteady DEF TxInv, Placed, IInv
<1>3. ASSUME NEW table, NEW key, Unlocked(Row(table, key)), Row(table, key) \in locks[u]
      PROVE  FALSE
  <2>1. ~Conflicting(Row(table, key)[2], Row(table, key)[2])
    BY <1>3 DEF Unlocked
  <2>2. Row(table, key)[2] = "nokey"
    BY DEF Row
  <2>. QED
    BY <2>1, <2>2 DEF Conflicting
<1>4. ASSUME NEW x \in Orders, Checkout(x)
      PROVE  DataKept(u)
  <2>1. CASE ~PlaceOrder(x)
    BY <1>1, <1>4, <2>1, QuietKeeps DEF Checkout, CheckoutItem, CheckoutRefused
  <2>2. CASE PlaceOrder(x)
    <3>1. /\ x \notin Placed /\ UNCHANGED <<proofs, stock, upload>>
          /\ \A o \in Placed : orders'[o] = orders[o] /\ vendorPayouts'[o] = vendorPayouts[o]
      BY <1>2, <2>2 DEF PlaceOrder, Placed, TypeOK
    <3>2. \A o \in Placed : ProofsOf(o, "pending")' = ProofsOf(o, "pending")
      BY <3>1 DEF ProofsOf
    <3>. QED
      BY <1>2, <3>1, <3>2 DEF DataKept
  <2>. QED
    BY <2>1, <2>2
<1>5. ASSUME NEW x \in Orders, NEW w \in Vendors,
             Unlocked(Row("vendor_payout", <<x, w>>)), AdminMarkVendorPayoutPaid(x, w)
      PROVE  DataKept(u)
  <2>1. /\ UNCHANGED <<orders, proofs, stock, upload>>
        /\ \A o \in Placed, v \in Vendors : <<o, v>> # <<x, w>> => vendorPayouts'[o][v] = vendorPayouts[o][v]
    BY <1>2, <1>5 DEF AdminMarkVendorPayoutPaid, TypeOK
  <2>2. Row("vendor_payout", <<x, w>>) \notin locks[u]
    BY <1>3, <1>5
  <2>3. \A o \in Placed : ProofsOf(o, "pending")' = ProofsOf(o, "pending")
    BY <2>1 DEF ProofsOf
  <2>. QED
    BY <1>2, <2>1, <2>2, <2>3 DEF DataKept
<1>6. ASSUME NEW x \in Orders, NEW v \in Vendors, NEW s \in Reported, VendorUpdateFulfillment(x, v, s)
      PROVE  DataKept(u)
  BY <1>1, <1>6, QuietKeeps DEF VendorUpdateFulfillment
<1>7. ASSUME NEW q \in Products, NEW n \in StockLevels,
             Unlocked(Row("product", q)), VendorSetStock(q, n)
      PROVE  DataKept(u)
  <2>1. /\ UNCHANGED <<orders, proofs, vendorPayouts, upload>>
        /\ \A p \in Products \ {q} : stock'[p] = stock[p]
    BY <1>2, <1>7 DEF VendorSetStock, TypeOK
  <2>2. Row("product", q) \notin locks[u]
    BY <1>3, <1>7
  <2>3. \A o \in Placed : ProofsOf(o, "pending")' = ProofsOf(o, "pending")
    BY <2>1 DEF ProofsOf
  <2>. QED
    BY <1>2, <2>1, <2>2, <2>3 DEF DataKept
<1>8. DataKept(u)
  BY <1>4, <1>5, <1>6, <1>7 DEF OneRow
<1>. QED
  BY <1>1, <1>8

----------------------------------------------------------------------------
(* What a commit does to the others: it writes what it has locked *)

LEMMA UploadCommitKeeps ==
  ASSUME TxInv, NEW t \in Uploads, step[t] = "commit", UploadCommit(t),
         NEW u \in Transactions \ {t}
  PROVE  DataKept(u)
<1> DEFINE x == upload[t].order
<1>1. /\ TypeOK /\ x \in Orders /\ t \in Transactions /\ Next
      /\ OrderLock(x, "keyshare") \in locks[t] /\ OrderLock(x, "nokey") \in locks[t]
  <2>1. TypeOK /\ x \in Orders /\ t \in Transactions /\ UploadTx(t)
    BY CallTypes DEF TxInv, IInv, TxOf
  <2>2. Next
    BY DEF Next, Upload
  <2>. QED
    BY <2>1, <2>2 DEF UploadTx
<1>2. /\ OrderLock(x, "update") \notin locks[u]
      /\ OrderLock(x, "nokey") \notin locks[u]
  BY <1>1, Exclusion DEF TxInv
<1>3. /\ \A o \in Orders \ {x} : orders'[o] = orders[o]
      /\ \A r \in Uploads \ {t} : proofs'[r] = proofs[r]
      /\ UNCHANGED <<stock, vendorPayouts>>
  BY <1>1 DEF UploadCommit, TypeOK
<1>4. \A o \in Placed : o \in Orders /\ Steady(o)
  BY <1>1, PlacedSteady DEF TxInv, Placed
<1>5. \A o \in Orders \ {x} : ProofsOf(o, "pending")' = ProofsOf(o, "pending")
  BY <1>1, <1>3, PendingStay DEF TxInv
<1>. QED
  BY <1>2, <1>3, <1>4, <1>5 DEF DataKept

LEMMA ApproveKeeps ==
  ASSUME TxInv, NEW t \in Calls, ApproveTx(t), step[t] = "commit",
         AdminApprovePayment(CallOf[t].order), NEW u \in Transactions \ {t}
  PROVE  DataKept(u)
<1> DEFINE x == CallOf[t].order
<1>1. /\ TypeOK /\ x \in Orders /\ t \in Transactions /\ Next
      /\ OrderLock(x, "update") \in locks[t]
      /\ \A p \in Contents(x) : Row("product", p) \in locks[t]
      /\ \A v \in Unpaid(x) : Row("vendor_payout", <<x, v>>) \in locks[t]
  BY CallTypes DEF TxInv, IInv, ApproveTx, DecisionTx, Next, Admin, Transactions
<1>2. /\ \A m : OrderLock(x, m) \notin locks[u]
      /\ \A p \in Contents(x) : Row("product", p) \notin locks[u]
      /\ \A v \in Unpaid(x) : Row("vendor_payout", <<x, v>>) \notin locks[u]
  BY <1>1, Exclusion DEF TxInv
<1>3. /\ \A o \in Orders \ {x} : orders'[o] = orders[o] /\ vendorPayouts'[o] = vendorPayouts[o]
      /\ \A v \in Vendors \ Unpaid(x) : vendorPayouts'[x][v] = vendorPayouts[x][v]
  BY <1>1 DEF AdminApprovePayment, TypeOK, QueuePayout, Unpaid
<1>4. \A p \in Products \ Contents(x) : stock'[p] = stock[p]
  <2>1. \A p \in Products \ Contents(x) : items[x][p] = 0 /\ stock[p] \in Int
    BY <1>1 DEF TypeOK, Contents
  <2>. QED
    BY <2>1 DEF AdminApprovePayment
<1>5. \A o \in Placed : o \in Orders /\ Steady(o)
  BY <1>1, PlacedSteady DEF TxInv, Placed
<1>6. \A r \in Uploads : upload[r].order # x => proofs'[r] = proofs[r]
  BY DEF AdminApprovePayment, Reviewed, ProofsOf
<1>7. \A o \in Orders \ {x} : ProofsOf(o, "pending")' = ProofsOf(o, "pending")
  BY <1>1, <1>6, PendingStay DEF TxInv
<1>. QED
  BY <1>2, <1>3, <1>4, <1>5, <1>7 DEF DataKept

LEMMA RejectKeeps ==
  ASSUME TxInv, NEW t \in Calls, RejectTx(t), step[t] = "commit",
         AdminRejectPayment(CallOf[t].order), NEW u \in Transactions \ {t}
  PROVE  DataKept(u)
<1> DEFINE x == CallOf[t].order
<1>1. /\ TypeOK /\ x \in Orders /\ t \in Transactions /\ Next
      /\ OrderLock(x, "update") \in locks[t]
  BY CallTypes DEF TxInv, IInv, RejectTx, DecisionTx, Next, Admin, Transactions
<1>2. \A m : OrderLock(x, m) \notin locks[u]
  BY <1>1, Exclusion DEF TxInv
<1>3. /\ \A o \in Orders \ {x} : orders'[o] = orders[o]
      /\ UNCHANGED <<stock, vendorPayouts>>
  BY <1>1 DEF AdminRejectPayment, TypeOK
<1>4. \A o \in Placed : o \in Orders /\ Steady(o)
  BY <1>1, PlacedSteady DEF TxInv, Placed
<1>5. \A r \in Uploads : upload[r].order # x => proofs'[r] = proofs[r]
  BY DEF AdminRejectPayment, Reviewed, ProofsOf
<1>6. \A o \in Orders \ {x} : ProofsOf(o, "pending")' = ProofsOf(o, "pending")
  BY <1>1, <1>5, PendingStay DEF TxInv
<1>. QED
  BY <1>2, <1>3, <1>4, <1>6 DEF DataKept

\* The UPDATE of the webhook does nothing to an order that is paid.
LEMMA PaidAlready ==
  ASSUME NEW row \in OrderRow, row.status = "paid"
  PROVE  WebhookPaid(row) = row
BY DEF WebhookPaid, OrderRow

LEMMA WebhookKeeps ==
  ASSUME TxInv, NEW t \in Calls, WebhookTx(t), step[t] = "commit",
         ProcessPaystackSuccess(CallOf[t].order), NEW u \in Transactions \ {t}
  PROVE  DataKept(u)
<1> DEFINE x == CallOf[t].order
<1>1. /\ TypeOK /\ x \in Orders /\ t \in Transactions /\ Next
  BY CallTypes DEF TxInv, IInv, Next, Transactions
<1>2. /\ \A o \in Orders \ {x} : orders'[o] = orders[o]
      /\ orders'[x] = WebhookPaid(orders[x])
      /\ UNCHANGED <<proofs, vendorPayouts, upload>>
      /\ stock' = stock
  BY <1>1, WebhookMovesNothing DEF ProcessPaystackSuccess, TypeOK
<1>3. \/ orders'[x] = orders[x]
      \/ OrderLock(x, "nokey") \in locks[t]
  BY <1>1, <1>2, PaidAlready DEF WebhookTx, TypeOK
<1>4. OrderLock(x, "nokey") \in locks[t] =>
        \A m \in {"nokey", "update"} : OrderLock(x, m) \notin locks[u]
  BY <1>1, Exclusion DEF TxInv
<1>5. \A o \in Placed : o \in Orders /\ Steady(o)
  BY <1>1, PlacedSteady DEF TxInv, Placed
<1>6. \A o \in Orders : ProofsOf(o, "pending")' = ProofsOf(o, "pending")
  BY <1>2 DEF ProofsOf
<1>. QED
  BY <1>2, <1>3, <1>4, <1>5, <1>6 DEF DataKept

----------------------------------------------------------------------------
(* A commit is an action of OrderPayments *)

LEMMA CommittedVendorTable ==
  ASSUME NEW T, NEW table \in [Orders -> [Vendors -> T]], NEW w, DOMAIN w = {}
  PROVE  CommittedByVendor(table, w) = table
<1>1. CommittedByVendor(table, w) = [o \in Orders |-> [v \in Vendors |-> table[o][v]]]
  BY DEF CommittedByVendor
<1>2. \A o \in Orders : table[o] = [v \in Vendors |-> table[o][v]]
  OBVIOUS
<1>. QED
  BY <1>1, <1>2

LEMMA CommittedTables ==
  ASSUME TypeOK, NEW w
  PROVE  /\ DOMAIN w = {} => /\ Committed(orders, w) = orders
                             /\ Committed(payments, w) = payments
                             /\ Committed(stock, w) = stock
                             /\ Committed(proofs, w) = proofs
                             /\ CommittedByVendor(vendorOrders, w) = vendorOrders
                             /\ CommittedByVendor(vendorPayouts, w) = vendorPayouts
         /\ \A o \in Orders :
              DOMAIN w = {o} => /\ Committed(orders, w) = [orders EXCEPT ![o] = w[o]]
                                /\ Committed(payments, w) = [payments EXCEPT ![o] = w[o]]
         /\ \A r \in Uploads : DOMAIN w = {r} => Committed(proofs, w) = [proofs EXCEPT ![r] = w[r]]
<1>1. /\ DOMAIN w = {} => Committed(orders, w) = orders
      /\ \A o \in Orders : DOMAIN w = {o} => Committed(orders, w) = [orders EXCEPT ![o] = w[o]]
  <2>1. orders \in [Orders -> OrderRow]
    BY DEF TypeOK
  <2>. QED
    BY <2>1 DEF Committed
<1>2. /\ DOMAIN w = {} => Committed(payments, w) = payments
      /\ \A o \in Orders : DOMAIN w = {o} => Committed(payments, w) = [payments EXCEPT ![o] = w[o]]
  <2>1. payments \in [Orders -> {"pending", "proof_uploaded", "success", "failed"}]
    BY DEF TypeOK
  <2>. QED
    BY <2>1 DEF Committed
<1>3. /\ DOMAIN w = {} => Committed(proofs, w) = proofs
      /\ \A r \in Uploads : DOMAIN w = {r} => Committed(proofs, w) = [proofs EXCEPT ![r] = w[r]]
  <2>1. proofs \in [Uploads -> {"none", "pending", "approved", "rejected"}]
    BY DEF TypeOK
  <2>. QED
    BY <2>1 DEF Committed
<1>4. DOMAIN w = {} => Committed(stock, w) = stock
  <2>1. stock \in [Products -> Int]
    BY DEF TypeOK
  <2>. QED
    BY <2>1 DEF Committed
<1>5. DOMAIN w = {} => CommittedByVendor(vendorOrders, w) = vendorOrders
  <2>1. vendorOrders \in [Orders -> [Vendors -> VendorOrderRow]]
    BY DEF TypeOK
  <2>. QED
    BY <2>1, CommittedVendorTable
<1>6. DOMAIN w = {} => CommittedByVendor(vendorPayouts, w) = vendorPayouts
  <2>1. vendorPayouts \in [Orders -> [Vendors -> PayoutStatuses]]
    BY DEF TypeOK
  <2>. QED
    BY <2>1, CommittedVendorTable
<1>. QED
  BY <1>1, <1>2, <1>3, <1>4, <1>5, <1>6

LEMMA CommitUpload ==
  ASSUME TxInv, NEW t \in Uploads, Commit(t)
  PROVE  UploadCommit(t)
<1> DEFINE o == upload[t].order
           w == writes[t]
<1>1. /\ TypeOK /\ o \in Orders /\ UploadTx(t) /\ OrderIn(t) = o
      /\ \A k : ~IsCall(t, k)
  BY CallTypes DEF TxInv, IInv, TxOf
<1>2. /\ upload[t].pc = "saved"
      /\ DOMAIN w.proofs = {t} /\ w.proofs[t] = "pending"
      /\ DOMAIN w.orders = {o} /\ w.orders[o] = UnderReview(orders[o])
      /\ DOMAIN w.payments = {o} /\ w.payments[o] = "proof_uploaded"
      /\ DOMAIN w.stock = {} /\ DOMAIN w.vendorOrders = {} /\ DOMAIN w.vendorPayouts = {}
  BY <1>1 DEF Commit, UploadTx
<1>3. proofs' = [proofs EXCEPT ![t] = "pending"]
  BY <1>1, <1>2, CommittedTables DEF Commit
<1>4. orders' = [orders EXCEPT ![o] = UnderReview(orders[o])]
  BY <1>1, <1>2, CommittedTables DEF Commit
<1>5. payments' = [payments EXCEPT ![o] = "proof_uploaded"]
  BY <1>1, <1>2, CommittedTables DEF Commit
<1>6. stock' = stock
  BY <1>1, <1>2, CommittedTables DEF Commit
<1>7. vendorOrders' = vendorOrders /\ vendorPayouts' = vendorPayouts
  BY <1>1, <1>2, CommittedTables DEF Commit
<1>8. /\ upload' = [upload EXCEPT ![t].pc = "done", ![t].wroteAt = approvals[o]]
      /\ UNCHANGED <<approvals, webhookEvents, phase, items, files, credited>>
  BY <1>1 DEF Commit
<1>. QED
  BY <1>2, <1>3, <1>4, <1>5, <1>6, <1>7, <1>8 DEF UploadCommit

\* The proofs that were pending at the review are still those that are.
LEMMA CommitReview ==
  ASSUME TxInv, NEW t \in Calls, Commit(t), NEW verdict, NEW status, DecisionTx(t, verdict, status)
  PROVE  /\ CallOf[t].order \in Placed /\ CallOf[t].order \in Orders
         /\ OrderIn(t) = CallOf[t].order
         /\ proofs' = Reviewed(CallOf[t].order, verdict)
         /\ payments' = [payments EXCEPT ![CallOf[t].order] = status]
         /\ orders' = [orders EXCEPT ![CallOf[t].order] = writes[t].orders[CallOf[t].order]]
         /\ UNCHANGED <<upload, phase, items, files, credited>>
<1> DEFINE o == CallOf[t].order
           w == writes[t]
<1>1. TypeOK /\ o \in Orders /\ OrderIn(t) = o /\ t \notin Uploads /\ step[t] = "commit"
  BY CallTypes DEF TxInv, IInv, Commit
<1>2. /\ o \in Placed
      /\ DOMAIN w.proofs = ProofsOf(o, "pending") /\ \A r \in DOMAIN w.proofs : w.proofs[r] = verdict
      /\ DOMAIN w.payments = {o} /\ w.payments[o] = status
      /\ DOMAIN w.orders = {o}
  BY <1>1 DEF DecisionTx
<1>3. proofs' = Reviewed(o, verdict)
  BY <1>1, <1>2 DEF Commit, Committed, Reviewed, TypeOK
<1>4. payments' = [payments EXCEPT ![o] = status]
  BY <1>1, <1>2, CommittedTables DEF Commit
<1>5. orders' = [orders EXCEPT ![o] = w.orders[o]]
  BY <1>1, <1>2, CommittedTables DEF Commit
<1>. QED
  BY <1>1, <1>2, <1>3, <1>4, <1>5 DEF Commit

LEMMA CommitApprove ==
  ASSUME TxInv, NEW t \in Calls, IsCall(t, "approve"), Commit(t)
  PROVE  AdminApprovePayment(CallOf[t].order)
<1> DEFINE o == CallOf[t].order
           w == writes[t]
<1>1. /\ TypeOK /\ ApproveTx(t) /\ DecisionTx(t, "approved", "success")
      /\ step[t] = "commit" /\ VendorOrdersOfVendors
      /\ ~IsCall(t, "webhook")
  BY DEF TxInv, IInv, TxOf, ApproveTx, Commit, Transactions, IsCall
<1>2. /\ o \in Placed /\ o \in Orders /\ OrderIn(t) = o
      /\ proofs' = Reviewed(o, "approved")
      /\ payments' = [payments EXCEPT ![o] = "success"]
      /\ orders' = [orders EXCEPT ![o] = w.orders[o]]
      /\ UNCHANGED <<upload, phase, items, files, credited>>
  BY <1>1, CommitReview
<1>3. /\ Approvable(o) /\ w.orders[o] = ApprovedOrder
      /\ DOMAIN w.stock = Contents(o)
      /\ \A p \in Contents(o) : w.stock[p] = stock[p] - items[o][p] /\ stock[p] >= items[o][p]
      /\ DOMAIN w.vendorOrders = {o} \X VendorsIn(o)
      /\ \A v \in VendorsIn(o) : w.vendorOrders[<<o, v>>] = ReadyVendorOrder
      /\ DOMAIN w.vendorPayouts = {o} \X Unpaid(o)
      /\ \A v \in Unpaid(o) : w.vendorPayouts[<<o, v>>] = "queued"
  BY <1>1 DEF ApproveTx
<1>4. stock' = [p \in Products |-> stock[p] - items[o][p]]
  <2>1. \A p \in Products \ Contents(o) : stock[p] - items[o][p] = stock[p]
    <3>1. \A p \in Products \ Contents(o) : items[o][p] = 0 /\ stock[p] \in Int
      BY <1>1, <1>2 DEF TypeOK, Contents
    <3>. QED
      BY <3>1
  <2>. QED
    BY <1>1, <1>3, <2>1 DEF Commit, Committed, TypeOK, Contents
<1>5. vendorOrders' = [vendorOrders EXCEPT
        ![o] = [v \in Vendors |-> IF @[v] = NoVendorOrder THEN NoVendorOrder ELSE ReadyVendorOrder]]
  <2>1. \A v \in Vendors : vendorOrders[o][v] = NoVendorOrder <=> v \notin VendorsIn(o)
    BY <1>1, <1>2 DEF VendorOrdersOfVendors
  <2>2. \A x \in Orders, v \in Vendors : <<x, v>> \in DOMAIN w.vendorOrders <=> x = o /\ v \in VendorsIn(o)
    BY <1>3
  <2>3. vendorOrders' = [x \in Orders |-> [v \in Vendors |->
          IF x = o THEN IF vendorOrders[o][v] = NoVendorOrder THEN NoVendorOrder ELSE ReadyVendorOrder
          ELSE vendorOrders[x][v]]]
    <3>1. \A x \in Orders, v \in Vendors :
            (IF <<x, v>> \in DOMAIN w.vendorOrders THEN w.vendorOrders[<<x, v>>] ELSE vendorOrders[x][v])
            = IF x = o THEN IF vendorOrders[o][v] = NoVendorOrder THEN NoVendorOrder ELSE ReadyVendorOrder
              ELSE vendorOrders[x][v]
      BY <1>3, <2>1, <2>2
    <3>. QED
      BY <3>1 DEF Commit, CommittedByVendor
  <2>4. \A x \in Orders : vendorOrders[x] = [v \in Vendors |-> vendorOrders[x][v]]
    BY <1>1 DEF TypeOK
  <2>. QED
    BY <1>1, <1>2, <2>3, <2>4 DEF TypeOK
<1>6. vendorPayouts' = [vendorPayouts EXCEPT ![o] = [v \in Vendors |-> QueuePayout(@[v])]]
  <2>1. \A v \in Vendors :
          /\ v \in Unpaid(o) => QueuePayout(vendorPayouts[o][v]) = "queued"
          /\ v \notin Unpaid(o) => QueuePayout(vendorPayouts[o][v]) = vendorPayouts[o][v]
    BY DEF QueuePayout, Unpaid
  <2>2. \A x \in Orders, v \in Vendors : <<x, v>> \in DOMAIN w.vendorPayouts <=> x = o /\ v \in Unpaid(o)
    BY <1>3
  <2>3. vendorPayouts' = [x \in Orders |-> [v \in Vendors |->
          IF x = o THEN QueuePayout(vendorPayouts[o][v]) ELSE vendorPayouts[x][v]]]
    <3>1. \A x \in Orders, v \in Vendors :
            (IF <<x, v>> \in DOMAIN w.vendorPayouts THEN w.vendorPayouts[<<x, v>>] ELSE vendorPayouts[x][v])
            = IF x = o THEN QueuePayout(vendorPayouts[o][v]) ELSE vendorPayouts[x][v]
      BY <1>3, <2>1, <2>2
    <3>. QED
      BY <3>1 DEF Commit, CommittedByVendor
  <2>4. \A x \in Orders : vendorPayouts[x] = [v \in Vendors |-> vendorPayouts[x][v]]
    BY <1>1 DEF TypeOK
  <2>. QED
    BY <1>1, <1>2, <2>3, <2>4 DEF TypeOK
<1>7. /\ approvals' = [approvals EXCEPT ![o] = @ + 1]
      /\ UNCHANGED webhookEvents
  BY <1>1, <1>2 DEF Commit
<1>8. InStock(o)
  BY <1>3 DEF InStock
<1>. QED
  BY <1>2, <1>3, <1>4, <1>5, <1>6, <1>7, <1>8 DEF AdminApprovePayment

LEMMA CommitReject ==
  ASSUME TxInv, NEW t \in Calls, IsCall(t, "reject"), Commit(t)
  PROVE  AdminRejectPayment(CallOf[t].order)
<1> DEFINE o == CallOf[t].order
           w == writes[t]
<1>1. /\ TypeOK /\ RejectTx(t) /\ DecisionTx(t, "rejected", "failed") /\ step[t] = "commit"
      /\ ~IsCall(t, "webhook") /\ ~IsCall(t, "approve")
  BY DEF TxInv, IInv, TxOf, RejectTx, Commit, Transactions, IsCall
<1>2. /\ o \in Placed /\ o \in Orders /\ OrderIn(t) = o
      /\ proofs' = Reviewed(o, "rejected")
      /\ payments' = [payments EXCEPT ![o] = "failed"]
      /\ orders' = [orders EXCEPT ![o] = w.orders[o]]
      /\ UNCHANGED <<upload, phase, items, files, credited>>
  BY <1>1, CommitReview
<1>3. /\ Rejectable(o)
      /\ DOMAIN w.orders = {o} /\ w.orders[o] = RejectedOrder(orders[o])
      /\ DOMAIN w.stock = {} /\ DOMAIN w.vendorOrders = {} /\ DOMAIN w.vendorPayouts = {}
  BY <1>1 DEF RejectTx, DecisionTx
<1>4. UNCHANGED <<stock, vendorOrders, vendorPayouts>>
  BY <1>1, <1>3, CommittedTables DEF Commit
<1>5. UNCHANGED <<approvals, webhookEvents>>
  BY <1>1 DEF Commit
<1>. QED
  BY <1>2, <1>3, <1>4, <1>5 DEF AdminRejectPayment

LEMMA CommitWebhook ==
  ASSUME TxInv, NEW t \in Calls, IsCall(t, "webhook"), Commit(t)
  PROVE  ProcessPaystackSuccess(CallOf[t].order)
<1> DEFINE o == CallOf[t].order
           w == writes[t]
<1>1. /\ TypeOK /\ o \in Orders /\ WebhookTx(t) /\ step[t] = "commit"
      /\ OrderIn(t) = o /\ t \notin Uploads /\ ~IsCall(t, "approve")
  BY CallTypes DEF TxInv, IInv, TxOf, Commit, Transactions, IsCall
<1>2. /\ o \in Placed
      /\ DOMAIN w.payments = {o} /\ w.payments[o] = "success"
      /\ \/ DOMAIN w.orders = {} /\ orders[o].status = "paid"
         \/ DOMAIN w.orders = {o} /\ w.orders[o] = WebhookPaid(orders[o])
      /\ DOMAIN w.proofs = {} /\ DOMAIN w.stock = {}
      /\ DOMAIN w.vendorOrders = {} /\ DOMAIN w.vendorPayouts = {}
  BY <1>1 DEF WebhookTx
<1>3. orders' = [orders EXCEPT ![o] = WebhookPaid(orders[o])]
  <2>1. CASE DOMAIN w.orders = {} /\ orders[o].status = "paid"
    <3>1. orders' = orders
      BY <1>1, <2>1, CommittedTables DEF Commit
    <3>2. WebhookPaid(orders[o]) = orders[o]
      BY <1>1, <2>1, PaidAlready DEF TypeOK
    <3>. QED
      BY <1>1, <3>1, <3>2 DEF TypeOK
  <2>2. CASE DOMAIN w.orders = {o} /\ w.orders[o] = WebhookPaid(orders[o])
    BY <1>1, <2>2, CommittedTables DEF Commit
  <2>. QED
    BY <1>2, <2>1, <2>2
<1>4. payments' = [payments EXCEPT ![o] = "success"]
  BY <1>1, <1>2, CommittedTables DEF Commit
<1>5. UNCHANGED <<proofs, stock>>
  BY <1>1, <1>2, CommittedTables DEF Commit
<1>6. UNCHANGED <<vendorOrders, vendorPayouts>>
  BY <1>1, <1>2, CommittedTables DEF Commit
<1>7. stock' = DeductAll(o, TRUE) /\ credited' = CreditAll(o, TRUE)
  <2>1. stock = [p \in Products |-> stock[p]]
    BY <1>1 DEF TypeOK
  <2>. QED
    BY <1>5, <2>1 DEF DeductAll, CreditAll, ConnAccepts, Commit
<1>8. /\ webhookEvents' = webhookEvents \union {o}
      /\ UNCHANGED <<approvals, upload, phase, items, files>>
  BY <1>1 DEF Commit
<1>. QED
  BY <1>2, <1>3, <1>4, <1>5, <1>6, <1>7, <1>8 DEF ProcessPaystackSuccess
----------------------------------------------------------------------------
(* Every step of a transaction keeps the invariant *)

\* The others keep their rows and products; so does t the shape of its tables.
OnlyTouches(t) ==
  /\ DOMAIN todo' = Transactions /\ DOMAIN writes' = Transactions
  /\ DOMAIN writes'[t] = Tables
  /\ \A u \in Transactions \ {t} : todo'[u] = todo[u] /\ writes'[u] = writes[u]

LEMMA StatementKeeps ==
  ASSUME TxInv, NEW t \in Transactions, NEW at, NEW next, Runs(t, at, next), OnlyTouches(t),
         UNCHANGED vars, TxOf(t)'
  PROVE  TxInv'
<1>1. Shape /\ LocksExclude /\ IInv /\ VendorOrdersOfVendors
  BY DEF TxInv
<1>2. /\ \A u \in Transactions \ {t} : step'[u] = step[u] /\ locks'[u] = locks[u]
      /\ DOMAIN step' = Transactions /\ DOMAIN locks' = Transactions
      /\ LocksExclude'
  BY <1>1, RunsLocks
<1>3. IInv' /\ VendorOrdersOfVendors'
  BY <1>1, NextIInv, VendorOrdersSteady
<1>4. Shape'
  BY <1>1, <1>2 DEF Shape, OnlyTouches, Transactions
<1>5. ASSUME NEW u \in Transactions \ {t}
      PROVE  TxOf(u)'
  <2>1. OwnKept(u)
    BY <1>2 DEF OwnKept, OnlyTouches, vars
  <2>2. DataKept(u)
    BY QuietKeeps DEF vars
  <2>. QED
    BY <2>1, <2>2, Undisturbed
<1>6. \A u \in Transactions : TxOf(u)'
  BY <1>5
<1>. QED
  BY <1>2, <1>3, <1>4, <1>6 DEF TxInv, Transactions

LEMMA EndKeeps ==
  ASSUME TxInv, NEW t \in Transactions, Ends(t), locks' = [locks EXCEPT ![t] = {}], [Next]_vars,
         \A u \in Transactions \ {t} : /\ DataKept(u)
                                       /\ u \in Uploads => upload'[u] = upload[u]
  PROVE  TxInv'
<1>1. Shape /\ LocksExclude /\ IInv /\ VendorOrdersOfVendors
  BY DEF TxInv
<1>2. /\ step'[t] = "ended" /\ locks'[t] = {} /\ writes'[t] = NoWrites
      /\ \A u \in Transactions \ {t} : /\ step'[u] = step[u] /\ locks'[u] = locks[u]
                                       /\ todo'[u] = todo[u] /\ writes'[u] = writes[u]
      /\ DOMAIN step' = Transactions /\ DOMAIN locks' = Transactions
      /\ DOMAIN todo' = Transactions /\ DOMAIN writes' = Transactions
  BY <1>1 DEF Ends, Shape
<1>3. IInv' /\ VendorOrdersOfVendors'
  BY <1>1, NextIInv, VendorOrdersSteady
<1>4. Shape'
  BY <1>1, <1>2 DEF Shape, Tables, NoWrites, Transactions
<1>5. LocksExclude'
  BY <1>1, <1>2 DEF LocksExclude, Transactions
<1>6. ASSUME NEW u \in Transactions \ {t}
      PROVE  TxOf(u)'
  BY <1>2, Undisturbed DEF OwnKept
<1>7. TxOf(t)'
  <2>1. /\ DOMAIN NoWrites.orders = {} /\ DOMAIN NoWrites.payments = {} /\ DOMAIN NoWrites.stock = {}
        /\ DOMAIN NoWrites.vendorOrders = {} /\ DOMAIN NoWrites.vendorPayouts = {}
        /\ DOMAIN NoWrites.proofs = {}
    BY DEF NoWrites, Nothing
  <2>2. UploadTx(t)'
    BY <1>2, <2>1 DEF UploadTx
  <2>3. ApproveTx(t)' /\ RejectTx(t)' /\ WebhookTx(t)'
    BY <1>2, <2>1 DEF ApproveTx, RejectTx, WebhookTx, DecisionTx
  <2>. QED
    BY <2>2, <2>3 DEF TxOf
<1>8. \A u \in Transactions : TxOf(u)'
  BY <1>6, <1>7
<1>. QED
  BY <1>3, <1>4, <1>5, <1>8 DEF TxInv, Transactions

\* Steps that take no lock and write nothing.
LEMMA MoveKeeps ==
  ASSUME TxInv, NEW t \in Transactions, NEW next, step' = [step EXCEPT ![t] = next],
         UNCHANGED <<locks, todo, writes>>, [Next]_vars,
         UNCHANGED <<orders, proofs, stock, vendorPayouts>>,
         \A u \in Uploads \ {t} : upload'[u] = upload[u],
         TxOf(t)'
  PROVE  TxInv'
<1>1. Shape /\ LocksExclude /\ IInv /\ VendorOrdersOfVendors
  BY DEF TxInv
<1>2. IInv' /\ VendorOrdersOfVendors'
  BY <1>1, NextIInv, VendorOrdersSteady
<1>3. Shape' /\ LocksExclude'
  BY <1>1 DEF Shape, LocksExclude, Transactions
<1>4. ASSUME NEW u \in Transactions \ {t}
      PROVE  TxOf(u)'
  <2>1. OwnKept(u)
    BY <1>1 DEF OwnKept, Shape
  <2>2. DataKept(u)
    BY QuietKeeps
  <2>. QED
    BY <2>1, <2>2, Undisturbed
<1>5. \A u \in Transactions : TxOf(u)'
  BY <1>4
<1>. QED
  BY <1>2, <1>3, <1>5 DEF TxInv, Transactions

LEMMA UploadMoves ==
  ASSUME TxInv, NEW r \in Uploads, UploadStart(r) \/ UploadSave(r)
  PROVE  [Next]_vars /\ TxInv'
<1>1. /\ Shape /\ UploadTx(r) /\ r \in Transactions /\ TypeOK
      /\ upload[r] \in UploadState /\ DOMAIN upload = Uploads
  BY CallTypes DEF TxInv, TxOf, IInv, TypeOK
<1>2. CASE UploadStart(r)
  <2>1. /\ UploadRead(r) /\ Next
        /\ step[r] = "idle" /\ step' = [step EXCEPT ![r] = "save"] /\ UNCHANGED <<locks, todo, writes>>
        /\ UNCHANGED <<orders, proofs, stock, vendorPayouts>>
        /\ \A u \in Uploads \ {r} : upload'[u] = upload[u]
    BY <1>1, <1>2 DEF UploadStart, UploadRead, Next, Upload
  <2>2. upload'[r].order = upload[r].order /\ step'[r] = "save"
    BY <1>1, <2>1 DEF UploadRead, UploadState, Shape
  <2>3. UploadTx(r)'
    BY <1>1, <2>1, <2>2 DEF UploadTx
  <2>4. TxOf(r)'
    BY <2>3, CallTypes DEF TxOf, IsCall
  <2>. QED
    BY <1>1, <2>1, <2>4, MoveKeeps
<1>3. CASE UploadSave(r)
  <2>1. /\ UploadSaveFile(r) /\ Next
        /\ step[r] = "save" /\ step' = [step EXCEPT ![r] = "insert"] /\ UNCHANGED <<locks, todo, writes>>
        /\ UNCHANGED <<orders, proofs, stock, vendorPayouts>>
        /\ \A u \in Uploads \ {r} : upload'[u] = upload[u]
    BY <1>1, <1>3 DEF UploadSave, UploadSaveFile, Next, Upload
  <2>2. upload'[r].order = upload[r].order /\ upload'[r].pc = "saved" /\ step'[r] = "insert"
    BY <1>1, <2>1 DEF UploadSaveFile, UploadState, Shape
  <2>3. UploadTx(r)'
    BY <1>1, <2>1, <2>2 DEF UploadTx
  <2>4. TxOf(r)'
    BY <2>3, CallTypes DEF TxOf, IsCall
  <2>. QED
    BY <1>1, <2>1, <2>4, MoveKeeps
<1>. QED
  BY <1>2, <1>3

LEMMA CallStartKeeps ==
  ASSUME TxInv, NEW c \in Calls, CallStart(c)
  PROVE  TxInv'
<1>1. /\ Shape /\ TxOf(c) /\ c \in Transactions /\ c \notin Uploads
      /\ OrderIn(c) = CallOf[c].order /\ UNCHANGED vars
      /\ \A k : IsCall(c, k)' <=> IsCall(c, k)
      /\ \A j, k : IsCall(c, j) /\ IsCall(c, k) => j = k
  BY CallTypes DEF TxInv, Transactions, IsCall, CallStart
<1>2. /\ step[c] = "idle" /\ UNCHANGED <<locks, todo, writes>> /\ CallOf[c].order \in Placed'
      /\ step'[c] = IF IsCall(c, "webhook") THEN "event" ELSE "decide"
  BY <1>1 DEF CallStart, Shape, vars, Placed
<1>3. ASSUME NEW verdict, NEW status, ~IsCall(c, "webhook"), DecisionTx(c, verdict, status)
      PROVE  DecisionTx(c, verdict, status)'
  BY <1>2, <1>3 DEF DecisionTx
<1>4. IsCall(c, "approve") => ApproveTx(c)'
  <2>. HAVE IsCall(c, "approve")
  <2>1. ApproveTx(c) /\ step'[c] = "decide" /\ DecisionTx(c, "approved", "success")'
    BY <1>1, <1>2, <1>3 DEF TxOf, ApproveTx
  <2>2. DOMAIN writes[c].stock = {} /\ DOMAIN writes[c].vendorOrders = {} /\ DOMAIN writes[c].vendorPayouts = {}
    BY <1>2, <2>1 DEF ApproveTx
  <2>. QED
    BY <1>2, <2>1, <2>2 DEF ApproveTx
<1>5. IsCall(c, "reject") => RejectTx(c)'
  <2>. HAVE IsCall(c, "reject")
  <2>1. RejectTx(c) /\ step'[c] = "decide" /\ DecisionTx(c, "rejected", "failed")'
    BY <1>1, <1>2, <1>3 DEF TxOf, RejectTx
  <2>. QED
    BY <1>1, <1>2, <2>1 DEF RejectTx, vars, DecisionTx
<1>6. IsCall(c, "webhook") => WebhookTx(c)'
  <2>. HAVE IsCall(c, "webhook")
  <2>1. WebhookTx(c) /\ step'[c] = "event"
    BY <1>1, <1>2 DEF TxOf
  <2>. QED
    BY <1>2, <2>1 DEF WebhookTx
<1>7. TxOf(c)'
  BY <1>1, <1>4, <1>5, <1>6 DEF TxOf
<1>8. \E next : step' = [step EXCEPT ![c] = next]
  BY DEF CallStart
<1>. QED
  BY <1>1, <1>2, <1>7, <1>8, MoveKeeps DEF vars

LEMMA UploadStatements ==
  ASSUME TxInv, NEW r \in Uploads, UploadInsertProof(r) \/ UploadOrder(r) \/ UploadPayment(r)
  PROVE  TxInv'
<1> DEFINE o == upload[r].order
           w == writes[r]
<1>1. /\ Shape /\ LocksExclude /\ UploadTx(r) /\ r \in Transactions /\ OrderIn(r) = o
      /\ UNCHANGED vars /\ \A k : ~IsCall(r, k)
      /\ DOMAIN writes = Transactions /\ DOMAIN w = Tables /\ UNCHANGED todo
  BY CallTypes DEF TxInv, TxOf, Shape, UploadInsertProof, UploadOrder, UploadPayment
<1>2. upload'[r] = upload[r] /\ orders' = orders
  BY <1>1 DEF vars
<1>3. UploadTx(r)' => TxOf(r)'
  BY CallTypes DEF TxOf, IsCall
<1>4. /\ step[r] \in {"idle", "save", "insert"} => DOMAIN w.orders = {} /\ DOMAIN w.payments = {} /\ DOMAIN w.proofs = {}
      /\ DOMAIN w.stock = {} /\ DOMAIN w.vendorOrders = {} /\ DOMAIN w.vendorPayouts = {}
  BY <1>1 DEF UploadTx
<1>5. CASE UploadInsertProof(r)
  <2>1. Runs(r, "insert", "order")
    BY <1>5 DEF UploadInsertProof
  <2>2. /\ step[r] = "insert" /\ step'[r] = "order"
        /\ locks'[r] = locks[r] \union Wants(r)
    BY <1>1, <2>1, RunsLocks
  <2>3. OrderLock(o, "keyshare") \in locks'[r]
    BY <1>1, <2>2 DEF Wants
  <2>4. /\ OnlyTouches(r)
        /\ writes'[r] = [w EXCEPT !.proofs = With(w.proofs, r, "pending")]
    BY <1>1, <1>5 DEF UploadInsertProof, OnlyTouches, Shape
  <2>5. /\ writes'[r].proofs = With(w.proofs, r, "pending")
        /\ writes'[r].orders = w.orders /\ writes'[r].payments = w.payments
        /\ writes'[r].stock = w.stock /\ writes'[r].vendorOrders = w.vendorOrders
        /\ writes'[r].vendorPayouts = w.vendorPayouts
    BY <1>1, <2>4 DEF Tables
  <2>6. DOMAIN writes'[r].proofs = {r} /\ writes'[r].proofs[r] = "pending"
    BY <1>4, <2>2, <2>5 DEF With
  <2>7. UploadTx(r)'
    BY <1>1, <1>2, <1>4, <2>2, <2>3, <2>5, <2>6 DEF UploadTx
  <2>. QED
    BY <1>1, <1>3, <2>1, <2>4, <2>7, StatementKeeps
<1>6. CASE UploadOrder(r)
  <2>1. Runs(r, "order", "payment")
    BY <1>6 DEF UploadOrder
  <2>2. /\ step[r] = "order" /\ step'[r] = "payment"
        /\ locks'[r] = locks[r] \union Wants(r)
    BY <1>1, <2>1, RunsLocks
  <2>3. OrderLock(o, "nokey") \in locks'[r]
    BY <1>1, <2>2 DEF Wants
  <2>4. /\ OnlyTouches(r)
        /\ writes'[r] = [w EXCEPT !.orders = With(w.orders, o, UnderReview(orders[o]))]
    BY <1>1, <1>6 DEF UploadOrder, OnlyTouches, Shape
  <2>5. /\ writes'[r].orders = With(w.orders, o, UnderReview(orders[o]))
        /\ writes'[r].proofs = w.proofs /\ writes'[r].payments = w.payments
        /\ writes'[r].stock = w.stock /\ writes'[r].vendorOrders = w.vendorOrders
        /\ writes'[r].vendorPayouts = w.vendorPayouts
    BY <1>1, <2>4 DEF Tables
  <2>6. /\ DOMAIN writes'[r].orders = DOMAIN w.orders \union {o}
        /\ writes'[r].orders[o] = UnderReview(orders[o])
    BY <2>5 DEF With
  <2>7. UploadTx(r)'
    BY <1>1, <1>2, <1>4, <2>2, <2>3, <2>5, <2>6 DEF UploadTx
  <2>. QED
    BY <1>1, <1>3, <2>1, <2>4, <2>7, StatementKeeps
<1>7. CASE UploadPayment(r)
  <2>1. Runs(r, "payment", "commit")
    BY <1>7 DEF UploadPayment
  <2>2. /\ step[r] = "payment" /\ step'[r] = "commit"
        /\ locks'[r] = locks[r] \union Wants(r)
    BY <1>1, <2>1, RunsLocks
  <2>4. /\ OnlyTouches(r)
        /\ writes'[r] = [w EXCEPT !.payments = With(w.payments, o, "proof_uploaded")]
    BY <1>1, <1>7 DEF UploadPayment, OnlyTouches, Shape
  <2>5. /\ writes'[r].payments = With(w.payments, o, "proof_uploaded")
        /\ writes'[r].proofs = w.proofs /\ writes'[r].orders = w.orders
        /\ writes'[r].stock = w.stock /\ writes'[r].vendorOrders = w.vendorOrders
        /\ writes'[r].vendorPayouts = w.vendorPayouts
    BY <1>1, <2>4 DEF Tables
  <2>6. /\ DOMAIN writes'[r].payments = DOMAIN w.payments \union {o}
        /\ writes'[r].payments[o] = "proof_uploaded"
    BY <2>5 DEF With
  <2>7. UploadTx(r)'
    BY <1>1, <1>2, <1>4, <2>2, <2>5, <2>6 DEF UploadTx
  <2>. QED
    BY <1>1, <1>3, <2>1, <2>4, <2>7, StatementKeeps
<1>. QED
  BY <1>5, <1>6, <1>7

LEMMA ContentsArranged ==
  ASSUME NEW o, NEW s \in ItemOrders(o)
  PROVE  /\ s \in Seq(Contents(o))
         /\ \A p \in Contents(o) : \E i \in 1 .. Len(s) : s[i] = p
<1>1. Contents(o) \subseteq Products
  BY DEF Contents
<1>2. Cardinality(Contents(o)) \in Nat
  BY <1>1, ProductsAssumption, FS_Subset, FS_CardinalityType
<1>3. s \in [1 .. Cardinality(Contents(o)) -> Contents(o)]
  BY DEF ItemOrders, Arrangements
<1>4. s \in Seq(Contents(o))
  BY <1>2, <1>3
<1>5. Len(s) = Cardinality(Contents(o))
  BY <1>2, <1>3
<1>. QED
  BY <1>3, <1>4, <1>5 DEF ItemOrders, Arrangements

\* What is known of a call at the start of each of its statements.
LEMMA CallTx ==
  ASSUME TxInv, NEW c \in Calls
  PROVE  /\ Shape /\ LocksExclude /\ c \in Transactions /\ c \notin Uploads
         /\ DOMAIN todo = Transactions
         /\ DOMAIN writes = Transactions /\ DOMAIN writes[c] = Tables
         /\ OrderIn(c) = CallOf[c].order
         /\ IsCall(c, "approve") => /\ ApproveTx(c) /\ DecisionTx(c, "approved", "success")
                                    /\ ~IsCall(c, "reject") /\ ~IsCall(c, "webhook")
                                    /\ ApproveTx(c)' => TxOf(c)'
         /\ IsCall(c, "reject") => /\ RejectTx(c) /\ DecisionTx(c, "rejected", "failed")
                                   /\ ~IsCall(c, "approve") /\ ~IsCall(c, "webhook")
                                   /\ RejectTx(c)' => TxOf(c)'
         /\ IsCall(c, "webhook") => /\ WebhookTx(c)
                                    /\ ~IsCall(c, "approve") /\ ~IsCall(c, "reject")
                                    /\ WebhookTx(c)' => TxOf(c)'
         /\ step[c] \in {"deduct", "settle"} => IsCall(c, "approve")
         /\ step[c] = "review" => IsCall(c, "approve") \/ IsCall(c, "reject")
         /\ step[c] = "event" => IsCall(c, "webhook")
<1>1. /\ Shape /\ LocksExclude /\ c \in Transactions /\ c \notin Uploads
      /\ DOMAIN todo = Transactions
      /\ DOMAIN writes = Transactions /\ DOMAIN writes[c] = Tables
      /\ OrderIn(c) = CallOf[c].order /\ TxOf(c)
      /\ IsCall(c, "approve") \/ IsCall(c, "reject") \/ IsCall(c, "webhook")
  BY CallTypes DEF TxInv, Transactions, Shape
<1>2. \A j, k : IsCall(c, j) /\ IsCall(c, k) => j = k
  BY DEF IsCall
<1>3. \A k : IsCall(c, k)' <=> IsCall(c, k)
  BY DEF IsCall
<1>4. IsCall(c, "approve") => /\ ApproveTx(c) /\ DecisionTx(c, "approved", "success")
                              /\ ~IsCall(c, "reject") /\ ~IsCall(c, "webhook")
                              /\ ApproveTx(c)' => TxOf(c)'
  <2>. HAVE IsCall(c, "approve")
  <2>1. ~IsCall(c, "reject") /\ ~IsCall(c, "webhook")
    BY <1>2
  <2>2. ApproveTx(c)' => TxOf(c)'
    BY <1>1, <1>3, <2>1 DEF TxOf
  <2>3. ApproveTx(c)
    BY <1>1 DEF TxOf
  <2>. QED
    BY <2>1, <2>2, <2>3 DEF ApproveTx
<1>5. IsCall(c, "reject") => /\ RejectTx(c) /\ DecisionTx(c, "rejected", "failed")
                             /\ ~IsCall(c, "approve") /\ ~IsCall(c, "webhook")
                             /\ RejectTx(c)' => TxOf(c)'
  <2>. HAVE IsCall(c, "reject")
  <2>1. ~IsCall(c, "approve") /\ ~IsCall(c, "webhook")
    BY <1>2
  <2>2. RejectTx(c)' => TxOf(c)'
    BY <1>1, <1>3, <2>1 DEF TxOf
  <2>3. RejectTx(c)
    BY <1>1 DEF TxOf
  <2>. QED
    BY <2>1, <2>2, <2>3 DEF RejectTx
<1>6. IsCall(c, "webhook") => /\ WebhookTx(c)
                              /\ ~IsCall(c, "approve") /\ ~IsCall(c, "reject")
                              /\ WebhookTx(c)' => TxOf(c)'
  <2>. HAVE IsCall(c, "webhook")
  <2>1. ~IsCall(c, "approve") /\ ~IsCall(c, "reject")
    BY <1>2
  <2>2. WebhookTx(c)' => TxOf(c)'
    BY <1>1, <1>3, <2>1 DEF TxOf
  <2>. QED
    BY <1>1, <2>1, <2>2 DEF TxOf
<1>7. /\ step[c] \in {"deduct", "settle"} => ~RejectTx(c) /\ ~WebhookTx(c)
      /\ step[c] = "review" => ~WebhookTx(c)
      /\ step[c] = "event" => ~ApproveTx(c) /\ ~RejectTx(c)
  BY DEF ApproveTx, RejectTx, WebhookTx
<1>. QED
  BY <1>1, <1>4, <1>5, <1>6, <1>7

LEMMA SelectKeeps ==
  ASSUME TxInv, NEW c \in Calls, ApproveSelect(c) \/ RejectSelect(c)
  PROVE  TxInv'
<1> DEFINE o == CallOf[c].order
           w == writes[c]
<1>1. CASE ApproveSelect(c)
  <2>1. /\ Runs(c, "decide", "deduct") /\ IsCall(c, "approve") /\ Approvable(o)
        /\ UNCHANGED writes /\ UNCHANGED vars /\ OrderIn(c) = o
        /\ Shape /\ LocksExclude /\ c \in Transactions
        /\ ApproveTx(c) /\ DecisionTx(c, "approved", "success")
        /\ ApproveTx(c)' => TxOf(c)'
    BY <1>1, CallTx DEF ApproveSelect
  <2>2. /\ step[c] = "decide" /\ step'[c] = "deduct"
        /\ locks'[c] = locks[c] \union Wants(c)
    BY <2>1, RunsLocks
  <2>3. OrderLock(o, "update") \in locks'[c]
    <3>1. Wants(c) = DecisionLock(c)
      BY <2>2 DEF Wants
    <3>2. OrderLock(o, "update") \in DecisionLock(c)
      BY <2>1 DEF DecisionLock
    <3>. QED
      BY <2>2, <3>1, <3>2
  <2>4. PICK s \in ItemOrders(o) : todo' = [todo EXCEPT ![c] = s]
    BY <1>1, <2>1 DEF ApproveSelect
  <2>5. todo'[c] = s /\ OnlyTouches(c) /\ writes'[c] = w
    BY <2>1, <2>4 DEF Shape, OnlyTouches
  <2>6. /\ s \in Seq(Contents(o))
        /\ \A p \in Contents(o) : \E i \in 1 .. Len(s) : s[i] = p
    BY <2>4, ContentsArranged
  <2>7. Contents(o)' = Contents(o) /\ Approvable(o)' /\ Placed' = Placed /\ VendorsIn(o)' = VendorsIn(o)
    BY <2>1 DEF Contents, Approvable, Placed, VendorsIn, vars
  <2>8. DecisionTx(c, "approved", "success")'
    BY <2>1, <2>2, <2>3, <2>5, <2>7 DEF DecisionTx
  <2>9. DOMAIN w.stock = {} /\ DOMAIN w.vendorOrders = {} /\ DOMAIN w.vendorPayouts = {}
    BY <2>1, <2>2 DEF ApproveTx
  <2>10. ApproveTx(c)'
    BY <2>2, <2>5, <2>6, <2>7, <2>8, <2>9 DEF ApproveTx
  <2>. QED
    BY <2>1, <2>5, <2>10, StatementKeeps
<1>2. CASE RejectSelect(c)
  <2>1. /\ Runs(c, "decide", "order") /\ IsCall(c, "reject") /\ Rejectable(o)
        /\ UNCHANGED todo /\ UNCHANGED writes /\ UNCHANGED vars /\ OrderIn(c) = o
        /\ Shape /\ LocksExclude /\ c \in Transactions
        /\ RejectTx(c) /\ DecisionTx(c, "rejected", "failed")
        /\ RejectTx(c)' => TxOf(c)'
    BY <1>2, CallTx DEF RejectSelect
  <2>2. /\ step[c] = "decide" /\ step'[c] = "order"
        /\ locks'[c] = locks[c] \union Wants(c)
    BY <2>1, RunsLocks
  <2>3. OrderLock(o, "update") \in locks'[c]
    <3>1. Wants(c) = DecisionLock(c)
      BY <2>2 DEF Wants
    <3>2. OrderLock(o, "update") \in DecisionLock(c)
      BY <2>1 DEF DecisionLock
    <3>. QED
      BY <2>2, <3>1, <3>2
  <2>4. OnlyTouches(c) /\ writes'[c] = w
    BY <2>1 DEF Shape, OnlyTouches
  <2>5. Rejectable(o)' /\ Placed' = Placed /\ orders' = orders
    BY <2>1 DEF Rejectable, Placed, vars
  <2>6. DecisionTx(c, "rejected", "failed")'
    BY <2>1, <2>2, <2>3, <2>4, <2>5 DEF DecisionTx
  <2>7. RejectTx(c)'
    BY <2>1, <2>2, <2>4, <2>5, <2>6 DEF RejectTx
  <2>. QED
    BY <2>1, <2>4, <2>7, StatementKeeps
<1>. QED
  BY <1>1, <1>2

LEMMA DeductKeeps ==
  ASSUME TxInv, NEW c \in Calls, ApproveDeduct(c)
  PROVE  TxInv'
<1> DEFINE o == CallOf[c].order
           w == writes[c]
           p == Head(todo[c])
           next == IF Len(todo[c]) = 1 THEN "settle" ELSE "deduct"
<1>1. Runs(c, "deduct", next) /\ todo[c] # <<>> /\ step[c] = "deduct"
  BY DEF ApproveDeduct, Runs
<1>2. /\ Shape /\ LocksExclude /\ c \in Transactions /\ OrderIn(c) = o /\ UNCHANGED vars
      /\ DOMAIN todo = Transactions /\ DOMAIN writes = Transactions /\ DOMAIN w = Tables
      /\ ApproveTx(c) /\ DecisionTx(c, "approved", "success")
      /\ ApproveTx(c)' => TxOf(c)'
  BY <1>1, CallTx DEF ApproveDeduct
<1>3. /\ step'[c] = next /\ locks'[c] = locks[c] \union Wants(c)
  BY <1>1, <1>2, RunsLocks
<1>4. Row("product", p) \in locks'[c] /\ locks[c] \subseteq locks'[c]
  BY <1>1, <1>2, <1>3 DEF Wants
<1>5. /\ writes'[c] = [w EXCEPT !.stock = With(w.stock, p, stock[p] - items[o][p])]
      /\ todo'[c] = Tail(todo[c])
      /\ OnlyTouches(c)
  BY <1>2 DEF ApproveDeduct, OnlyTouches
<1>6. /\ writes'[c].stock = With(w.stock, p, stock[p] - items[o][p])
      /\ writes'[c].orders = w.orders /\ writes'[c].payments = w.payments /\ writes'[c].proofs = w.proofs
      /\ writes'[c].vendorOrders = w.vendorOrders /\ writes'[c].vendorPayouts = w.vendorPayouts
  BY <1>2, <1>5 DEF Tables
<1>7. /\ o \in Placed /\ OrderLock(o, "update") \in locks[c] /\ Approvable(o)
      /\ DOMAIN w.orders = {} /\ DOMAIN w.payments = {} /\ DOMAIN w.proofs = {}
      /\ DOMAIN w.vendorOrders = {} /\ DOMAIN w.vendorPayouts = {}
      /\ DOMAIN w.stock \subseteq Contents(o)
      /\ \A q \in DOMAIN w.stock :
           /\ Row("product", q) \in locks[c]
           /\ w.stock[q] = stock[q] - items[o][q] /\ stock[q] >= items[o][q]
      /\ todo[c] \in Seq(Contents(o))
      /\ \A q \in Contents(o) \ DOMAIN w.stock : \E i \in 1 .. Len(todo[c]) : todo[c][i] = q
  BY <1>1, <1>2 DEF ApproveTx, DecisionTx
<1>8. Contents(o)' = Contents(o) /\ Approvable(o)' /\ Placed' = Placed /\ VendorsIn(o)' = VendorsIn(o)
  BY <1>2, <1>7 DEF Contents, Approvable, Placed, VendorsIn, vars
<1>9. DecisionTx(c, "approved", "success")'
  BY <1>3, <1>4, <1>6, <1>7, <1>8 DEF DecisionTx
<1>10. p \in Contents(o) /\ DOMAIN writes'[c].stock = DOMAIN w.stock \union {p}
  BY <1>1, <1>6, <1>7 DEF With
<1>11. \A q \in DOMAIN writes'[c].stock :
         /\ Row("product", q) \in locks'[c]
         /\ writes'[c].stock[q] = stock[q] - items[o][q] /\ stock[q] >= items[o][q]
  <2>1. stock[p] >= items[o][p]
    BY <1>2 DEF ApproveDeduct, InStockOf
  <2>2. writes'[c].stock[p] = stock[p] - items[o][p]
    BY <1>6 DEF With
  <2>3. \A q \in DOMAIN w.stock \ {p} : writes'[c].stock[q] = w.stock[q]
    BY <1>6 DEF With
  <2>. QED
    BY <1>4, <1>7, <1>10, <2>1, <2>2, <2>3
<1>12. step'[c] = "settle" => DOMAIN writes'[c].stock = Contents(o)
  <2> SUFFICES ASSUME Len(todo[c]) = 1, NEW q \in Contents(o), q \notin DOMAIN w.stock
               PROVE  q = p
    BY <1>3, <1>7, <1>10
  <2>1. PICK i \in 1 .. Len(todo[c]) : todo[c][i] = q
    BY <1>7
  <2>2. i = 1
    BY <2>1
  <2>. QED
    BY <1>1, <1>7, <2>1, <2>2
<1>13. Tail(todo[c]) \in Seq(Contents(o))
  BY <1>1, <1>7, HeadTailProperties
<1>14. ASSUME NEW q \in Contents(o) \ DOMAIN writes'[c].stock
       PROVE  \E i \in 1 .. Len(Tail(todo[c])) : Tail(todo[c])[i] = q
  <2>1. PICK i \in 1 .. Len(todo[c]) : todo[c][i] = q
    BY <1>7, <1>10, <1>14
  <2>2. i # 1
    BY <1>1, <1>7, <1>10, <1>14, <2>1
  <2>3. i - 1 \in 1 .. Len(Tail(todo[c])) /\ Tail(todo[c])[i - 1] = q
    BY <1>1, <1>7, <2>1, <2>2
  <2>. QED
    BY <2>3
<1>15. ApproveTx(c)'
  <2>1. UNCHANGED <<stock, items>>
    BY <1>2 DEF vars
  <2>2. /\ DOMAIN writes'[c].vendorOrders = {} /\ DOMAIN writes'[c].vendorPayouts = {}
        /\ DOMAIN writes'[c].stock \subseteq Contents(o)
        /\ step'[c] \in {"deduct", "settle"}
    BY <1>3, <1>6, <1>7, <1>10
  <2>. QED
    BY <1>5, <1>8, <1>9, <1>11, <1>12, <1>13, <1>14, <2>1, <2>2 DEF ApproveTx
<1>. QED
  BY <1>1, <1>2, <1>5, <1>15, StatementKeeps

LEMMA SettleKeeps ==
  ASSUME TxInv, NEW c \in Calls, ApproveSettle(c)
  PROVE  TxInv'
<1> DEFINE o == CallOf[c].order
           w == writes[c]
           ready == [k \in {o} \X VendorsIn(o) |-> ReadyVendorOrder]
           queued == [k \in {o} \X Unpaid(o) |-> QueuePayout(vendorPayouts[o][k[2]])]
<1>1. Runs(c, "settle", "payment") /\ step[c] = "settle"
  BY DEF ApproveSettle, Runs
<1>2. /\ Shape /\ LocksExclude /\ c \in Transactions /\ OrderIn(c) = o
      /\ DOMAIN todo = Transactions /\ DOMAIN writes = Transactions /\ DOMAIN w = Tables
      /\ ApproveTx(c) /\ DecisionTx(c, "approved", "success")
      /\ ApproveTx(c)' => TxOf(c)'
  BY <1>1, CallTx
<1>3. UNCHANGED vars /\ todo' = todo
  BY DEF ApproveSettle
<1>4. /\ step'[c] = "payment" /\ locks'[c] = locks[c] \union Wants(c)
  BY <1>1, <1>2, RunsLocks
<1>5. /\ \A v \in Unpaid(o) : Row("vendor_payout", <<o, v>>) \in locks'[c]
      /\ locks[c] \subseteq locks'[c]
  BY <1>1, <1>2, <1>4 DEF Wants
<1>6. writes' = [writes EXCEPT ![c].orders = With(@, o, ApprovedOrder),
                               ![c].vendorOrders = ready,
                               ![c].vendorPayouts = queued]
  BY <1>2 DEF ApproveSettle
<1>7. OnlyTouches(c)
  BY <1>2, <1>3, <1>6 DEF OnlyTouches, Tables
<1>8. /\ writes'[c].orders = With(w.orders, o, ApprovedOrder)
      /\ writes'[c].vendorOrders = ready
      /\ writes'[c].vendorPayouts = queued
      /\ writes'[c].payments = w.payments /\ writes'[c].proofs = w.proofs
      /\ writes'[c].stock = w.stock
  BY <1>2, <1>6 DEF Tables
<1>9. /\ o \in Placed /\ OrderLock(o, "update") \in locks[c] /\ Approvable(o)
      /\ DOMAIN w.orders = {} /\ DOMAIN w.payments = {} /\ DOMAIN w.proofs = {}
      /\ DOMAIN w.stock = Contents(o)
      /\ \A q \in DOMAIN w.stock :
           /\ Row("product", q) \in locks[c]
           /\ w.stock[q] = stock[q] - items[o][q] /\ stock[q] >= items[o][q]
  BY <1>1, <1>2 DEF ApproveTx, DecisionTx
<1>10. /\ Contents(o)' = Contents(o) /\ Approvable(o)' /\ Placed' = Placed
       /\ VendorsIn(o)' = VendorsIn(o) /\ Unpaid(o)' = Unpaid(o)
       /\ UNCHANGED <<stock, items>>
  BY <1>3, <1>9 DEF Contents, Approvable, Placed, VendorsIn, Unpaid, vars
<1>11. DOMAIN writes'[c].orders = {o} /\ writes'[c].orders[o] = ApprovedOrder
  BY <1>8, <1>9 DEF With
<1>12. DecisionTx(c, "approved", "success")'
  BY <1>4, <1>5, <1>8, <1>9, <1>10, <1>11 DEF DecisionTx
<1>13. /\ DOMAIN writes'[c].vendorOrders = {o} \X VendorsIn(o)
       /\ \A v \in VendorsIn(o) : writes'[c].vendorOrders[<<o, v>>] = ReadyVendorOrder
  BY <1>8
<1>14. /\ DOMAIN writes'[c].vendorPayouts = {o} \X Unpaid(o)
       /\ \A v \in Unpaid(o) : writes'[c].vendorPayouts[<<o, v>>] = "queued"
  <2>1. \A v \in Unpaid(o) : QueuePayout(vendorPayouts[o][v]) = "queued"
    BY DEF Unpaid, QueuePayout
  <2>2. \A v \in Unpaid(o) : queued[<<o, v>>] = QueuePayout(vendorPayouts[o][v])
    OBVIOUS
  <2>. QED
    BY <1>8, <2>1, <2>2
<1>15. ApproveTx(c)'
  <2>1. /\ DOMAIN writes'[c].stock = Contents(o)
        /\ \A q \in DOMAIN writes'[c].stock :
             /\ Row("product", q) \in locks'[c]
             /\ writes'[c].stock[q] = stock'[q] - items'[o][q] /\ stock'[q] >= items'[o][q]
    BY <1>5, <1>8, <1>9, <1>10
  <2>. QED
    BY <1>4, <1>5, <1>10, <1>11, <1>12, <1>13, <1>14, <2>1 DEF ApproveTx
<1>. QED
  BY <1>1, <1>2, <1>3, <1>7, <1>15, StatementKeeps

LEMMA RejectOrderKeeps ==
  ASSUME TxInv, NEW c \in Calls, RejectOrder(c)
  PROVE  TxInv'
<1> DEFINE o == CallOf[c].order
           w == writes[c]
<1>1. Runs(c, "order", "payment") /\ step[c] = "order" /\ IsCall(c, "reject")
  BY DEF RejectOrder, Runs
<1>2. /\ Shape /\ LocksExclude /\ c \in Transactions /\ OrderIn(c) = o
      /\ DOMAIN todo = Transactions /\ DOMAIN writes = Transactions /\ DOMAIN w = Tables
      /\ RejectTx(c) /\ DecisionTx(c, "rejected", "failed")
      /\ RejectTx(c)' => TxOf(c)'
  BY <1>1, CallTx
<1>3. UNCHANGED vars /\ todo' = todo
  BY DEF RejectOrder
<1>4. /\ step'[c] = "payment" /\ locks'[c] = locks[c] \union Wants(c)
  BY <1>1, <1>2, RunsLocks
<1>5. writes'[c] = [w EXCEPT !.orders = With(w.orders, o, RejectedOrder(orders[o]))] /\ OnlyTouches(c)
  BY <1>2, <1>3 DEF RejectOrder, OnlyTouches
<1>6. /\ writes'[c].orders = With(w.orders, o, RejectedOrder(orders[o]))
      /\ writes'[c].payments = w.payments /\ writes'[c].proofs = w.proofs
      /\ writes'[c].stock = w.stock /\ writes'[c].vendorOrders = w.vendorOrders
      /\ writes'[c].vendorPayouts = w.vendorPayouts
  BY <1>2, <1>5 DEF Tables
<1>7. /\ o \in Placed /\ OrderLock(o, "update") \in locks[c] /\ Rejectable(o)
      /\ DOMAIN w.orders = {} /\ DOMAIN w.payments = {} /\ DOMAIN w.proofs = {}
      /\ DOMAIN w.stock = {} /\ DOMAIN w.vendorOrders = {} /\ DOMAIN w.vendorPayouts = {}
  BY <1>1, <1>2 DEF RejectTx, DecisionTx
<1>8. /\ Rejectable(o)' /\ Placed' = Placed /\ orders' = orders
  BY <1>3, <1>7 DEF Rejectable, Placed, vars
<1>9. DOMAIN writes'[c].orders = {o} /\ writes'[c].orders[o] = RejectedOrder(orders[o])
  BY <1>6, <1>7 DEF With
<1>10. DecisionTx(c, "rejected", "failed")'
  BY <1>4, <1>6, <1>7, <1>8, <1>9 DEF DecisionTx
<1>11. RejectTx(c)'
  BY <1>4, <1>6, <1>7, <1>8, <1>9, <1>10 DEF RejectTx
<1>. QED
  BY <1>1, <1>2, <1>3, <1>5, <1>11, StatementKeeps

\* Once it has written the order, a decision writes the payment and the review.
LEMMA DecisionWrites ==
  ASSUME TxInv, NEW c \in Calls, NEW verdict, NEW status, DecisionTx(c, verdict, status),
         \/ /\ Runs(c, "payment", "review")
            /\ writes' = [writes EXCEPT ![c].payments = With(@, CallOf[c].order, status)]
         \/ /\ Runs(c, "review", "commit")
            /\ writes' = [writes EXCEPT
                 ![c].proofs = [r \in ProofsOf(CallOf[c].order, "pending") |-> verdict]],
         UNCHANGED vars, UNCHANGED todo
  PROVE  /\ DecisionTx(c, verdict, status)' /\ OnlyTouches(c)
         /\ step[c] \in {"payment", "review"} /\ step'[c] \in {"review", "commit"}
         /\ locks[c] \subseteq locks'[c]
         /\ writes'[c].orders = writes[c].orders /\ writes'[c].stock = writes[c].stock
         /\ writes'[c].vendorOrders = writes[c].vendorOrders
         /\ writes'[c].vendorPayouts = writes[c].vendorPayouts
<1> DEFINE o == CallOf[c].order
           w == writes[c]
           reviews == [r \in ProofsOf(o, "pending") |-> verdict]
<1>1. /\ Shape /\ LocksExclude /\ c \in Transactions
      /\ DOMAIN todo = Transactions /\ DOMAIN writes = Transactions /\ DOMAIN w = Tables
  BY CallTx
<1>2. Placed' = Placed /\ ProofsOf(o, "pending")' = ProofsOf(o, "pending")
  BY DEF Placed, ProofsOf, vars
<1>3. CASE Runs(c, "payment", "review")
  <2>1. step[c] = "payment" /\ step'[c] = "review" /\ locks'[c] = locks[c] \union Wants(c)
    BY <1>1, <1>3, RunsLocks
  <2>2. writes' = [writes EXCEPT ![c].payments = With(w.payments, o, status)]
    BY <2>1 DEF Runs
  <2>3. writes'[c] = [w EXCEPT !.payments = With(w.payments, o, status)] /\ OnlyTouches(c)
    BY <1>1, <2>2 DEF OnlyTouches
  <2>4. /\ writes'[c].payments = With(w.payments, o, status)
        /\ writes'[c].orders = w.orders /\ writes'[c].proofs = w.proofs
        /\ writes'[c].stock = w.stock /\ writes'[c].vendorOrders = w.vendorOrders
        /\ writes'[c].vendorPayouts = w.vendorPayouts
    BY <1>1, <2>3 DEF Tables
  <2>5. /\ o \in Placed /\ OrderLock(o, "update") \in locks'[c]
        /\ DOMAIN w.orders = {o} /\ DOMAIN w.payments = {} /\ DOMAIN w.proofs = {}
    BY <2>1 DEF DecisionTx
  <2>6. DOMAIN writes'[c].payments = {o} /\ writes'[c].payments[o] = status
    BY <2>4, <2>5 DEF With
  <2>7. DecisionTx(c, verdict, status)'
    BY <1>2, <2>1, <2>4, <2>5, <2>6 DEF DecisionTx
  <2>. QED
    BY <2>1, <2>3, <2>4, <2>7
<1>4. CASE Runs(c, "review", "commit")
  <2>1. step[c] = "review" /\ step'[c] = "commit" /\ locks'[c] = locks[c] \union Wants(c)
    BY <1>1, <1>4, RunsLocks
  <2>2. writes' = [writes EXCEPT ![c].proofs = reviews]
    BY <2>1 DEF Runs
  <2>3. writes'[c] = [w EXCEPT !.proofs = reviews] /\ OnlyTouches(c)
    BY <1>1, <2>2 DEF OnlyTouches
  <2>4. /\ writes'[c].proofs = reviews
        /\ writes'[c].orders = w.orders /\ writes'[c].payments = w.payments
        /\ writes'[c].stock = w.stock /\ writes'[c].vendorOrders = w.vendorOrders
        /\ writes'[c].vendorPayouts = w.vendorPayouts
    BY <1>1, <2>3 DEF Tables
  <2>5. /\ o \in Placed /\ OrderLock(o, "update") \in locks'[c]
        /\ DOMAIN w.orders = {o} /\ DOMAIN w.payments = {o} /\ w.payments[o] = status
    BY <2>1 DEF DecisionTx
  <2>6. DOMAIN reviews = ProofsOf(o, "pending") /\ \A r \in DOMAIN reviews : reviews[r] = verdict
    OBVIOUS
  <2>7. DecisionTx(c, verdict, status)'
    BY <1>2, <2>1, <2>4, <2>5, <2>6 DEF DecisionTx
  <2>. QED
    BY <2>1, <2>3, <2>4, <2>7
<1>. QED
  BY <1>3, <1>4

LEMMA DecisionKeeps ==
  ASSUME TxInv, NEW c \in Calls, DecisionPayment(c) \/ DecisionReview(c)
  PROVE  TxInv'
<1> DEFINE o == CallOf[c].order
           w == writes[c]
           verdict == IF IsCall(c, "approve") THEN "approved" ELSE "rejected"
           status == IF IsCall(c, "approve") THEN "success" ELSE "failed"
<1>1. /\ UNCHANGED vars /\ UNCHANGED todo
      /\ Runs(c, "payment", "review") \/ Runs(c, "review", "commit")
  BY DEF DecisionPayment, DecisionReview
<1>2. IsCall(c, "approve") \/ IsCall(c, "reject")
  <2>1. CASE DecisionPayment(c)
    BY <2>1 DEF DecisionPayment
  <2>2. CASE DecisionReview(c)
    BY <2>2, CallTx DEF DecisionReview, Runs
  <2>. QED
    BY <2>1, <2>2
<1>3. DecisionTx(c, verdict, status) /\ OrderIn(c) = o /\ c \in Transactions
  BY <1>2, CallTx
<1>4. \/ /\ Runs(c, "payment", "review")
         /\ writes' = [writes EXCEPT ![c].payments = With(@, o, status)]
      \/ /\ Runs(c, "review", "commit")
         /\ writes' = [writes EXCEPT ![c].proofs = [r \in ProofsOf(o, "pending") |-> verdict]]
  BY <1>3 DEF DecisionPayment, DecisionReview
<1>5. /\ DecisionTx(c, verdict, status)' /\ OnlyTouches(c)
      /\ step[c] \in {"payment", "review"} /\ step'[c] \in {"review", "commit"}
      /\ locks[c] \subseteq locks'[c]
      /\ writes'[c].orders = w.orders /\ writes'[c].stock = w.stock
      /\ writes'[c].vendorOrders = w.vendorOrders
      /\ writes'[c].vendorPayouts = w.vendorPayouts
  BY <1>1, <1>3, <1>4, DecisionWrites
<1>6. CASE IsCall(c, "approve")
  <2>1. /\ ApproveTx(c)
        /\ ApproveTx(c)' => TxOf(c)'
    BY <1>6, CallTx
  <2>2. DecisionTx(c, "approved", "success")'
    BY <1>5, <1>6 DEF IsCall
  <2>3. /\ Contents(o)' = Contents(o) /\ Approvable(o)' = Approvable(o)
        /\ VendorsIn(o)' = VendorsIn(o) /\ Unpaid(o)' = Unpaid(o)
        /\ UNCHANGED <<stock, items>>
    BY <1>1 DEF Contents, Approvable, VendorsIn, Unpaid, vars
  <2>4. ApproveTx(c)'
    <3>1. /\ Approvable(o)
          /\ DOMAIN w.stock = Contents(o)
          /\ \A q \in DOMAIN w.stock :
               /\ Row("product", q) \in locks[c]
               /\ w.stock[q] = stock[q] - items[o][q] /\ stock[q] >= items[o][q]
          /\ DOMAIN w.vendorOrders = {o} \X VendorsIn(o)
          /\ DOMAIN w.vendorPayouts = {o} \X Unpaid(o)
          /\ w.orders[o] = ApprovedOrder
          /\ \A v \in VendorsIn(o) : w.vendorOrders[<<o, v>>] = ReadyVendorOrder
          /\ \A v \in Unpaid(o) : /\ w.vendorPayouts[<<o, v>>] = "queued"
                                  /\ Row("vendor_payout", <<o, v>>) \in locks[c]
      BY <1>5, <2>1 DEF ApproveTx
    <3>. QED
      BY <1>5, <2>2, <2>3, <3>1 DEF ApproveTx
  <2>. QED
    BY <1>1, <1>3, <1>5, <2>1, <2>4, StatementKeeps
<1>7. CASE IsCall(c, "reject")
  <2>1. /\ RejectTx(c) /\ ~IsCall(c, "approve")
        /\ RejectTx(c)' => TxOf(c)'
    BY <1>7, CallTx
  <2>2. DecisionTx(c, "rejected", "failed")'
    BY <1>5, <2>1 DEF IsCall
  <2>3. orders' = orders /\ Rejectable(o)' = Rejectable(o)
    BY <1>1 DEF Rejectable, vars
  <2>4. RejectTx(c)'
    BY <1>5, <2>1, <2>2, <2>3 DEF RejectTx
  <2>. QED
    BY <1>1, <1>3, <1>5, <2>1, <2>4, StatementKeeps
<1>. QED
  BY <1>2, <1>6, <1>7

LEMMA WebhookStatements ==
  ASSUME TxInv, NEW c \in Calls, WebhookEvent(c) \/ WebhookPayment(c) \/ WebhookOrder(c)
  PROVE  TxInv'
<1> DEFINE o == CallOf[c].order
           w == writes[c]
<1>1. IsCall(c, "webhook")
  BY CallTx DEF WebhookEvent, WebhookPayment, WebhookOrder, Runs
<1>2. /\ Shape /\ LocksExclude /\ c \in Transactions /\ OrderIn(c) = o
      /\ DOMAIN todo = Transactions /\ DOMAIN writes = Transactions /\ DOMAIN w = Tables
      /\ WebhookTx(c)
      /\ WebhookTx(c)' => TxOf(c)'
  BY <1>1, CallTx
<1>3. UNCHANGED vars /\ todo' = todo
  BY DEF WebhookEvent, WebhookPayment, WebhookOrder
<1>4. Placed' = Placed /\ orders' = orders
  BY <1>3 DEF Placed, vars
<1>5. CASE WebhookEvent(c)
  <2>1. Runs(c, "event", "payment") /\ writes' = writes
    BY <1>5 DEF WebhookEvent
  <2>2. step[c] = "event" /\ step'[c] = "payment"
    BY <1>2, <2>1, RunsLocks
  <2>3. OnlyTouches(c) /\ writes'[c] = w
    BY <1>2, <1>3, <2>1 DEF OnlyTouches
  <2>4. /\ o \in Placed
        /\ DOMAIN w.orders = {} /\ DOMAIN w.payments = {} /\ DOMAIN w.proofs = {}
        /\ DOMAIN w.stock = {} /\ DOMAIN w.vendorOrders = {} /\ DOMAIN w.vendorPayouts = {}
    BY <1>2, <2>2 DEF WebhookTx
  <2>5. WebhookTx(c)'
    BY <1>4, <2>2, <2>3, <2>4 DEF WebhookTx
  <2>. QED
    BY <1>2, <1>3, <2>1, <2>3, <2>5, StatementKeeps
<1>6. CASE WebhookPayment(c)
  <2>1. Runs(c, "payment", "order")
    BY <1>6 DEF WebhookPayment
  <2>2. step[c] = "payment" /\ step'[c] = "order"
    BY <1>2, <2>1, RunsLocks
  <2>3. writes'[c] = [w EXCEPT !.payments = With(w.payments, o, "success")] /\ OnlyTouches(c)
    BY <1>2, <1>3, <1>6 DEF WebhookPayment, OnlyTouches
  <2>4. /\ writes'[c].payments = With(w.payments, o, "success")
        /\ writes'[c].orders = w.orders /\ writes'[c].proofs = w.proofs
        /\ writes'[c].stock = w.stock /\ writes'[c].vendorOrders = w.vendorOrders
        /\ writes'[c].vendorPayouts = w.vendorPayouts
    BY <1>2, <2>3 DEF Tables
  <2>5. /\ o \in Placed
        /\ DOMAIN w.orders = {} /\ DOMAIN w.payments = {} /\ DOMAIN w.proofs = {}
        /\ DOMAIN w.stock = {} /\ DOMAIN w.vendorOrders = {} /\ DOMAIN w.vendorPayouts = {}
    BY <1>2, <2>2 DEF WebhookTx
  <2>6. DOMAIN writes'[c].payments = {o} /\ writes'[c].payments[o] = "success"
    BY <2>4, <2>5 DEF With
  <2>7. WebhookTx(c)'
    BY <1>4, <2>2, <2>4, <2>5, <2>6 DEF WebhookTx
  <2>. QED
    BY <1>2, <1>3, <2>1, <2>3, <2>7, StatementKeeps
<1>7. CASE WebhookOrder(c)
  <2>1. Runs(c, "order", "commit")
    BY <1>7 DEF WebhookOrder
  <2>2. step[c] = "order" /\ step'[c] = "commit" /\ locks'[c] = locks[c] \union Wants(c)
    BY <1>2, <2>1, RunsLocks
  <2>3. /\ o \in Placed
        /\ DOMAIN w.orders = {} /\ DOMAIN w.payments = {o} /\ DOMAIN w.proofs = {}
        /\ DOMAIN w.stock = {} /\ DOMAIN w.vendorOrders = {} /\ DOMAIN w.vendorPayouts = {}
        /\ w.payments[o] = "success"
    BY <1>2, <2>2 DEF WebhookTx
  <2>4. CASE orders[o].status = "paid"
    <3>1. OnlyTouches(c) /\ writes'[c] = w
      BY <1>2, <1>3, <1>7, <2>4 DEF WebhookOrder, OnlyTouches
    <3>2. WebhookTx(c)'
      BY <1>4, <2>2, <2>3, <2>4, <3>1 DEF WebhookTx
    <3>. QED
      BY <1>2, <1>3, <2>1, <3>1, <3>2, StatementKeeps
  <2>5. CASE orders[o].status # "paid"
    <3>1. writes'[c] = [w EXCEPT !.orders = With(w.orders, o, WebhookPaid(orders[o]))] /\ OnlyTouches(c)
      BY <1>2, <1>3, <1>7, <2>5 DEF WebhookOrder, OnlyTouches
    <3>2. /\ writes'[c].orders = With(w.orders, o, WebhookPaid(orders[o]))
          /\ writes'[c].payments = w.payments /\ writes'[c].proofs = w.proofs
          /\ writes'[c].stock = w.stock /\ writes'[c].vendorOrders = w.vendorOrders
          /\ writes'[c].vendorPayouts = w.vendorPayouts
      BY <1>2, <3>1 DEF Tables
    <3>3. DOMAIN writes'[c].orders = {o} /\ writes'[c].orders[o] = WebhookPaid(orders[o])
      BY <2>3, <3>2 DEF With
    <3>4. OrderLock(o, "nokey") \in locks'[c]
      BY <1>2, <2>2, <2>5 DEF Wants
    <3>5. WebhookTx(c)'
      BY <1>4, <2>2, <2>3, <3>2, <3>3, <3>4 DEF WebhookTx
    <3>. QED
      BY <1>2, <1>3, <2>1, <3>1, <3>5, StatementKeeps
  <2>. QED
    BY <2>4, <2>5
<1>. QED
  BY <1>5, <1>6, <1>7

LEMMA RefusedKeeps ==
  ASSUME TxInv, NEW c \in Calls, DecisionRefused(c)
  PROVE  TxInv'
<1>1. /\ Ends(c) /\ locks' = [locks EXCEPT ![c] = {}] /\ UNCHANGED vars
      /\ c \in Transactions
  BY CallTx DEF DecisionRefused, LocksReleased
<1>2. [Next]_vars /\ UNCHANGED <<orders, proofs, stock, vendorPayouts, upload>>
  BY <1>1 DEF vars
<1>3. \A u \in Transactions : DataKept(u)
  BY <1>2, QuietKeeps
<1>. QED
  BY <1>1, <1>2, <1>3, EndKeeps

LEMMA RollbackKeeps ==
  ASSUME TxInv, NEW t \in Transactions, Rollback(t)
  PROVE  [Next]_vars /\ TxInv'
<1>1. Ends(t) /\ locks' = [locks EXCEPT ![t] = {}]
  BY DEF Rollback, LocksReleased
<1>2. /\ [Next]_vars /\ UNCHANGED <<orders, proofs, stock, vendorPayouts>>
      /\ \A u \in Uploads \ {t} : upload'[u] = upload[u]
  <2>1. CASE t \in Uploads
    <3>1. UploadFail(t) /\ Next
      BY <2>1 DEF Rollback, Next, Upload
    <3>2. upload \in [Uploads -> UploadState]
      BY DEF TxInv, IInv, TypeOK
    <3>. QED
      BY <3>1, <3>2 DEF UploadFail
  <2>2. CASE t \notin Uploads
    BY <2>2 DEF Rollback, vars
  <2>. QED
    BY <2>1, <2>2
<1>3. \A u \in Transactions : DataKept(u)
  BY <1>2, QuietKeeps
<1>. QED
  BY <1>1, <1>2, <1>3, EndKeeps

LEMMA CommitKeeps ==
  ASSUME TxInv, NEW t \in Transactions, Commit(t)
  PROVE  [Next]_vars /\ TxInv'
<1>1. Ends(t) /\ locks' = [locks EXCEPT ![t] = {}] /\ step[t] = "commit"
  BY DEF Commit
<1>2. CASE t \in Uploads
  <2>1. UploadCommit(t) /\ Next
    BY <1>2, CommitUpload DEF Next, Upload
  <2>2. upload \in [Uploads -> UploadState]
    BY DEF TxInv, IInv, TypeOK
  <2>3. \A u \in Transactions \ {t} : DataKept(u) /\ (u \in Uploads => upload'[u] = upload[u])
    BY <1>1, <1>2, <2>1, <2>2, UploadCommitKeeps DEF UploadCommit
  <2>. QED
    BY <1>1, <2>1, <2>3, EndKeeps
<1>3. CASE t \in Calls
  <2>1. /\ CallOf[t].order \in Orders
        /\ IsCall(t, "approve") \/ IsCall(t, "reject") \/ IsCall(t, "webhook")
        /\ t \notin Uploads
    BY <1>3, CallTypes
  <2>2. UNCHANGED upload
    BY <2>1 DEF Commit
  <2>3. CASE IsCall(t, "approve")
    <3>1. AdminApprovePayment(CallOf[t].order) /\ ApproveTx(t)
      BY <1>3, <2>3, CommitApprove, CallTx
    <3>2. Next
      BY <2>1, <3>1 DEF Next, Admin
    <3>3. \A u \in Transactions \ {t} : DataKept(u)
      BY <1>1, <1>3, <3>1, ApproveKeeps
    <3>. QED
      BY <1>1, <2>2, <3>2, <3>3, EndKeeps
  <2>4. CASE IsCall(t, "reject")
    <3>1. AdminRejectPayment(CallOf[t].order) /\ RejectTx(t)
      BY <1>3, <2>4, CommitReject, CallTx
    <3>2. Next
      BY <2>1, <3>1 DEF Next, Admin
    <3>3. \A u \in Transactions \ {t} : DataKept(u)
      BY <1>1, <1>3, <3>1, RejectKeeps
    <3>. QED
      BY <1>1, <2>2, <3>2, <3>3, EndKeeps
  <2>5. CASE IsCall(t, "webhook")
    <3>1. ProcessPaystackSuccess(CallOf[t].order) /\ WebhookTx(t)
      BY <1>3, <2>5, CommitWebhook, CallTx
    <3>2. Next
      BY <2>1, <3>1 DEF Next
    <3>3. \A u \in Transactions \ {t} : DataKept(u)
      BY <1>1, <1>3, <3>1, WebhookKeeps
    <3>. QED
      BY <1>1, <2>2, <3>2, <3>3, EndKeeps
  <2>. QED
    BY <2>1, <2>3, <2>4, <2>5
<1>. QED
  BY <1>2, <1>3 DEF Transactions

LEMMA OneRowInv ==
  ASSUME TxInv, OneRow
  PROVE  [Next]_vars /\ TxInv'
<1>1. \A u \in Transactions : [Next]_vars /\ DataKept(u)
  BY OneRowKeeps
<1>2. [Next]_vars
  BY DEF OneRow, Next, Admin, Vendor
<1>3. /\ UNCHANGED step /\ UNCHANGED locks /\ UNCHANGED todo /\ UNCHANGED writes
      /\ UNCHANGED upload
  BY DEF OneRow, txVars, Checkout, CheckoutItem, CheckoutRefused, PlaceOrder,
         AdminMarkVendorPayoutPaid, VendorUpdateFulfillment, VendorSetStock
<1>4. IInv' /\ VendorOrdersOfVendors'
  BY <1>2, NextIInv, VendorOrdersSteady DEF TxInv
<1>5. Shape' /\ LocksExclude'
  BY <1>3 DEF TxInv, Shape, LocksExclude, Transactions
<1>6. ASSUME NEW u \in Transactions
      PROVE  TxOf(u)'
  BY <1>1, <1>3, Undisturbed DEF OwnKept
<1>. QED
  BY <1>2, <1>4, <1>5, <1>6 DEF TxInv, Transactions

----------------------------------------------------------------------------
(* The refinement *)

LEMMA TxInitInv == TxInit => TxInv
<1> SUFFICES ASSUME TxInit
             PROVE  TxInv
  OBVIOUS
<1>1. Init /\ IInv
  BY InitType, InitAgreement DEF TxInit, IInv, Agreement
<1>2. VendorOrdersOfVendors
  BY <1>1 DEF VendorOrdersOfVendors, Init, Placed
<1>3. Shape /\ LocksExclude
  BY DEF TxInit, Shape, LocksExclude, Tables, NoWrites
<1>4. ASSUME NEW t \in Transactions
      PROVE  TxOf(t)
  <2>1. step[t] = "idle" /\ writes[t] = NoWrites
    BY DEF TxInit
  <2>2. /\ DOMAIN NoWrites.orders = {} /\ DOMAIN NoWrites.payments = {} /\ DOMAIN NoWrites.stock = {}
        /\ DOMAIN NoWrites.vendorOrders = {} /\ DOMAIN NoWrites.vendorPayouts = {}
        /\ DOMAIN NoWrites.proofs = {}
    BY DEF NoWrites, Nothing
  <2>3. UploadTx(t)
    BY <2>1, <2>2 DEF UploadTx
  <2>4. ApproveTx(t) /\ RejectTx(t) /\ WebhookTx(t)
    BY <2>1, <2>2 DEF ApproveTx, RejectTx, WebhookTx, DecisionTx
  <2>. QED
    BY <2>3, <2>4 DEF TxOf
<1>. QED
  BY <1>1, <1>2, <1>3, <1>4 DEF TxInv

LEMMA AdvanceKeeps ==
  ASSUME TxInv, NEW t \in Transactions, Advance(t)
  PROVE  [Next]_vars /\ TxInv'
<1>1. CASE Commit(t)
  BY <1>1, CommitKeeps
<1>2. ASSUME t \in Uploads, UploadSave(t) \/ UploadInsertProof(t) \/ UploadOrder(t) \/ UploadPayment(t)
      PROVE  [Next]_vars /\ TxInv'
  <2>1. CASE UploadSave(t)
    BY <1>2, <2>1, UploadMoves
  <2>2. CASE UploadInsertProof(t) \/ UploadOrder(t) \/ UploadPayment(t)
    <3>1. UNCHANGED vars
      BY <2>2 DEF UploadInsertProof, UploadOrder, UploadPayment
    <3>. QED
      BY <1>2, <2>2, <3>1, UploadStatements
  <2>. QED
    BY <1>2, <2>1, <2>2
<1>3. ASSUME t \in Calls,
             \/ ApproveSelect(t) \/ ApproveDeduct(t) \/ ApproveSettle(t)
             \/ RejectSelect(t) \/ RejectOrder(t)
             \/ DecisionPayment(t) \/ DecisionReview(t) \/ DecisionRefused(t)
             \/ WebhookEvent(t) \/ WebhookPayment(t) \/ WebhookOrder(t)
      PROVE  [Next]_vars /\ TxInv'
  <2>1. UNCHANGED vars
    BY <1>3 DEF ApproveSelect, ApproveDeduct, ApproveSettle, RejectSelect, RejectOrder, DecisionPayment,
                DecisionReview, DecisionRefused, WebhookEvent, WebhookPayment, WebhookOrder
  <2>2. TxInv'
    BY <1>3, SelectKeeps, DeductKeeps, SettleKeeps, RejectOrderKeeps, DecisionKeeps, RefusedKeeps,
       WebhookStatements
  <2>. QED
    BY <2>1, <2>2
<1>. QED
  BY <1>1, <1>2, <1>3 DEF Advance

\* Every step is a step of OrderPayments, or changes nothing it speaks of.
LEMMA TxStep == TxInv /\ [TxNext]_allVars => [Next]_vars /\ TxInv'
<1> SUFFICES ASSUME TxInv, [TxNext]_allVars
             PROVE  [Next]_vars /\ TxInv'
  OBVIOUS
<1>1. ASSUME NEW r \in Uploads, UploadStart(r)
      PROVE  [Next]_vars /\ TxInv'
  BY <1>1, UploadMoves
<1>2. ASSUME NEW c \in Calls, CallStart(c)
      PROVE  [Next]_vars /\ TxInv'
  <2>1. UNCHANGED vars
    BY <1>2 DEF CallStart
  <2>. QED
    BY <1>2, <2>1, CallStartKeeps
<1>3. ASSUME NEW t \in Transactions, Advance(t) \/ BreakDeadlock(t) \/ Rollback(t)
      PROVE  [Next]_vars /\ TxInv'
  BY <1>3, AdvanceKeeps, RollbackKeeps DEF BreakDeadlock
<1>4. CASE OneRow
  BY <1>4, OneRowInv
<1>5. CASE UNCHANGED allVars
  <2>1. UNCHANGED vars /\ UNCHANGED step /\ UNCHANGED locks /\ UNCHANGED todo /\ UNCHANGED writes
    BY <1>5 DEF allVars, txVars
  <2>2. [Next]_vars /\ UNCHANGED <<orders, proofs, stock, vendorPayouts, upload>>
    BY <2>1 DEF vars
  <2>3. IInv' /\ VendorOrdersOfVendors'
    BY <2>2, NextIInv, VendorOrdersSteady DEF TxInv
  <2>4. Shape' /\ LocksExclude'
    BY <2>1 DEF TxInv, Shape, LocksExclude, Transactions
  <2>5. ASSUME NEW u \in Transactions
        PROVE  TxOf(u)'
    BY <2>1, <2>2, QuietKeeps, Undisturbed DEF OwnKept
  <2>. QED
    BY <2>2, <2>3, <2>4, <2>5 DEF TxInv, Transactions
<1>. QED
  BY <1>1, <1>2, <1>3, <1>4, <1>5 DEF TxNext

\* Transactions may be thought of as atomic: with the row locks PostgreSQL
\* takes for these statements, and whatever is rolled back, the committed rows
\* change as OrderPayments says, for any number of uploads, calls and orders.
THEOREM TransactionsAreAtomic == TxSpec => ImplementsOrderPayments
<1>1. TxInit => Init
  BY DEF TxInit
<1>. QED
  BY <1>1, TxInitInv, TxStep, PTL DEF TxSpec, ImplementsOrderPayments, Spec

----------------------------------------------------------------------------
(* Types *)

Modes == {"update", "nokey", "keyshare"}

\* Only an approval of a placed order has products left to deduct.
Typed ==
  /\ step = [t \in Transactions |-> step[t]]
  /\ \A t \in Transactions : \A l \in locks[t] : l[2] \in Modes
  /\ \A t \in Transactions :
       \/ todo[t] = <<>>
       \/ /\ t \in Calls /\ CallOf[t].order \in Placed
          /\ todo[t] \in Seq(Contents(CallOf[t].order))

LEMMA WantedModes ==
  ASSUME NEW t
  PROVE  \A l \in Wants(t) : l[2] \in Modes
<1>1. \A table, key : Row(table, key)[2] \in Modes
  BY DEF Row, Modes
<1>2. \A o, m : m \in Modes => OrderLock(o, m)[2] \in Modes
  BY DEF OrderLock
<1>3. "update" \in Modes /\ "nokey" \in Modes /\ "keyshare" \in Modes
  BY DEF Modes
<1>. QED
  BY <1>1, <1>2, <1>3 DEF Wants, DecisionLock

LEMMA LocksChange ==
  ASSUME [TxNext]_allVars
  PROVE  \/ locks' = locks
         \/ \E t \in Transactions : locks' = [locks EXCEPT ![t] = {}]
         \/ \E t \in Transactions : locks' = [locks EXCEPT ![t] = @ \union Wants(t)]
<1>1. ASSUME NEW t \in Transactions, Advance(t)
      PROVE  \/ locks' = locks \/ locks' = [locks EXCEPT ![t] = {}]
             \/ locks' = [locks EXCEPT ![t] = @ \union Wants(t)]
  BY <1>1 DEF Advance, UploadSave, UploadInsertProof, UploadOrder, UploadPayment, ApproveSelect,
     ApproveDeduct, ApproveSettle, RejectSelect, RejectOrder, DecisionPayment, DecisionReview,
     DecisionRefused, WebhookEvent, WebhookPayment, WebhookOrder, Commit, Runs, LocksReleased
<1>2. ASSUME NEW t \in Transactions, BreakDeadlock(t) \/ Rollback(t)
      PROVE  locks' = [locks EXCEPT ![t] = {}]
  BY <1>2 DEF BreakDeadlock, Rollback, LocksReleased
<1>3. CASE \/ \E r \in Uploads : UploadStart(r)
           \/ \E c \in Calls : CallStart(c)
           \/ OneRow
           \/ UNCHANGED allVars
  BY <1>3 DEF UploadStart, CallStart, OneRow, allVars, txVars
<1>. QED
  BY <1>1, <1>2, <1>3 DEF TxNext

LEMMA StepChanges ==
  ASSUME [TxNext]_allVars
  PROVE  step' = step \/ \E t, next : step' = [step EXCEPT ![t] = next]
<1>1. ASSUME NEW t \in Transactions, Advance(t)
      PROVE  \E next : step' = [step EXCEPT ![t] = next]
  BY <1>1 DEF Advance, UploadSave, UploadInsertProof, UploadOrder, UploadPayment, ApproveSelect,
     ApproveDeduct, ApproveSettle, RejectSelect, RejectOrder, DecisionPayment, DecisionReview,
     DecisionRefused, WebhookEvent, WebhookPayment, WebhookOrder, Commit, Runs, Ends
<1>2. ASSUME NEW t \in Transactions, BreakDeadlock(t) \/ Rollback(t)
      PROVE  \E next : step' = [step EXCEPT ![t] = next]
  BY <1>2 DEF BreakDeadlock, Rollback, Ends
<1>3. CASE OneRow \/ UNCHANGED allVars
  BY <1>3 DEF OneRow, allVars, txVars
<1>4. ASSUME NEW t \in Transactions, UploadStart(t) \/ CallStart(t)
      PROVE  \E next : step' = [step EXCEPT ![t] = next]
  BY <1>4 DEF UploadStart, CallStart
<1>. QED
  BY <1>1, <1>2, <1>3, <1>4 DEF TxNext, Transactions

LEMMA TodoChanges ==
  ASSUME [TxNext]_allVars
  PROVE  \/ todo' = todo
         \/ \E t \in Transactions : todo' = [todo EXCEPT ![t] = <<>>]
         \/ \E c \in Calls : /\ IsCall(c, "approve") /\ step[c] = "decide"
                             /\ \E s \in ItemOrders(OrderIn(c)) : todo' = [todo EXCEPT ![c] = s]
         \/ \E c \in Calls : todo[c] # <<>> /\ todo' = [todo EXCEPT ![c] = Tail(@)]
<1>1. ASSUME NEW t \in Transactions, Advance(t), ~ApproveSelect(t), ~ApproveDeduct(t)
      PROVE  todo' = todo \/ todo' = [todo EXCEPT ![t] = <<>>]
  BY <1>1 DEF Advance, UploadSave, UploadInsertProof, UploadOrder, UploadPayment, ApproveSettle,
     RejectSelect, RejectOrder, DecisionPayment, DecisionReview,
     DecisionRefused, WebhookEvent, WebhookPayment, WebhookOrder, Commit, Ends
<1>2. ASSUME NEW t \in Transactions, Advance(t), ApproveSelect(t)
      PROVE  /\ t \in Calls /\ IsCall(t, "approve") /\ step[t] = "decide"
             /\ \E s \in ItemOrders(OrderIn(t)) : todo' = [todo EXCEPT ![t] = s]
  BY <1>2 DEF ApproveSelect, Runs, IsCall
<1>3. ASSUME NEW t \in Transactions, Advance(t), ApproveDeduct(t), t \in Calls
      PROVE  todo[t] # <<>> /\ todo' = [todo EXCEPT ![t] = Tail(@)]
  BY <1>3 DEF ApproveDeduct
<1>4. ASSUME NEW t \in Transactions, Advance(t), t \notin Calls
      PROVE  todo' = todo \/ todo' = [todo EXCEPT ![t] = <<>>]
  BY <1>4 DEF Advance, UploadSave, UploadInsertProof, UploadOrder, UploadPayment, Commit, Ends
<1>5. ASSUME NEW t \in Transactions, BreakDeadlock(t) \/ Rollback(t)
      PROVE  todo' = [todo EXCEPT ![t] = <<>>]
  BY <1>5 DEF BreakDeadlock, Rollback, Ends
<1>6. CASE \/ \E r \in Uploads : UploadStart(r)
           \/ \E c \in Calls : CallStart(c)
           \/ OneRow
           \/ UNCHANGED allVars
  BY <1>6 DEF UploadStart, CallStart, OneRow, allVars, txVars
<1>7. CASE \E t \in Transactions : Advance(t)
  BY <1>1, <1>2, <1>3, <1>4, <1>7
<1>. QED
  BY <1>5, <1>6, <1>7 DEF TxNext

LEMMA TypedKept ==
  ASSUME TxInv, Typed, [TxNext]_allVars
  PROVE  Typed'
<1>1. Shape /\ IInv
  BY DEF TxInv
<1>2. ASSUME NEW t \in Transactions, NEW l \in locks'[t]
      PROVE  l[2] \in Modes
  BY <1>1, <1>2, LocksChange, WantedModes DEF Typed, Shape
<1>3. \A o \in Placed : o \in Placed' /\ Contents(o)' = Contents(o)
  BY <1>1, TxStep, PlacedSteady DEF Steady, Contents
<1>4. ASSUME NEW t \in Transactions
      PROVE  \/ todo'[t] = <<>>
             \/ /\ t \in Calls /\ CallOf[t].order \in Placed'
                /\ todo'[t] \in Seq(Contents(CallOf[t].order)')
  <2> DEFINE o == CallOf[t].order
  <2>1. CASE todo'[t] = todo[t]
    BY <1>3, <2>1 DEF Typed
  <2>2. ASSUME t \in Calls, IsCall(t, "approve"), step[t] = "decide",
               NEW s \in ItemOrders(OrderIn(t)), todo'[t] = s
        PROVE  t \in Calls /\ o \in Placed' /\ todo'[t] \in Seq(Contents(o)')
    <3>1. DecisionTx(t, "approved", "success") /\ OrderIn(t) = o
      BY <2>2, CallTx
    <3>2. o \in Placed
      BY <2>2, <3>1 DEF DecisionTx
    <3>3. s \in Seq(Contents(o))
      BY <2>2, <3>1, ContentsArranged
    <3>. QED
      BY <1>3, <2>2, <3>2, <3>3
  <2>3. ASSUME todo[t] # <<>>, todo'[t] = Tail(todo[t])
        PROVE  t \in Calls /\ o \in Placed' /\ todo'[t] \in Seq(Contents(o)')
    BY <1>3, <2>3, HeadTailProperties DEF Typed
  <2>4. \/ todo'[t] = todo[t]
        \/ todo'[t] = <<>>
        \/ t \in Calls /\ todo[t] # <<>> /\ todo'[t] = Tail(todo[t])
        \/ /\ t \in Calls /\ IsCall(t, "approve") /\ step[t] = "decide"
           /\ \E s \in ItemOrders(OrderIn(t)) : todo'[t] = s
    BY <1>1, TodoChanges DEF Shape, Transactions
  <2>. QED
    BY <2>1, <2>2, <2>3, <2>4
<1>5. (step = [t \in Transactions |-> step[t]])'
  BY <1>1, StepChanges DEF Typed, Transactions
<1>. QED
  BY <1>2, <1>4, <1>5 DEF Typed, Transactions

\* Every reachable state has the types of TxTypeOK.
THEOREM TxTypeCorrect == TxSpec => []TxTypeOK
<1>1. TxInit => Typed
  BY DEF TxInit, Typed
<1>2. TxInv /\ Typed => TxTypeOK
  <2> SUFFICES ASSUME TxInv, Typed
               PROVE  TxTypeOK
    OBVIOUS
  <2>1. TypeOK /\ DOMAIN step = Transactions
    BY DEF TxInv, IInv, Shape
  <2>2. ASSUME NEW t \in Transactions
        PROVE  /\ step[t] \in Steps
               /\ todo[t] \in Seq(Contents(OrderIn(t)))
               /\ DOMAIN writes[t].orders \subseteq {OrderIn(t)}
               /\ DOMAIN writes[t].stock \subseteq Contents(OrderIn(t))
               /\ \A r \in DOMAIN writes[t].proofs : upload[r].order = OrderIn(t)
    <3>1. todo[t] \in Seq(Contents(OrderIn(t)))
      <4>1. CASE todo[t] = <<>>
        BY <4>1, EmptySeq
      <4>2. CASE todo[t] # <<>>
        BY <4>2, CallTypes DEF Typed
      <4>. QED
        BY <4>1, <4>2
    <3>2. CASE t \in Uploads
      <4>1. UploadTx(t) /\ OrderIn(t) = upload[t].order
        BY <3>2, CallTypes DEF TxInv, TxOf
      <4>. QED
        BY <3>1, <4>1 DEF UploadTx, Steps
    <3>3. CASE t \in Calls
      <4>1. OrderIn(t) = CallOf[t].order
        BY <3>3, CallTypes
      <4>2. ASSUME NEW verdict, NEW status, DecisionTx(t, verdict, status)
            PROVE  /\ DOMAIN writes[t].orders \subseteq {OrderIn(t)}
                   /\ \A r \in DOMAIN writes[t].proofs : upload[r].order = OrderIn(t)
        BY <4>1, <4>2 DEF DecisionTx, ProofsOf
      <4>3. CASE IsCall(t, "approve")
        <5>1. ApproveTx(t) /\ DecisionTx(t, "approved", "success")
          BY <3>3, <4>3, CallTx
        <5>2. step[t] \in Steps /\ DOMAIN writes[t].stock \subseteq Contents(OrderIn(t))
          BY <4>1, <5>1 DEF ApproveTx, Steps
        <5>. QED
          BY <3>1, <4>2, <5>1, <5>2
      <4>4. CASE IsCall(t, "reject")
        <5>1. RejectTx(t) /\ DecisionTx(t, "rejected", "failed")
          BY <3>3, <4>4, CallTx
        <5>2. step[t] \in Steps /\ DOMAIN writes[t].stock = {}
          BY <5>1 DEF RejectTx, Steps
        <5>. QED
          BY <3>1, <4>2, <5>1, <5>2
      <4>5. CASE IsCall(t, "webhook")
        <5>1. WebhookTx(t)
          BY <3>3, <4>5, CallTx
        <5>. QED
          BY <3>1, <4>1, <5>1 DEF WebhookTx, Steps
      <4>. QED
        BY <3>3, <4>3, <4>4, <4>5, CallTypes
    <3>. QED
      BY <3>2, <3>3 DEF Transactions
  <2>3. step \in [Transactions -> Steps]
    BY <2>2 DEF Typed
  <2>. QED
    BY <2>1, <2>2, <2>3 DEF TxTypeOK, Typed, Modes
<1>. QED
  BY <1>1, <1>2, TxInitInv, TxStep, TypedKept, PTL DEF TxSpec
=============================================================================
