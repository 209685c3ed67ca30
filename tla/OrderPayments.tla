--------------------------- MODULE OrderPayments ---------------------------
(***************************************************************************)
(* The bank-transfer order lifecycle of CheckoutService, together with the *)
(* Paystack webhook of PaymentsService, at the granularity of committed    *)
(* database transactions.                                                  *)
(*                                                                         *)
(* An unlocked SELECT is a step of its own, because the rows it returned   *)
(* may have changed when the transaction writes; the writes of one         *)
(* transaction, which hold row locks until commit, are one step.  A        *)
(* transaction that returns an error is rolled back (db.WithTx), so an     *)
(* error path that has not left the database is no step at all.            *)
(*                                                                         *)
(* Read-only handlers, wording and identifiers are left out.  Quantities   *)
(* are whole units; the money columns are the subject of Checkout.tla.     *)
(***************************************************************************)
EXTENDS Integers, FiniteSets

CONSTANTS
  Orders,        \* identifiers util.NewID() may hand to a checkout
  Products,
  Vendors,
  VendorOf,      \* products.vendor_id
  Uploads,       \* proof-upload requests, each made at most once
  Quantities,    \* quantities a cart line may ask for
  StockLevels,   \* stock a vendor may enter; UpdateProduct checks no sign
  Reported,      \* fulfilment states the vendors report in this instance
  CartBound      \* bound on the units of one product in one cart

FulfillmentStatuses ==
  {"pending", "ready_for_fulfillment", "processing", "shipped", "delivered",
   "cancelled"}

ASSUME VendorOfAssumption == VendorOf \in [Products -> Vendors]
ASSUME UploadsAssumption == IsFiniteSet(Uploads)
ASSUME QuantitiesAssumption == Quantities \subseteq Nat \ {0}
ASSUME StockLevelsAssumption == StockLevels \subseteq Int
ASSUME ReportedAssumption == Reported \subseteq FulfillmentStatuses
ASSUME CartBoundAssumption == CartBound \in Nat

VARIABLES
  phase,          \* of the checkout that creates the order: none, cart, placed
  items,          \* order_items: units of each product
  orders,         \* the four status columns of orders
  payments,       \* payments.status
  vendorOrders,   \* the two status columns of vendor_orders
  vendorPayouts,  \* vendor_payouts.status, "none" if no such row
  stock,          \* products.stock_quantity
  approvals,      \* approve_payment rows of audit_logs; an approval also
                  \* writes one inventory movement per order item
  upload,         \* the upload requests: program counter, order, and how many
                  \* approvals the order had when it was read and written
  proofs,         \* payment_proofs.review_status, "none" if no such row
  files,          \* uploads whose image is under uploads/payment_proofs
  webhookEvents,  \* webhook_events, by the order its reference belongs to
  credited        \* orders whose vendors have a vendor_ledger credit

vars == <<phase, items, orders, payments, vendorOrders, vendorPayouts, stock,
          approvals, upload, proofs, files, webhookEvents, credited>>

----------------------------------------------------------------------------

\* Mistake: the insert leaves orders.status at the payment's word for it.
NewOrderMislabelled ==
  [payment_status |-> "pending", bank_transfer_status |-> "pending",
   order_status |-> "pending_payment", status |-> "pending_payment"]

NewOrder == [payment_status |-> "pending", bank_transfer_status |-> "pending",
             order_status |-> "pending_payment", status |-> "pending"]

\* The statuses of a vendor order: where there is none, as the checkout inserts
\* it, and as an approval leaves it.
NoVendorOrder == [fulfillment_status |-> "none", payout_status |-> "none"]

NewVendorOrder == [fulfillment_status |-> "pending", payout_status |-> "unpaid"]

ReadyVendorOrder ==
  [fulfillment_status |-> "ready_for_fulfillment", payout_status |-> "queued"]

IdleUpload(o) == [pc |-> "idle", order |-> o, readAt |-> 0, wroteAt |-> 0]

Placed == {o \in Orders : phase[o] = "placed"}

Contents(o) == {p \in Products : items[o][p] > 0}

VendorsIn(o) == {VendorOf[p] : p \in Contents(o)}

ProofsOf(o, s) == {r \in Uploads : upload[r].order = o /\ proofs[r] = s}

\* pgx refuses a command on a connection that has a result set open
\* ("conn busy"); code outside the repository.
ConnAccepts(rowsOpen) == ~rowsOpen

Init ==
  /\ phase = [o \in Orders |-> "none"]
  /\ items = [o \in Orders |-> [p \in Products |-> 0]]
  /\ orders = [o \in Orders |-> NewOrder]
  /\ payments = [o \in Orders |-> "pending"]
  /\ vendorOrders = [o \in Orders |-> [v \in Vendors |-> NoVendorOrder]]
  /\ vendorPayouts = [o \in Orders |-> [v \in Vendors |-> "none"]]
  /\ stock \in [Products -> StockLevels]
  /\ approvals = [o \in Orders |-> 0]
  /\ upload \in [Uploads -> {IdleUpload(o) : o \in Orders}]
  /\ proofs = [r \in Uploads |-> "none"]
  /\ files = {}
  /\ webhookEvents = {}
  /\ credited = {}

----------------------------------------------------------------------------
(* CheckoutService.Checkout *)

\* One turn of the loop over the request's items: the stock is read, compared
\* with this line alone and left as it is.  Whether the product is on sale is
\* Checkout.tla's concern; here any product may be.
CheckoutItem(o, p, q) ==
  /\ phase[o] \in {"none", "cart"}
  /\ stock[p] >= q
  /\ items[o][p] + q <= CartBound
  /\ phase' = [phase EXCEPT ![o] = "cart"]
  /\ items' = [items EXCEPT ![o][p] = @ + q]
  /\ UNCHANGED <<orders, payments, vendorOrders, vendorPayouts, stock,
                 approvals, upload, proofs, files, webhookEvents, credited>>

\* A later line fails its checks: the transaction leaves nothing behind.
CheckoutRefused(o) ==
  /\ phase[o] = "cart"
  /\ phase' = [phase EXCEPT ![o] = "none"]
  /\ items' = [items EXCEPT ![o] = [p \in Products |-> 0]]
  /\ UNCHANGED <<orders, payments, vendorOrders, vendorPayouts, stock,
                 approvals, upload, proofs, files, webhookEvents, credited>>

\* The inserts: the order, its payment, and a vendor order and a vendor payout
\* for each vendor of the cart.
PlaceOrder(o) ==
  /\ phase[o] = "cart"
  /\ phase' = [phase EXCEPT ![o] = "placed"]
  /\ orders' = [orders EXCEPT ![o] = NewOrder]
  /\ payments' = [payments EXCEPT ![o] = "pending"]
  /\ vendorOrders' = [vendorOrders EXCEPT
       ![o] = [v \in Vendors |->
                 IF v \in VendorsIn(o) THEN NewVendorOrder ELSE NoVendorOrder]]
  /\ vendorPayouts' = [vendorPayouts EXCEPT
       ![o] = [v \in Vendors |-> IF v \in VendorsIn(o) THEN "unpaid" ELSE "none"]]
  /\ UNCHANGED <<items, stock, approvals, upload, proofs, files, webhookEvents,
                 credited>>

----------------------------------------------------------------------------
(* CheckoutService.UploadPaymentProof.  The owner's requests only: anybody   *)
(* else is turned away by the first read.                                    *)

\* The order is read without a lock.
UploadRead(r) ==
  LET o == upload[r].order IN
  /\ upload[r].pc = "idle"
  /\ o \in Placed
  /\ orders[o].payment_status # "paid"
  /\ upload' = [upload EXCEPT ![r].pc = "read", ![r].readAt = approvals[o]]
  /\ UNCHANGED <<phase, items, orders, payments, vendorOrders, vendorPayouts,
                 stock, approvals, proofs, files, webhookEvents, credited>>

UploadSaveFile(r) ==
  /\ upload[r].pc = "read"
  /\ upload' = [upload EXCEPT ![r].pc = "saved"]
  /\ files' = files \union {r}
  /\ UNCHANGED <<phase, items, orders, payments, vendorOrders, vendorPayouts,
                 stock, approvals, proofs, webhookEvents, credited>>

UnderReview(row) == [row EXCEPT !.payment_status = "proof_uploaded",
                                !.bank_transfer_status = "proof_uploaded"]

\* The proof is inserted and both status columns are set, whatever they are by
\* now.
UploadCommit(r) ==
  LET o == upload[r].order IN
  /\ upload[r].pc = "saved"
  /\ upload' = [upload EXCEPT ![r].pc = "done", ![r].wroteAt = approvals[o]]
  /\ proofs' = [proofs EXCEPT ![r] = "pending"]
  /\ orders' = [orders EXCEPT ![o] = UnderReview(@)]
  /\ payments' = [payments EXCEPT ![o] = "proof_uploaded"]
  /\ UNCHANGED <<phase, items, vendorOrders, vendorPayouts, stock, approvals,
                 files, webhookEvents, credited>>

\* The disk or the database fails, or the process dies: the rows are rolled
\* back, a file already written stays.
UploadFail(r) ==
  /\ upload[r].pc \in {"read", "saved"}
  /\ upload' = [upload EXCEPT ![r].pc = "failed"]
  /\ UNCHANGED <<phase, items, orders, payments, vendorOrders, vendorPayouts,
                 stock, approvals, proofs, files, webhookEvents, credited>>

----------------------------------------------------------------------------
(* CheckoutService, the administrator's side *)

\* Mistake: whatever is not paid may be approved.
ApprovableUnlessPaid(o) == orders[o].payment_status # "paid"

Approvable(o) == orders[o].payment_status = "proof_uploaded"

\* Mistake: the refusal of paid orders is missing.
RejectableAlways(o) == TRUE

Rejectable(o) == orders[o].payment_status # "paid"

\* Mistake: the statement deducts whatever the stock is.
StockUnchecked(o) == TRUE

\* Order lines of one product are deducted one after the other under the
\* product's row lock, which succeeds exactly when their sum is in stock.
InStock(o) == \A p \in Contents(o) : stock[p] >= items[o][p]

\* Mistake: orders.status is forgotten.
ApprovedOrderUnsettled ==
  [payment_status |-> "paid", bank_transfer_status |-> "approved",
   order_status |-> "processing", status |-> "pending"]

ApprovedOrder ==
  [payment_status |-> "paid", bank_transfer_status |-> "approved",
   order_status |-> "processing", status |-> "paid"]

\* orders.status is not written.
RejectedOrder(row) == [row EXCEPT !.payment_status = "rejected",
                                  !.bank_transfer_status = "rejected",
                                  !.order_status = "pending_payment"]

\* Mistakes: every payout of the order is queued, or none is.
QueueAny(s) == IF s = "none" THEN "none" ELSE "queued"
QueueNone(s) == s

QueuePayout(s) == IF s = "unpaid" THEN "queued" ELSE s

\* Mistake: the verdict is not entered.
Unreviewed(o, verdict) == proofs

Reviewed(o, verdict) ==
  [r \in Uploads |-> IF r \in ProofsOf(o, "pending") THEN verdict ELSE proofs[r]]

\* The guards are read under FOR UPDATE on the order.  A paid order is left
\* alone; one that is short of stock is rolled back.  The vendor orders are
\* queued for payout without a condition, the payouts only if they are unpaid.
AdminApprovePayment(o) ==
  /\ o \in Placed
  /\ Approvable(o)
  /\ InStock(o)
  /\ stock' = [p \in Products |-> stock[p] - items[o][p]]
  /\ orders' = [orders EXCEPT ![o] = ApprovedOrder]
  /\ vendorOrders' = [vendorOrders EXCEPT
       ![o] = [v \in Vendors |->
                 IF @[v] = NoVendorOrder THEN NoVendorOrder ELSE ReadyVendorOrder]]
  /\ vendorPayouts' = [vendorPayouts EXCEPT
       ![o] = [v \in Vendors |-> QueuePayout(@[v])]]
  /\ payments' = [payments EXCEPT ![o] = "success"]
  /\ proofs' = Reviewed(o, "approved")
  /\ approvals' = [approvals EXCEPT ![o] = @ + 1]
  /\ UNCHANGED <<phase, items, upload, files, webhookEvents, credited>>

AdminRejectPayment(o) ==
  /\ o \in Placed
  /\ Rejectable(o)
  /\ orders' = [orders EXCEPT ![o] = RejectedOrder(@)]
  /\ payments' = [payments EXCEPT ![o] = "failed"]
  /\ proofs' = Reviewed(o, "rejected")
  /\ UNCHANGED <<phase, items, vendorOrders, vendorPayouts, stock, approvals,
                 upload, files, webhookEvents, credited>>

\* The payout alone: payout_status of the vendor order is left as it is.  No
\* statement writes "processing" to vendor_payouts; a payout already paid is
\* left alone.
AdminMarkVendorPayoutPaid(o, v) ==
  /\ vendorPayouts[o][v] \in {"queued", "processing", "unpaid"}
  /\ vendorPayouts' = [vendorPayouts EXCEPT ![o][v] = "paid"]
  /\ UNCHANGED <<phase, items, orders, payments, vendorOrders, stock, approvals,
                 upload, proofs, files, webhookEvents, credited>>

----------------------------------------------------------------------------
(* PaymentsService.ProcessPaystackSuccess, for a reference Paystack confirms. *)
(* The item rows are still open while the loop runs its statements, and the  *)
(* loop drops their errors.                                                  *)

DeductAll(o, rowsOpen) ==
  [p \in Products |->
     IF ConnAccepts(rowsOpen) /\ stock[p] >= items[o][p]
     THEN stock[p] - items[o][p]
     ELSE stock[p]]

CreditAll(o, rowsOpen) ==
  IF ConnAccepts(rowsOpen) THEN credited \union {o} ELSE credited

WebhookPaid(row) == [row EXCEPT !.status = "paid"]

ProcessPaystackSuccess(o) ==
  /\ o \in Placed
  /\ webhookEvents' = webhookEvents \union {o}
  /\ payments' = [payments EXCEPT ![o] = "success"]
  /\ orders' = [orders EXCEPT ![o] = WebhookPaid(@)]
  /\ stock' = DeductAll(o, TRUE)
  /\ credited' = CreditAll(o, TRUE)
  /\ UNCHANGED <<phase, items, vendorOrders, vendorPayouts, approvals, upload,
                 proofs, files>>

----------------------------------------------------------------------------
(* The vendor's side *)

\* Any allowed status, whatever the order's payment or the present status.
VendorUpdateFulfillment(o, v, s) ==
  /\ vendorOrders[o][v] # NoVendorOrder
  /\ vendorOrders' = [vendorOrders EXCEPT ![o][v].fulfillment_status = s]
  /\ UNCHANGED <<phase, items, orders, payments, vendorPayouts, stock,
                 approvals, upload, proofs, files, webhookEvents, credited>>

\* VendorService.UpdateProduct overwrites the quantity.
VendorSetStock(p, n) ==
  /\ stock' = [stock EXCEPT ![p] = n]
  /\ UNCHANGED <<phase, items, orders, payments, vendorOrders, vendorPayouts,
                 approvals, upload, proofs, files, webhookEvents, credited>>

----------------------------------------------------------------------------

Checkout(o) ==
  \/ \E p \in Products, q \in Quantities : CheckoutItem(o, p, q)
  \/ CheckoutRefused(o)
  \/ PlaceOrder(o)

Upload(r) ==
  \/ UploadRead(r)
  \/ UploadSaveFile(r)
  \/ UploadCommit(r)
  \/ UploadFail(r)

Admin(o) ==
  \/ AdminApprovePayment(o)
  \/ AdminRejectPayment(o)
  \/ \E v \in Vendors : AdminMarkVendorPayoutPaid(o, v)

Vendor ==
  \/ \E o \in Orders, v \in Vendors, s \in Reported : VendorUpdateFulfillment(o, v, s)
  \/ \E p \in Products, n \in StockLevels : VendorSetStock(p, n)

Next ==
  \/ \E o \in Orders : Checkout(o)
  \/ \E r \in Uploads : Upload(r)
  \/ \E o \in Orders : Admin(o)
  \/ \E o \in Orders : ProcessPaystackSuccess(o)
  \/ Vendor

Spec == Init /\ [][Next]_vars
----------------------------------------------------------------------------
(* Correctness *)

OrderRow ==
  [payment_status : {"pending", "proof_uploaded", "rejected", "paid"},
   bank_transfer_status : {"pending", "proof_uploaded", "rejected", "approved"},
   order_status : {"pending_payment", "processing"},
   status : {"pending", "paid"}]

VendorOrderRow ==
  {NoVendorOrder} \union
    [fulfillment_status : FulfillmentStatuses, payout_status : {"unpaid", "queued"}]

UploadState ==
  [pc : {"idle", "read", "saved", "done", "failed"}, order : Orders,
   readAt : Nat, wroteAt : Nat]

PayoutStatuses == {"none", "unpaid", "queued", "processing", "paid"}

\* Every variable has its type.
TypeOK ==
  /\ phase \in [Orders -> {"none", "cart", "placed"}]
  /\ items \in [Orders -> [Products -> Nat]]
  /\ orders \in [Orders -> OrderRow]
  /\ payments \in [Orders -> {"pending", "proof_uploaded", "success", "failed"}]
  /\ vendorOrders \in [Orders -> [Vendors -> VendorOrderRow]]
  /\ vendorPayouts \in [Orders -> [Vendors -> PayoutStatuses]]
  /\ stock \in [Products -> Int]
  /\ approvals \in [Orders -> Nat]
  /\ upload \in [Uploads -> UploadState]
  /\ proofs \in [Uploads -> {"none", "pending", "approved", "rejected"}]
  /\ files \subseteq Uploads
  /\ webhookEvents \subseteq Orders
  /\ credited \subseteq Orders

\* The administrator's queue and the proofs agree: an order is under review
\* exactly while one of its proofs is, however uploads, approvals, rejections
\* and webhooks interleave.
UnderReviewIffProofPending ==
  \A o \in Orders :
    orders[o].payment_status = "proof_uploaded" <=> ProofsOf(o, "pending") # {}

\* Each approval of an order (each deduction of its goods) used up a proof of
\* its own: there are never more approvals than approved proofs.
OneApprovalPerProof ==
  \A o \in Orders : approvals[o] <= Cardinality(ProofsOf(o, "approved"))

\* Whether r read its order before an approval and wrote it afterwards.
Stale(r) == upload[r].pc = "done" /\ upload[r].readAt < upload[r].wroteAt

\* An approved order is still paid and was approved once, unless an upload that
\* had read it before an approval was committed after it: only such an upload
\* lets the order be rejected, or its goods be deducted again.
ReopenedOnlyByStaleUpload ==
  \A o \in Orders :
    \/ approvals[o] = 0
    \/ approvals[o] = 1 /\ orders[o].payment_status = "paid"
    \/ \E r \in Uploads : upload[r].order = o /\ Stale(r)

\* The two columns that tell how a vendor's payout stands.  The one vendors and
\* administrators see with the order, vendor_orders.payout_status, says "queued"
\* exactly once the order was approved; the payout's own status says the same,
\* until the payout is marked paid, before the approval or after it.  That the
\* order's column never says.
PayoutFollowsApproval ==
  \A o \in Placed, v \in Vendors :
    LET shown == vendorOrders[o][v].payout_status IN
    /\ shown = "unpaid" => approvals[o] = 0
    /\ shown = "queued" => approvals[o] > 0
    /\ vendorPayouts[o][v] \in {shown, "paid"}
    /\ vendorPayouts[o][v] = "none" <=> shown = "none"

PaymentFor(paymentStatus) ==
  IF paymentStatus = "rejected" THEN "failed"
  ELSE IF paymentStatus = "paid" THEN "success" ELSE paymentStatus

\* The four tables tell one story.  The payment row says what the order row
\* says, except that a webhook may have made it a success; orders.status is
\* "paid" for two reasons only, an approval or a webhook, and nothing takes it
\* back; order_status "processing" has the first reason only.
StatusColumnsAgree ==
  \A o \in Orders :
    /\ \/ payments[o] = PaymentFor(orders[o].payment_status)
       \/ payments[o] = "success" /\ o \in webhookEvents
    /\ orders[o].status = "paid" <=> approvals[o] > 0 \/ o \in webhookEvents
    /\ orders[o].order_status = "processing" => approvals[o] > 0

\* An order turns paid only in a step that takes its goods out of a stock that
\* covers them, and takes nothing else.
PaidTakesStock ==
  [][\A o \in Orders :
       orders[o].payment_status # "paid" /\ orders'[o].payment_status = "paid"
         => \A p \in Products : /\ stock'[p] = stock[p] - items[o][p]
                                /\ items[o][p] > 0 => stock'[p] >= 0]_vars

\* A payout marked paid stays so in vendor_payouts, where the administrators'
\* payout list and the marking itself look: no later approval, first or second,
\* makes it payable again.  vendor_orders.payout_status is another matter: an
\* approval sets it to "queued" also for a vendor who has been paid.
PaidPayoutIsFinal ==
  [][\A o \in Orders, v \in Vendors :
       vendorPayouts[o][v] = "paid" => vendorPayouts'[o][v] = "paid"]_vars

\* payments_service.go:62 says of the webhook "credit ledger per vendor and
\* deduct stock": the vendors of an order it processed have their credit.
WebhookCredits == webhookEvents \subseteq credited
=============================================================================
