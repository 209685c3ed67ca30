------------------------ MODULE OrderPaymentsProofs ------------------------
(***************************************************************************)
(* Proofs about OrderPayments, for every number of orders, products,       *)
(* vendors and uploads.                                                    *)
(***************************************************************************)
EXTENDS OrderPayments, FiniteSetTheorems, TLAPS

----------------------------------------------------------------------------
(* Type correctness *)

\* The rows of vendor_orders.
LEMMA VendorRows ==
  /\ NoVendorOrder \in VendorOrderRow /\ NoVendorOrder.payout_status = "none"
  /\ NewVendorOrder \in VendorOrderRow /\ NewVendorOrder.payout_status = "unpaid"
  /\ ReadyVendorOrder \in VendorOrderRow /\ ReadyVendorOrder.payout_status = "queued"
  /\ \A row \in VendorOrderRow :
       /\ row.payout_status \in {"none", "unpaid", "queued"}
       /\ row = NoVendorOrder <=> row.payout_status = "none"
BY DEF NoVendorOrder, NewVendorOrder, ReadyVendorOrder, VendorOrderRow, FulfillmentStatuses

\* A vendor's report on a vendor order that exists.
LEMMA Reporting ==
  ASSUME NEW row \in VendorOrderRow, row # NoVendorOrder, NEW s \in FulfillmentStatuses
  PROVE  /\ [row EXCEPT !.fulfillment_status = s] \in VendorOrderRow
         /\ [row EXCEPT !.fulfillment_status = s] # NoVendorOrder
         /\ [row EXCEPT !.fulfillment_status = s].payout_status = row.payout_status
<1>1. row \in [fulfillment_status : FulfillmentStatuses, payout_status : {"unpaid", "queued"}]
  BY DEF VendorOrderRow
<1>2. [row EXCEPT !.fulfillment_status = s]
        \in [fulfillment_status : FulfillmentStatuses, payout_status : {"unpaid", "queued"}]
  BY <1>1
<1>3. [row EXCEPT !.fulfillment_status = s].payout_status = row.payout_status
  BY <1>1
<1>. QED
  BY <1>1, <1>2, <1>3 DEF VendorOrderRow, NoVendorOrder

LEMMA InitType == Init => TypeOK
<1> SUFFICES ASSUME Init
             PROVE  TypeOK
  OBVIOUS
<1>1. orders \in [Orders -> OrderRow]
  BY DEF Init, OrderRow, NewOrder
<1>2. upload \in [Uploads -> UploadState]
  BY DEF Init, UploadState, IdleUpload
<1>3. stock \in [Products -> Int]
  BY StockLevelsAssumption DEF Init
<1>4. vendorOrders \in [Orders -> [Vendors -> VendorOrderRow]]
  BY VendorRows DEF Init
<1>. QED
  BY <1>1, <1>2, <1>3, <1>4 DEF Init, TypeOK, PayoutStatuses

\* What each writer makes of an order row.
LEMMA Rows ==
  ASSUME NEW row \in OrderRow
  PROVE  /\ UnderReview(row) \in OrderRow
         /\ UnderReview(row).payment_status = "proof_uploaded"
         /\ UnderReview(row).order_status = row.order_status
         /\ UnderReview(row).status = row.status
         /\ RejectedOrder(row) \in OrderRow
         /\ RejectedOrder(row).payment_status = "rejected"
         /\ RejectedOrder(row).order_status = "pending_payment"
         /\ RejectedOrder(row).status = row.status
         /\ WebhookPaid(row) \in OrderRow
         /\ WebhookPaid(row).payment_status = row.payment_status
         /\ WebhookPaid(row).order_status = row.order_status
         /\ WebhookPaid(row).status = "paid"
BY DEF OrderRow, UnderReview, RejectedOrder, WebhookPaid

LEMMA CheckoutType ==
  ASSUME TypeOK, NEW o \in Orders, Checkout(o)
  PROVE  TypeOK'
<1>1. ASSUME NEW p \in Products, NEW q \in Quantities, CheckoutItem(o, p, q)
      PROVE  TypeOK'
  <2>1. items' \in [Orders -> [Products -> Nat]]
    BY <1>1, QuantitiesAssumption DEF CheckoutItem, TypeOK
  <2>2. phase' \in [Orders -> {"none", "cart", "placed"}]
    BY <1>1 DEF CheckoutItem, TypeOK
  <2>. QED
    BY <1>1, <2>1, <2>2 DEF CheckoutItem, TypeOK
<1>2. CASE CheckoutRefused(o)
  BY <1>2 DEF CheckoutRefused, TypeOK
<1>3. CASE PlaceOrder(o)
  <2>1. orders' \in [Orders -> OrderRow]
    BY <1>3 DEF PlaceOrder, TypeOK, OrderRow, NewOrder
  <2>2. vendorOrders' \in [Orders -> [Vendors -> VendorOrderRow]]
    BY <1>3, VendorRows DEF PlaceOrder, TypeOK
  <2>3. vendorPayouts' \in [Orders -> [Vendors -> PayoutStatuses]]
    BY <1>3 DEF PlaceOrder, TypeOK, PayoutStatuses
  <2>. QED
    BY <1>3, <2>1, <2>2, <2>3 DEF PlaceOrder, TypeOK
<1>. QED
  BY <1>1, <1>2, <1>3 DEF Checkout

LEMMA UploadType ==
  ASSUME TypeOK, NEW r \in Uploads, Upload(r)
  PROVE  TypeOK'
<1>0. /\ upload[r] \in UploadState
      /\ upload[r].order \in Orders
      /\ approvals[upload[r].order] \in Nat
  BY DEF TypeOK, UploadState
<1>1. CASE UploadRead(r)
  BY <1>0, <1>1 DEF UploadRead, TypeOK, UploadState
<1>2. CASE UploadSaveFile(r)
  BY <1>0, <1>2 DEF UploadSaveFile, TypeOK, UploadState
<1>3. CASE UploadCommit(r)
  <2>1. upload' \in [Uploads -> UploadState]
    BY <1>0, <1>3 DEF UploadCommit, TypeOK, UploadState
  <2>2. orders' \in [Orders -> OrderRow]
    BY <1>0, <1>3, Rows DEF UploadCommit, TypeOK
  <2>3. /\ payments' \in [Orders -> {"pending", "proof_uploaded", "success", "failed"}]
        /\ proofs' \in [Uploads -> {"none", "pending", "approved", "rejected"}]
    BY <1>0, <1>3 DEF UploadCommit, TypeOK
  <2>. QED
    BY <1>0, <1>3, <2>1, <2>2, <2>3 DEF UploadCommit, TypeOK
<1>4. CASE UploadFail(r)
  BY <1>0, <1>4 DEF UploadFail, TypeOK, UploadState
<1>. QED
  BY <1>1, <1>2, <1>3, <1>4 DEF Upload

LEMMA ReviewedType ==
  ASSUME TypeOK, NEW o \in Orders, NEW s \in {"approved", "rejected"}
  PROVE  Reviewed(o, s) \in [Uploads -> {"none", "pending", "approved", "rejected"}]
BY DEF Reviewed, ProofsOf, TypeOK

LEMMA AdminType ==
  ASSUME TypeOK, NEW o \in Orders, Admin(o)
  PROVE  TypeOK'
<1>1. CASE AdminApprovePayment(o)
  <2>1. orders' \in [Orders -> OrderRow]
    BY <1>1 DEF AdminApprovePayment, ApprovedOrder, TypeOK, OrderRow
  <2>2. vendorOrders' \in [Orders -> [Vendors -> VendorOrderRow]]
    BY <1>1, VendorRows DEF AdminApprovePayment, TypeOK
  <2>3. vendorPayouts' \in [Orders -> [Vendors -> PayoutStatuses]]
    BY <1>1 DEF AdminApprovePayment, QueuePayout, TypeOK, PayoutStatuses
  <2>4. stock' \in [Products -> Int]
    BY <1>1 DEF AdminApprovePayment, TypeOK
  <2>. QED
    BY <1>1, <2>1, <2>2, <2>3, <2>4, ReviewedType DEF AdminApprovePayment, TypeOK
<1>2. CASE AdminRejectPayment(o)
  <2>1. orders' \in [Orders -> OrderRow]
    BY <1>2, Rows DEF AdminRejectPayment, TypeOK
  <2>2. payments' \in [Orders -> {"pending", "proof_uploaded", "success", "failed"}]
    BY <1>2 DEF AdminRejectPayment, TypeOK
  <2>3. proofs' \in [Uploads -> {"none", "pending", "approved", "rejected"}]
    BY <1>2, ReviewedType DEF AdminRejectPayment
  <2>. QED
    BY <1>2, <2>1, <2>2, <2>3 DEF AdminRejectPayment, TypeOK
<1>3. ASSUME NEW v \in Vendors, AdminMarkVendorPayoutPaid(o, v)
      PROVE  TypeOK'
  BY <1>3 DEF AdminMarkVendorPayoutPaid, TypeOK, PayoutStatuses
<1>. QED
  BY <1>1, <1>2, <1>3 DEF Admin

\* The webhook moves neither stock nor credit: its loop runs while the item
\* rows are open, and the connection refuses every statement.
LEMMA WebhookMovesNothing ==
  ASSUME TypeOK, NEW o \in Orders, ProcessPaystackSuccess(o)
  PROVE  stock' = stock /\ credited' = credited
<1>1. stock' = [p \in Products |-> stock[p]]
  BY DEF ProcessPaystackSuccess, DeductAll, ConnAccepts
<1>2. stock = [p \in Products |-> stock[p]]
  BY DEF TypeOK
<1>. QED
  BY <1>1, <1>2 DEF ProcessPaystackSuccess, CreditAll, ConnAccepts

LEMMA WebhookType ==
  ASSUME TypeOK, NEW o \in Orders, ProcessPaystackSuccess(o)
  PROVE  TypeOK'
<1>1. orders' \in [Orders -> OrderRow]
  BY Rows DEF ProcessPaystackSuccess, TypeOK
<1>2. stock' = stock /\ credited' = credited
  BY WebhookMovesNothing
<1>3. payments' \in [Orders -> {"pending", "proof_uploaded", "success", "failed"}]
  BY DEF ProcessPaystackSuccess, TypeOK
<1>. QED
  BY <1>1, <1>2, <1>3 DEF ProcessPaystackSuccess, TypeOK

LEMMA VendorType ==
  ASSUME TypeOK, Vendor
  PROVE  TypeOK'
<1>1. ASSUME NEW o \in Orders, NEW v \in Vendors, NEW s \in Reported,
             VendorUpdateFulfillment(o, v, s)
      PROVE  TypeOK'
  <2>1. [vendorOrders[o][v] EXCEPT !.fulfillment_status = s] \in VendorOrderRow
    BY <1>1, Reporting, ReportedAssumption DEF VendorUpdateFulfillment, TypeOK
  <2>2. vendorOrders' \in [Orders -> [Vendors -> VendorOrderRow]]
    BY <1>1, <2>1 DEF VendorUpdateFulfillment, TypeOK
  <2>. QED
    BY <1>1, <2>2 DEF VendorUpdateFulfillment, TypeOK
<1>2. ASSUME NEW p \in Products, NEW n \in StockLevels, VendorSetStock(p, n)
      PROVE  TypeOK'
  BY <1>2, StockLevelsAssumption DEF VendorSetStock, TypeOK
<1>. QED
  BY <1>1, <1>2 DEF Vendor

LEMMA NextType == TypeOK /\ [Next]_vars => TypeOK'
<1>1. TypeOK /\ UNCHANGED vars => TypeOK'
  BY DEF vars, TypeOK
<1>. QED
  BY <1>1, CheckoutType, UploadType, AdminType, WebhookType, VendorType DEF Next

\* Every reachable state has the types TypeOK gives.
THEOREM TypeCorrect == Spec => []TypeOK
<1>. QED
  BY InitType, NextType, PTL DEF Spec

----------------------------------------------------------------------------
(* The inductive invariant *)

\* Nothing is written for an order before its checkout has committed.
UnplacedUntouched ==
  \A o \in Orders \ Placed :
    /\ orders[o] = NewOrder
    /\ payments[o] = "pending"
    /\ approvals[o] = 0
    /\ o \notin webhookEvents
    /\ \A v \in Vendors : vendorPayouts[o][v] = "none"
    /\ \A r \in Uploads : upload[r].order = o => upload[r].pc = "idle"

\* A proof row is written by the commit of its upload; an upload that is under
\* way in a paid order has read the order before its last approval.
UploadsInStep ==
  \A r \in Uploads :
    /\ proofs[r] # "none" <=> upload[r].pc = "done"
    /\ upload[r].pc \in {"read", "saved"} =>
         /\ upload[r].readAt <= approvals[upload[r].order]
         /\ orders[upload[r].order].payment_status = "paid"
              => upload[r].readAt < approvals[upload[r].order]

\* PayoutFollowsApproval of one vendor of one order.
PayoutOf(o, v) ==
  /\ vendorOrders[o][v].payout_status = "unpaid" => approvals[o] = 0
  /\ vendorOrders[o][v].payout_status = "queued" => approvals[o] > 0
  /\ vendorPayouts[o][v] \in {vendorOrders[o][v].payout_status, "paid"}
  /\ vendorPayouts[o][v] = "none" <=> vendorOrders[o][v].payout_status = "none"

IInv ==
  /\ TypeOK
  /\ UnplacedUntouched
  /\ UploadsInStep
  /\ UnderReviewIffProofPending
  /\ OneApprovalPerProof
  /\ ReopenedOnlyByStaleUpload
  /\ PayoutFollowsApproval
  /\ StatusColumnsAgree

\* All of the invariant but the types, which TypeCorrect's lemmas give.
Agreement ==
  /\ UnplacedUntouched
  /\ UploadsInStep
  /\ UnderReviewIffProofPending
  /\ OneApprovalPerProof
  /\ ReopenedOnlyByStaleUpload
  /\ PayoutFollowsApproval
  /\ StatusColumnsAgree

LEMMA InitAgreement == Init => Agreement
<1> SUFFICES ASSUME Init
             PROVE  Agreement
  OBVIOUS
<1>1. \A r \in Uploads : upload[r].pc = "idle" /\ proofs[r] = "none"
  BY DEF Init, IdleUpload
<1>2. \A o \in Orders, s \in {"pending", "approved"} : ProofsOf(o, s) = {}
  BY <1>1 DEF ProofsOf
<1>3. \A o \in Orders : orders[o].payment_status = "pending"
  BY DEF Init, NewOrder
<1>4. UnplacedUntouched
  BY <1>1 DEF Init, UnplacedUntouched
<1>5. UploadsInStep
  BY <1>1 DEF UploadsInStep
<1>6. UnderReviewIffProofPending
  BY <1>2, <1>3 DEF UnderReviewIffProofPending
<1>7. OneApprovalPerProof
  BY <1>2, FS_EmptySet DEF Init, OneApprovalPerProof
<1>8. ReopenedOnlyByStaleUpload
  BY DEF Init, ReopenedOnlyByStaleUpload
<1>9. PayoutFollowsApproval
  BY DEF Init, PayoutFollowsApproval, Placed
<1>10. StatusColumnsAgree
  BY DEF Init, StatusColumnsAgree, NewOrder, PaymentFor
<1>. QED
  BY <1>4, <1>5, <1>6, <1>7, <1>8, <1>9, <1>10 DEF Agreement

\* A step that writes none of the tables the invariant relates keeps it.
LEMMA QuietAgreement ==
  ASSUME Agreement, Placed' = Placed,
         UNCHANGED <<orders, payments, approvals, upload, proofs, webhookEvents>>,
         \A o \in Orders, v \in Vendors :
           \/ vendorPayouts'[o][v] = vendorPayouts[o][v]
           \/ /\ o \in Placed
              /\ vendorPayouts[o][v] # "none"
              /\ vendorPayouts'[o][v] = "paid",
         \A o \in Orders, v \in Vendors :
           vendorOrders'[o][v].payout_status = vendorOrders[o][v].payout_status
  PROVE  Agreement'
<1>1. UnplacedUntouched' /\ UploadsInStep' /\ StatusColumnsAgree'
  BY DEF Agreement, UnplacedUntouched, UploadsInStep, StatusColumnsAgree
<1>2. UnderReviewIffProofPending' /\ OneApprovalPerProof'
  BY DEF Agreement, UnderReviewIffProofPending, OneApprovalPerProof, ProofsOf
<1>3. ReopenedOnlyByStaleUpload'
  BY DEF Agreement, ReopenedOnlyByStaleUpload, Stale
<1>4. PayoutFollowsApproval'
  <2>1. Placed \subseteq Orders
    BY DEF Placed
  <2>2. ASSUME NEW o \in Placed, NEW v \in Vendors
        PROVE  PayoutOf(o, v)'
    <3>1. PayoutOf(o, v)
      BY DEF Agreement, PayoutFollowsApproval, PayoutOf
    <3>. QED
      BY <2>1, <3>1 DEF PayoutOf
  <2>. QED
    BY <2>2 DEF PayoutFollowsApproval, PayoutOf
<1>. QED
  BY <1>1, <1>2, <1>3, <1>4 DEF Agreement

LEMMA PlaceOrderAgreement ==
  ASSUME IInv, NEW o \in Orders, PlaceOrder(o)
  PROVE  Agreement'
<1>1. /\ o \notin Placed
      /\ Placed' = Placed \union {o}
  BY DEF IInv, TypeOK, PlaceOrder, Placed
<1>2. /\ orders[o] = NewOrder
      /\ payments[o] = "pending"
      /\ approvals[o] = 0
      /\ o \notin webhookEvents
      /\ \A r \in Uploads : upload[r].order = o => upload[r].pc = "idle"
  BY <1>1 DEF IInv, UnplacedUntouched
<1>3. orders' = orders /\ payments' = payments
  BY <1>2 DEF IInv, TypeOK, PlaceOrder
<1>4. UNCHANGED <<approvals, upload, proofs, webhookEvents>>
  BY DEF PlaceOrder
<1>5. UnplacedUntouched'
  <2>1. \A x \in Orders \ {o} : vendorPayouts'[x] = vendorPayouts[x]
    BY DEF IInv, TypeOK, PlaceOrder
  <2>. QED
    BY <1>1, <1>3, <1>4, <2>1 DEF IInv, UnplacedUntouched
<1>6. UploadsInStep' /\ StatusColumnsAgree'
  BY <1>3, <1>4 DEF IInv, UploadsInStep, StatusColumnsAgree
<1>7. UnderReviewIffProofPending' /\ OneApprovalPerProof'
  BY <1>3, <1>4 DEF IInv, UnderReviewIffProofPending, OneApprovalPerProof, ProofsOf
<1>8. ReopenedOnlyByStaleUpload'
  BY <1>3, <1>4 DEF IInv, ReopenedOnlyByStaleUpload, Stale
<1>9. PayoutFollowsApproval'
  <2>1. \A v \in Vendors :
          /\ vendorOrders'[o][v].payout_status \in {"unpaid", "none"}
          /\ vendorPayouts'[o][v] = vendorOrders'[o][v].payout_status
    BY VendorRows DEF IInv, TypeOK, PlaceOrder
  <2>2. \A x \in Orders \ {o} :
          vendorPayouts'[x] = vendorPayouts[x] /\ vendorOrders'[x] = vendorOrders[x]
    BY DEF IInv, TypeOK, PlaceOrder
  <2>3. Placed \subseteq Orders
    BY DEF Placed
  <2>4. \A v \in Vendors : PayoutOf(o, v)'
    BY <1>2, <1>4, <2>1 DEF PayoutOf
  <2>5. \A x \in Placed, v \in Vendors : PayoutOf(x, v)'
    BY <1>1, <1>4, <2>2, <2>3 DEF IInv, PayoutFollowsApproval, PayoutOf
  <2>. QED
    BY <1>1, <2>4, <2>5 DEF PayoutFollowsApproval, PayoutOf
<1>. QED
  BY <1>5, <1>6, <1>7, <1>8, <1>9 DEF Agreement

LEMMA CheckoutAgreement ==
  ASSUME IInv, NEW o \in Orders, Checkout(o)
  PROVE  Agreement'
<1>1. ASSUME NEW p \in Products, NEW q \in Quantities, CheckoutItem(o, p, q)
      PROVE  Agreement'
  BY <1>1, QuietAgreement DEF CheckoutItem, IInv, Agreement, TypeOK, Placed
<1>2. CASE CheckoutRefused(o)
  BY <1>2, QuietAgreement DEF CheckoutRefused, IInv, Agreement, TypeOK, Placed
<1>3. CASE PlaceOrder(o)
  BY <1>3, PlaceOrderAgreement
<1>. QED
  BY <1>1, <1>2, <1>3 DEF Checkout

\* The steps of an upload before its commit, and its failure.
LEMMA UploadAgreement ==
  ASSUME IInv, NEW r \in Uploads, Upload(r), ~UploadCommit(r)
  PROVE  Agreement'
<1> DEFINE o == upload[r].order
<1>1. /\ upload[r] \in UploadState
      /\ o \in Orders
      /\ approvals[o] \in Nat
  BY DEF IInv, TypeOK, UploadState
<1>2. /\ upload[r].pc \in {"idle", "read", "saved"}
      /\ upload'[r].pc \in {"read", "saved", "failed"}
      /\ upload'[r].order = o
      /\ \A x \in Uploads \ {r} : upload'[x] = upload[x]
      /\ o \in Placed
      /\ UNCHANGED <<phase, orders, payments, approvals, proofs, webhookEvents, vendorPayouts,
                     vendorOrders>>
  BY <1>1 DEF Upload, UploadRead, UploadSaveFile, UploadCommit, UploadFail, IInv,
              TypeOK, UploadState, UnplacedUntouched
<1>3. \A x \in Uploads : upload'[x].order = upload[x].order
  BY <1>2
<1>4. \A x \in Uploads : Stale(x) <=> Stale(x)'
  BY <1>2 DEF Stale
<1>5. UnplacedUntouched'
  BY <1>2 DEF IInv, UnplacedUntouched, Placed
<1>6. UploadsInStep'
  <2>1. upload'[r].pc \in {"read", "saved"} =>
          /\ upload'[r].readAt <= approvals[o]
          /\ orders[o].payment_status = "paid" => upload'[r].readAt < approvals[o]
    BY <1>1 DEF Upload, UploadRead, UploadSaveFile, UploadCommit, UploadFail, IInv,
                TypeOK, UploadState, UploadsInStep
  <2>2. proofs[r] = "none"
    BY <1>2 DEF IInv, UploadsInStep
  <2>. QED
    BY <1>2, <2>1, <2>2 DEF IInv, UploadsInStep
<1>7. \A x \in Orders, s \in {"pending", "approved"} : ProofsOf(x, s)' = ProofsOf(x, s)
  BY <1>2, <1>3 DEF ProofsOf
<1>8. UnderReviewIffProofPending' /\ OneApprovalPerProof'
  BY <1>2, <1>7 DEF IInv, UnderReviewIffProofPending, OneApprovalPerProof
<1>9. ReopenedOnlyByStaleUpload'
  BY <1>2, <1>3, <1>4 DEF IInv, ReopenedOnlyByStaleUpload
<1>10. PayoutFollowsApproval' /\ StatusColumnsAgree'
  BY <1>2 DEF IInv, PayoutFollowsApproval, StatusColumnsAgree, Placed
<1>. QED
  BY <1>5, <1>6, <1>8, <1>9, <1>10 DEF Agreement

LEMMA UploadCommitAgreement ==
  ASSUME IInv, NEW r \in Uploads, UploadCommit(r),
         NEW o \in Orders, o = upload[r].order
  PROVE  Agreement'
<1>1. /\ upload[r] \in UploadState
      /\ o \in Orders
      /\ approvals[o] \in Nat
      /\ orders[o] \in OrderRow
      /\ IsFiniteSet(Uploads)
  BY UploadsAssumption DEF IInv, TypeOK, UploadState
<1>2. /\ upload[r].pc = "saved" /\ proofs[r] = "none"
      /\ o \in Placed
  BY <1>1 DEF UploadCommit, IInv, UploadsInStep, UnplacedUntouched
<1>3. /\ upload'[r].pc = "done"
      /\ upload'[r].order = o
      /\ upload'[r].readAt = upload[r].readAt
      /\ upload'[r].wroteAt = approvals[o]
      /\ \A x \in Uploads \ {r} : upload'[x] = upload[x]
  BY <1>1 DEF UploadCommit, IInv, TypeOK, UploadState
<1>4. /\ proofs'[r] = "pending"
      /\ \A x \in Uploads \ {r} : proofs'[x] = proofs[x]
  BY DEF UploadCommit, IInv, TypeOK
<1>5. /\ orders'[o] = UnderReview(orders[o])
      /\ payments'[o] = "proof_uploaded"
      /\ \A x \in Orders \ {o} : orders'[x] = orders[x] /\ payments'[x] = payments[x]
  BY <1>1 DEF UploadCommit, IInv, TypeOK
<1>6. /\ orders'[o].payment_status = "proof_uploaded"
      /\ orders'[o].order_status = orders[o].order_status
      /\ orders'[o].status = orders[o].status
  BY <1>1, <1>5, Rows
<1>7. UNCHANGED <<phase, approvals, webhookEvents, vendorOrders, vendorPayouts>>
  BY DEF UploadCommit
<1>8. UnplacedUntouched'
  BY <1>2, <1>3, <1>5, <1>7 DEF IInv, UnplacedUntouched, Placed
<1>9. UploadsInStep'
  <2> SUFFICES ASSUME NEW x \in Uploads
               PROVE  /\ proofs'[x] # "none" <=> upload'[x].pc = "done"
                      /\ upload'[x].pc \in {"read", "saved"} =>
                           /\ upload'[x].readAt <= approvals[upload'[x].order]
                           /\ orders'[upload'[x].order].payment_status = "paid"
                                => upload'[x].readAt < approvals[upload'[x].order]
    BY <1>7 DEF UploadsInStep
  <2>1. CASE x = r
    BY <1>3, <1>4, <2>1
  <2>2. CASE x # r
    <3>1. upload'[x] = upload[x] /\ proofs'[x] = proofs[x]
      BY <1>3, <1>4, <2>2
    <3>2. upload[x].order \in Orders
      BY DEF IInv, TypeOK, UploadState
    <3>3. orders'[upload[x].order].payment_status = "paid"
            => orders[upload[x].order].payment_status = "paid"
      BY <1>5, <1>6, <3>2
    <3>. QED
      BY <3>1, <3>3 DEF IInv, UploadsInStep
  <2>. QED
    BY <2>1, <2>2
<1>10. /\ ProofsOf(o, "pending")' = ProofsOf(o, "pending") \union {r}
       /\ \A x \in Orders \ {o} : ProofsOf(x, "pending")' = ProofsOf(x, "pending")
       /\ \A x \in Orders : ProofsOf(x, "approved")' = ProofsOf(x, "approved")
  BY <1>2, <1>3, <1>4 DEF ProofsOf
<1>11. UnderReviewIffProofPending'
  <2>1. ProofsOf(o, "pending")' # {}
    BY <1>10
  <2>2. \A x \in Orders \ {o} : orders'[x].payment_status = orders[x].payment_status
    BY <1>5
  <2>3. \A x \in Orders \ {o} :
          orders'[x].payment_status = "proof_uploaded"
            <=> ProofsOf(x, "pending")' # {}
    BY <1>10, <2>2 DEF IInv, UnderReviewIffProofPending
  <2>. QED
    BY <1>6, <2>1, <2>3 DEF UnderReviewIffProofPending
<1>12. OneApprovalPerProof'
  BY <1>7, <1>10 DEF IInv, OneApprovalPerProof
<1>13. ReopenedOnlyByStaleUpload'
  <2>1. \A x \in Uploads : Stale(x) => Stale(x)'
    BY <1>2, <1>3 DEF Stale
  <2>2. \A x \in Uploads : upload'[x].order = upload[x].order
    BY <1>3
  <2>3. \A x \in Orders \ {o} :
          \/ approvals'[x] = 0
          \/ approvals'[x] = 1 /\ orders'[x].payment_status = "paid"
          \/ \E y \in Uploads : upload'[y].order = x /\ Stale(y)'
    BY <1>5, <1>7, <2>1, <2>2 DEF IInv, ReopenedOnlyByStaleUpload
  <2>4. CASE orders[o].payment_status = "paid"
    <3>1. upload[r].readAt < approvals[o]
      BY <1>2, <2>4 DEF IInv, UploadsInStep
    <3>2. Stale(r)'
      BY <1>3, <3>1 DEF Stale
    <3>. QED
      BY <1>3, <2>3, <3>2 DEF ReopenedOnlyByStaleUpload
  <2>5. CASE orders[o].payment_status # "paid"
    BY <1>1, <1>7, <2>1, <2>2, <2>3, <2>5 DEF IInv, ReopenedOnlyByStaleUpload
  <2>. QED
    BY <2>4, <2>5
<1>14. PayoutFollowsApproval'
  BY <1>7 DEF IInv, PayoutFollowsApproval, Placed
<1>15. StatusColumnsAgree'
  <2>1. PaymentFor("proof_uploaded") = "proof_uploaded"
    BY DEF PaymentFor
  <2>. QED
    BY <1>5, <1>6, <1>7, <2>1 DEF IInv, StatusColumnsAgree
<1>. QED
  BY <1>8, <1>9, <1>11, <1>12, <1>13, <1>14, <1>15 DEF Agreement

\* What a verdict on an order does to the proofs: those of the order that are
\* pending take it, the others stay.
LEMMA ReviewedProofs ==
  ASSUME IInv, NEW o \in Orders, NEW s \in {"approved", "rejected"},
         proofs' = Reviewed(o, s), UNCHANGED upload
  PROVE  /\ ProofsOf(o, "pending")' = {}
         /\ ProofsOf(o, s)' = ProofsOf(o, s) \union ProofsOf(o, "pending")
         /\ \A t \in {"approved", "rejected"} \ {s} :
              ProofsOf(o, t)' = ProofsOf(o, t)
         /\ \A x \in Orders \ {o}, t \in {"pending", "approved"} :
              ProofsOf(x, t)' = ProofsOf(x, t)
         /\ \A r \in Uploads : proofs'[r] # "none" <=> proofs[r] # "none"
BY DEF Reviewed, ProofsOf, IInv, TypeOK

LEMMA ApproveAgreement ==
  ASSUME IInv, NEW o \in Orders, AdminApprovePayment(o)
  PROVE  Agreement'
<1>1. o \in Placed /\ orders[o].payment_status = "proof_uploaded"
  BY DEF AdminApprovePayment, Approvable
<1>2. /\ orders'[o] = ApprovedOrder
      /\ payments'[o] = "success"
      /\ approvals[o] \in Nat
      /\ approvals'[o] = approvals[o] + 1
      /\ \A x \in Orders \ {o} : /\ orders'[x] = orders[x]
                                 /\ payments'[x] = payments[x]
                                 /\ approvals'[x] = approvals[x]
                                 /\ vendorPayouts'[x] = vendorPayouts[x]
                                 /\ vendorOrders'[x] = vendorOrders[x]
  BY DEF AdminApprovePayment, IInv, TypeOK
<1>3. /\ orders'[o].payment_status = "paid"
      /\ orders'[o].order_status = "processing"
      /\ orders'[o].status = "paid"
  BY <1>2 DEF ApprovedOrder
<1>4. /\ UNCHANGED <<phase, upload, webhookEvents>>
      /\ proofs' = Reviewed(o, "approved")
  BY DEF AdminApprovePayment
<1>5. \A v \in Vendors :
        /\ vendorOrders'[o][v].payout_status # "unpaid"
        /\ vendorPayouts'[o][v] \in {vendorOrders'[o][v].payout_status, "paid"}
        /\ vendorPayouts'[o][v] = "none" <=> vendorOrders'[o][v].payout_status = "none"
  <2> SUFFICES ASSUME NEW v \in Vendors
               PROVE  /\ vendorOrders'[o][v].payout_status # "unpaid"
                      /\ vendorPayouts'[o][v] \in {vendorOrders'[o][v].payout_status, "paid"}
                      /\ vendorPayouts'[o][v] = "none"
                           <=> vendorOrders'[o][v].payout_status = "none"
    OBVIOUS
  <2>1. /\ vendorPayouts'[o][v] = QueuePayout(vendorPayouts[o][v])
        /\ vendorOrders'[o][v] = IF vendorOrders[o][v] = NoVendorOrder
                                 THEN NoVendorOrder ELSE ReadyVendorOrder
    BY DEF AdminApprovePayment, IInv, TypeOK
  <2>2. PayoutOf(o, v)
    BY <1>1 DEF IInv, PayoutFollowsApproval, PayoutOf
  <2>3. /\ vendorOrders[o][v].payout_status \in {"none", "unpaid", "queued"}
        /\ vendorOrders[o][v] = NoVendorOrder <=> vendorOrders[o][v].payout_status = "none"
    <3>1. vendorOrders[o][v] \in VendorOrderRow
      BY DEF IInv, TypeOK
    <3>. QED
      BY <3>1, VendorRows
  <2>. QED
    BY <2>1, <2>2, <2>3, VendorRows DEF PayoutOf, QueuePayout
<1>6. /\ ProofsOf(o, "pending")' = {}
      /\ ProofsOf(o, "approved")' = ProofsOf(o, "approved") \union ProofsOf(o, "pending")
      /\ \A x \in Orders \ {o}, t \in {"pending", "approved"} :
           ProofsOf(x, t)' = ProofsOf(x, t)
      /\ \A r \in Uploads : proofs'[r] # "none" <=> proofs[r] # "none"
  BY <1>4, ReviewedProofs
<1>7. UnplacedUntouched'
  BY <1>1, <1>2, <1>4 DEF IInv, UnplacedUntouched, Placed
<1>8. UploadsInStep'
  <2> SUFFICES ASSUME NEW x \in Uploads, upload[x].pc \in {"read", "saved"}
               PROVE  /\ upload[x].readAt <= approvals'[upload[x].order]
                      /\ orders'[upload[x].order].payment_status = "paid"
                           => upload[x].readAt < approvals'[upload[x].order]
    BY <1>4, <1>6 DEF UploadsInStep, IInv
  <2>1. /\ upload[x].order \in Orders
        /\ upload[x].readAt \in Nat
        /\ upload[x].readAt <= approvals[upload[x].order]
        /\ orders[upload[x].order].payment_status = "paid"
             => upload[x].readAt < approvals[upload[x].order]
    BY DEF IInv, TypeOK, UploadState, UploadsInStep
  <2>2. CASE upload[x].order = o
    BY <1>2, <2>1, <2>2
  <2>3. CASE upload[x].order # o
    BY <1>2, <2>1, <2>3
  <2>. QED
    BY <2>2, <2>3
<1>9. UnderReviewIffProofPending'
  <2>1. \A x \in Orders \ {o} :
          orders'[x].payment_status = "proof_uploaded"
            <=> ProofsOf(x, "pending")' # {}
    BY <1>2, <1>6 DEF IInv, UnderReviewIffProofPending
  <2>. QED
    BY <1>3, <1>6, <2>1 DEF UnderReviewIffProofPending
<1>10. OneApprovalPerProof'
  <2>1. /\ IsFiniteSet(ProofsOf(o, "approved"))
        /\ IsFiniteSet(ProofsOf(o, "pending"))
    BY UploadsAssumption, FS_Subset DEF ProofsOf
  <2>2. PICK r \in Uploads : r \in ProofsOf(o, "pending")
    BY <1>1 DEF IInv, UnderReviewIffProofPending, ProofsOf
  <2>3. r \notin ProofsOf(o, "approved")
    BY <2>2 DEF ProofsOf
  <2>4. ProofsOf(o, "approved") \union {r} \subseteq ProofsOf(o, "approved")'
    BY <1>6, <2>2
  <2>10. IsFiniteSet(ProofsOf(o, "approved")')
    BY <1>6, <2>1, FS_Union
  <2>5. Cardinality(ProofsOf(o, "approved") \union {r})
          = Cardinality(ProofsOf(o, "approved")) + 1
    BY <2>1, <2>3, FS_AddElement
  <2>6. Cardinality(ProofsOf(o, "approved") \union {r})
          <= Cardinality(ProofsOf(o, "approved")')
    BY <2>4, <2>10, FS_Subset
  <2>7. /\ Cardinality(ProofsOf(o, "approved")) \in Nat
        /\ Cardinality(ProofsOf(o, "approved")') \in Nat
        /\ approvals[o] <= Cardinality(ProofsOf(o, "approved"))
    BY <2>1, <2>10, FS_CardinalityType DEF IInv, OneApprovalPerProof
  <2>8. approvals'[o] <= Cardinality(ProofsOf(o, "approved")')
    BY <1>2, <2>5, <2>6, <2>7
  <2>9. \A x \in Orders \ {o} : approvals'[x] <= Cardinality(ProofsOf(x, "approved")')
    BY <1>2, <1>6 DEF IInv, OneApprovalPerProof
  <2>. QED
    BY <2>8, <2>9 DEF OneApprovalPerProof
<1>11. ReopenedOnlyByStaleUpload'
  <2>1. \A x \in Uploads : Stale(x)' = Stale(x)
    BY <1>4 DEF Stale
  <2>2. \/ approvals'[o] = 1
        \/ \E r \in Uploads : upload[r].order = o /\ Stale(r)
    BY <1>1, <1>2 DEF IInv, ReopenedOnlyByStaleUpload
  <2>3. \A x \in Orders \ {o} :
          \/ approvals'[x] = 0
          \/ approvals'[x] = 1 /\ orders'[x].payment_status = "paid"
          \/ \E y \in Uploads : upload[y].order = x /\ Stale(y)
    BY <1>2 DEF IInv, ReopenedOnlyByStaleUpload
  <2>. QED
    BY <1>3, <1>4, <2>1, <2>2, <2>3 DEF ReopenedOnlyByStaleUpload
<1>12. PayoutFollowsApproval'
  <2>1. Placed' = Placed /\ Placed \subseteq Orders
    BY <1>4 DEF Placed
  <2>2. approvals'[o] > 0
    BY <1>2
  <2>3. \A v \in Vendors : PayoutOf(o, v)'
    BY <1>5, <2>2 DEF PayoutOf
  <2>4. \A x \in Placed \ {o}, v \in Vendors : PayoutOf(x, v)'
    BY <1>2, <2>1 DEF IInv, PayoutFollowsApproval, PayoutOf
  <2>. QED
    BY <2>1, <2>3, <2>4 DEF PayoutFollowsApproval, PayoutOf
<1>13. StatusColumnsAgree'
  <2>1. PaymentFor("paid") = "success"
    BY DEF PaymentFor
  <2>2. approvals'[o] > 0
    BY <1>2
  <2>. QED
    BY <1>2, <1>3, <1>4, <2>1, <2>2 DEF IInv, StatusColumnsAgree
<1>. QED
  BY <1>7, <1>8, <1>9, <1>10, <1>11, <1>12, <1>13 DEF Agreement

LEMMA RejectAgreement ==
  ASSUME IInv, NEW o \in Orders, AdminRejectPayment(o)
  PROVE  Agreement'
<1>1. /\ o \in Placed
      /\ orders[o].payment_status # "paid"
      /\ orders[o] \in OrderRow
  BY DEF AdminRejectPayment, Rejectable, IInv, TypeOK
<1>2. /\ orders'[o] = RejectedOrder(orders[o])
      /\ payments'[o] = "failed"
      /\ \A x \in Orders \ {o} : orders'[x] = orders[x] /\ payments'[x] = payments[x]
  BY DEF AdminRejectPayment, IInv, TypeOK
<1>3. /\ orders'[o].payment_status = "rejected"
      /\ orders'[o].order_status = "pending_payment"
      /\ orders'[o].status = orders[o].status
  BY <1>1, <1>2, Rows
<1>4. /\ UNCHANGED <<phase, upload, approvals, vendorOrders, vendorPayouts, webhookEvents>>
      /\ proofs' = Reviewed(o, "rejected")
  BY DEF AdminRejectPayment
<1>5. /\ ProofsOf(o, "pending")' = {}
      /\ ProofsOf(o, "approved")' = ProofsOf(o, "approved")
      /\ \A x \in Orders \ {o}, t \in {"pending", "approved"} :
           ProofsOf(x, t)' = ProofsOf(x, t)
      /\ \A r \in Uploads : proofs'[r] # "none" <=> proofs[r] # "none"
  BY <1>4, ReviewedProofs
<1>6. UnplacedUntouched'
  BY <1>1, <1>2, <1>4 DEF IInv, UnplacedUntouched, Placed
<1>7. UploadsInStep'
  BY <1>2, <1>3, <1>4, <1>5 DEF IInv, TypeOK, UploadState, UploadsInStep
<1>8. UnderReviewIffProofPending'
  <2>1. \A x \in Orders \ {o} :
          orders'[x].payment_status = "proof_uploaded"
            <=> ProofsOf(x, "pending")' # {}
    BY <1>2, <1>5 DEF IInv, UnderReviewIffProofPending
  <2>. QED
    BY <1>3, <1>5, <2>1 DEF UnderReviewIffProofPending
<1>9. OneApprovalPerProof'
  BY <1>4, <1>5 DEF IInv, OneApprovalPerProof
<1>10. ReopenedOnlyByStaleUpload'
  <2>1. \A x \in Uploads : Stale(x)' = Stale(x)
    BY <1>4 DEF Stale
  <2>2. \A x \in Orders :
          orders[x].payment_status = "paid" => orders'[x].payment_status = "paid"
    BY <1>1, <1>2
  <2>. QED
    BY <1>4, <2>1, <2>2 DEF IInv, ReopenedOnlyByStaleUpload
<1>11. PayoutFollowsApproval'
  BY <1>4 DEF IInv, PayoutFollowsApproval, Placed
<1>12. StatusColumnsAgree'
  <2>1. PaymentFor("rejected") = "failed"
    BY DEF PaymentFor
  <2>. QED
    BY <1>2, <1>3, <1>4, <2>1 DEF IInv, StatusColumnsAgree
<1>. QED
  BY <1>6, <1>7, <1>8, <1>9, <1>10, <1>11, <1>12 DEF Agreement

LEMMA WebhookAgreement ==
  ASSUME IInv, NEW o \in Orders, ProcessPaystackSuccess(o)
  PROVE  Agreement'
<1>1. /\ o \in Placed
      /\ orders[o] \in OrderRow
      /\ o \in webhookEvents'
      /\ \A x \in Orders \ {o} : x \in webhookEvents' <=> x \in webhookEvents
  BY DEF ProcessPaystackSuccess, IInv, TypeOK
<1>2. /\ orders'[o] = WebhookPaid(orders[o])
      /\ payments'[o] = "success"
      /\ \A x \in Orders \ {o} : orders'[x] = orders[x] /\ payments'[x] = payments[x]
  BY DEF ProcessPaystackSuccess, IInv, TypeOK
<1>3. /\ orders'[o].payment_status = orders[o].payment_status
      /\ orders'[o].order_status = orders[o].order_status
      /\ orders'[o].status = "paid"
  BY <1>1, <1>2, Rows
<1>4. UNCHANGED <<phase, upload, approvals, vendorOrders, vendorPayouts, proofs>>
  BY DEF ProcessPaystackSuccess
<1>5. \A x \in Orders : orders'[x].payment_status = orders[x].payment_status
  BY <1>2, <1>3
<1>6. UnplacedUntouched'
  BY <1>1, <1>2, <1>4 DEF IInv, UnplacedUntouched, Placed
<1>7. UploadsInStep'
  BY <1>4, <1>5 DEF IInv, TypeOK, UploadState, UploadsInStep
<1>8. UnderReviewIffProofPending' /\ OneApprovalPerProof'
  BY <1>4, <1>5 DEF IInv, UnderReviewIffProofPending, OneApprovalPerProof, ProofsOf
<1>9. ReopenedOnlyByStaleUpload'
  BY <1>4, <1>5 DEF IInv, ReopenedOnlyByStaleUpload, Stale
<1>10. PayoutFollowsApproval'
  BY <1>4 DEF IInv, PayoutFollowsApproval, Placed
<1>11. StatusColumnsAgree'
  BY <1>1, <1>2, <1>3, <1>4 DEF IInv, StatusColumnsAgree
<1>. QED
  BY <1>6, <1>7, <1>8, <1>9, <1>10, <1>11 DEF Agreement

LEMMA AdminAgreement ==
  ASSUME IInv, NEW o \in Orders, Admin(o)
  PROVE  Agreement'
<1>1. ASSUME NEW v \in Vendors, AdminMarkVendorPayoutPaid(o, v)
      PROVE  Agreement'
  <2>1. o \in Placed
    BY <1>1 DEF AdminMarkVendorPayoutPaid, IInv, UnplacedUntouched
  <2>2. \A x \in Orders, w \in Vendors :
          \/ vendorPayouts'[x][w] = vendorPayouts[x][w]
          \/ /\ x = o
             /\ vendorPayouts[x][w] # "none"
             /\ vendorPayouts'[x][w] = "paid"
    BY <1>1 DEF AdminMarkVendorPayoutPaid, IInv, TypeOK
  <2>3. Placed' = Placed
    BY <1>1 DEF AdminMarkVendorPayoutPaid, Placed
  <2>. QED
    BY <1>1, <2>1, <2>2, <2>3, QuietAgreement
       DEF AdminMarkVendorPayoutPaid, IInv, Agreement
<1>. QED
  BY <1>1, ApproveAgreement, RejectAgreement DEF Admin

LEMMA VendorAgreement ==
  ASSUME IInv, Vendor
  PROVE  Agreement'
<1>1. UNCHANGED <<phase, orders, payments, approvals, upload, proofs, webhookEvents,
                  vendorPayouts>>
  BY DEF Vendor, VendorUpdateFulfillment, VendorSetStock
<1>2. \A o \in Orders, v \in Vendors :
        vendorOrders'[o][v].payout_status = vendorOrders[o][v].payout_status
  <2>1. ASSUME NEW o \in Orders, NEW v \in Vendors, NEW s \in Reported,
               VendorUpdateFulfillment(o, v, s)
        PROVE  \A x \in Orders, w \in Vendors :
                 vendorOrders'[x][w].payout_status = vendorOrders[x][w].payout_status
    BY <2>1, Reporting, ReportedAssumption DEF VendorUpdateFulfillment, IInv, TypeOK
  <2>. QED
    BY <2>1 DEF Vendor, VendorSetStock
<1>. QED
  BY <1>1, <1>2, QuietAgreement DEF IInv, Agreement, Placed

LEMMA NextIInv == IInv /\ [Next]_vars => IInv'
<1> SUFFICES ASSUME IInv, [Next]_vars
             PROVE  IInv'
  OBVIOUS
<1>1. TypeOK'
  BY NextType DEF IInv
<1>2. Agreement'
  <2>1. ASSUME NEW r \in Uploads, Upload(r)
        PROVE  Agreement'
    <3>1. upload[r].order \in Orders
      BY DEF IInv, TypeOK, UploadState
    <3>. QED
      BY <2>1, <3>1, UploadAgreement, UploadCommitAgreement
  <2>2. CASE UNCHANGED vars
    BY <2>2, QuietAgreement DEF vars, IInv, Agreement, Placed
  <2>. QED
    BY <2>1, <2>2, CheckoutAgreement, AdminAgreement, WebhookAgreement,
       VendorAgreement DEF Next
<1>. QED
  BY <1>1, <1>2 DEF IInv, Agreement

LEMMA Invariance == Spec => []IInv
<1>1. Init => IInv
  BY InitType, InitAgreement DEF IInv, Agreement
<1>. QED
  BY <1>1, NextIInv, PTL DEF Spec

----------------------------------------------------------------------------
(* Theorems *)

\* The review queue and the proofs agree, for any number of uploads in flight.
THEOREM ReviewQueue == Spec => []UnderReviewIffProofPending
<1>1. IInv => UnderReviewIffProofPending
  BY DEF IInv
<1>. QED
  BY <1>1, Invariance, PTL

\* The goods of an order are never deducted more often than a proof of it was
\* approved.
THEOREM ApprovalsHaveProofs == Spec => []OneApprovalPerProof
<1>1. IInv => OneApprovalPerProof
  BY DEF IInv
<1>. QED
  BY <1>1, Invariance, PTL

\* Only an upload that overtook an approval takes an order out of "paid", or
\* makes a second deduction possible.
THEOREM ReopenedByStaleUploads == Spec => []ReopenedOnlyByStaleUpload
<1>1. IInv => ReopenedOnlyByStaleUpload
  BY DEF IInv
<1>. QED
  BY <1>1, Invariance, PTL

\* Vendor orders are queued for payout by approvals, and by every approval, and
\* their payouts say the same until they are marked paid.
THEOREM PayoutsFollow == Spec => []PayoutFollowsApproval
<1>1. IInv => PayoutFollowsApproval
  BY DEF IInv
<1>. QED
  BY <1>1, Invariance, PTL

\* orders and payments tell one story.
THEOREM ColumnsAgree == Spec => []StatusColumnsAgree
<1>1. IInv => StatusColumnsAgree
  BY DEF IInv
<1>. QED
  BY <1>1, Invariance, PTL

\* An order turns paid only by taking its goods out of a sufficient stock.
THEOREM PaidIsDeducted == Spec => PaidTakesStock
<1>1. ASSUME IInv, [Next]_vars, NEW o \in Orders,
             orders[o].payment_status # "paid", orders'[o].payment_status = "paid"
      PROVE  AdminApprovePayment(o)
  <2> USE <1>1
  <2>1. orders \in [Orders -> OrderRow]
    BY DEF IInv, TypeOK
  <2>2. ASSUME NEW x \in Orders, Checkout(x)
        PROVE  FALSE
    BY <2>1, <2>2 DEF Checkout, CheckoutItem, CheckoutRefused, PlaceOrder, NewOrder
  <2>3. ASSUME NEW r \in Uploads, Upload(r)
        PROVE  FALSE
    <3>1. upload[r].order \in Orders
      BY DEF IInv, TypeOK, UploadState
    <3>2. CASE UploadCommit(r)
      <4>1. CASE upload[r].order = o
        <5>1. orders'[o] = UnderReview(orders[o])
          BY <2>1, <3>1, <3>2, <4>1 DEF UploadCommit
        <5>. QED
          BY <2>1, <5>1, Rows
      <4>2. CASE upload[r].order # o
        BY <2>1, <3>1, <3>2, <4>2 DEF UploadCommit
      <4>. QED
        BY <4>1, <4>2
    <3>. QED
      BY <2>3, <3>2 DEF Upload, UploadRead, UploadSaveFile, UploadFail
  <2>4. ASSUME NEW x \in Orders, ProcessPaystackSuccess(x)
        PROVE  FALSE
    <3>1. \/ orders'[o] = orders[o]
          \/ orders'[o] = WebhookPaid(orders[o])
      BY <2>1, <2>4 DEF ProcessPaystackSuccess
    <3>. QED
      BY <2>1, <3>1, Rows
  <2>5. ASSUME NEW x \in Orders, Admin(x)
        PROVE  AdminApprovePayment(o)
    <3>1. CASE AdminApprovePayment(x)
      BY <2>1, <3>1 DEF AdminApprovePayment
    <3>2. CASE AdminRejectPayment(x)
      <4>1. orders'[o] = orders[o] \/ orders'[o] = RejectedOrder(orders[o])
        BY <2>1, <3>2 DEF AdminRejectPayment
      <4>. QED
        BY <2>1, <4>1, Rows
    <3>. QED
      BY <2>5, <3>1, <3>2 DEF Admin, AdminMarkVendorPayoutPaid
  <2>6. CASE Vendor
    BY <2>6 DEF Vendor, VendorUpdateFulfillment, VendorSetStock
  <2>. QED
    BY <2>2, <2>3, <2>4, <2>5, <2>6 DEF Next, vars
<1>2. ASSUME NEW o \in Orders, IInv, AdminApprovePayment(o)
      PROVE  \A p \in Products : /\ stock'[p] = stock[p] - items[o][p]
                                 /\ items[o][p] > 0 => stock'[p] >= 0
  BY <1>2 DEF AdminApprovePayment, InStock, Contents, IInv, TypeOK
<1>3. IInv /\ [Next]_vars =>
        [\A o \in Orders :
           orders[o].payment_status # "paid" /\ orders'[o].payment_status = "paid"
             => \A p \in Products : /\ stock'[p] = stock[p] - items[o][p]
                                    /\ items[o][p] > 0 => stock'[p] >= 0]_vars
  BY <1>1, <1>2
<1>. QED
  BY <1>3, Invariance, PTL DEF Spec, PaidTakesStock

\* A paid vendor payout is never queued again.
THEOREM PaidPayoutsStay == Spec => PaidPayoutIsFinal
<1>1. ASSUME IInv, [Next]_vars, NEW o \in Orders, NEW v \in Vendors,
             vendorPayouts[o][v] = "paid"
      PROVE  vendorPayouts'[o][v] = "paid"
  <2> USE <1>1
  <2>1. vendorPayouts \in [Orders -> [Vendors -> PayoutStatuses]]
    BY DEF IInv, TypeOK
  <2>2. ASSUME NEW x \in Orders, Checkout(x)
        PROVE  vendorPayouts'[o][v] = "paid"
    <3>1. CASE PlaceOrder(x)
      <4>1. x # o \/ vendorPayouts[o][v] \in {"none"}
        BY <3>1 DEF PlaceOrder, IInv, UnplacedUntouched, Placed
      <4>. QED
        BY <2>1, <3>1, <4>1 DEF PlaceOrder
    <3>. QED
      BY <2>2, <3>1 DEF Checkout, CheckoutItem, CheckoutRefused
  <2>3. ASSUME NEW x \in Orders, Admin(x)
        PROVE  vendorPayouts'[o][v] = "paid"
    BY <2>1, <2>3
       DEF Admin, AdminApprovePayment, QueuePayout, AdminRejectPayment,
           AdminMarkVendorPayoutPaid
  <2>. QED
    BY <2>2, <2>3
       DEF Next, vars, Upload, UploadRead, UploadSaveFile, UploadCommit, UploadFail,
           ProcessPaystackSuccess, Vendor, VendorUpdateFulfillment, VendorSetStock
<1>2. IInv /\ [Next]_vars =>
        [\A o \in Orders, v \in Vendors :
           vendorPayouts[o][v] = "paid" => vendorPayouts'[o][v] = "paid"]_vars
  BY <1>1
<1>. QED
  BY <1>2, Invariance, PTL DEF Spec, PaidPayoutIsFinal
=============================================================================
