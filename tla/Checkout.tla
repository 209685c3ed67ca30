------------------------------ MODULE Checkout ------------------------------
(***************************************************************************)
(* One call of CheckoutService.Checkout, its money and its rows, against a *)
(* catalogue that vendors and administrators change meanwhile.  The call   *)
(* reads the catalogue one product at a time, without locks, and writes    *)
(* none of it, so that calls do not meet: one stands for all of them.      *)
(*                                                                         *)
(* A quantity q stands for q/QtyScale units and a rate r for r/RateScale.  *)
(* Quantities of more than the six decimals of the columns, and NaN, which *)
(* parseQty lets through, are left out.                                    *)
(***************************************************************************)
EXTENDS Integers, Sequences, FiniteSets, FiniteSetsExt

CONSTANTS
  Products,
  Vendors,
  VendorOf,      \* products.vendor_id
  Catalogues,    \* the catalogues a call may begin with
  Overrides,     \* vendors.commission_override, which no statement writes
  Prices, Stocks, Rates,  \* what may be entered meanwhile
  NoRate,        \* NULL
  Quantities,    \* what a line may ask for
  DefaultRate,   \* the 0.10 of the code, used for want of a setting
  QtyScale, RateScale,
  LineBound,     \* bound on the lines of a request
  ChangeBound    \* bound on the changes made during the call

Statuses == {"draft", "published", "deleted"}

ProductRow ==
  [price : Int, status : Statuses, stock : Int, adminRate : Int \union {NoRate}]

ASSUME VendorOfAssumption == VendorOf \in [Products -> Vendors]
ASSUME CataloguesAssumption == Catalogues \subseteq [Products -> ProductRow]
ASSUME OverridesAssumption == Overrides \in [Vendors -> Int \union {NoRate}]
ASSUME EntriesAssumption ==
  Prices \subseteq Int /\ Stocks \subseteq Int /\ Rates \subseteq Int
ASSUME NoRateAssumption == NoRate \notin Int
ASSUME QuantitiesAssumption == Quantities \subseteq Nat \ {0}
ASSUME DefaultRateAssumption == DefaultRate \in Nat
ASSUME ScalesAssumption == QtyScale \in Nat \ {0} /\ RateScale \in Nat \ {0}
ASSUME BoundsAssumption == LineBound \in Nat /\ ChangeBound \in Nat

VARIABLES
  catalogue,     \* products
  vendorStatus,  \* vendors.status
  setting,       \* settings.commission_default_rate
  editing,       \* vendors with an UpdateProduct that has passed its check
  changes,       \* number of changes so far
  pc,            \* of the call: begin, items, placed, failed
  defaultRate,   \* local variables of the call
  built,
  vendorSummary, \* a function on the vendors met so far
  total,
  orders,        \* orders.total_amount, a sequence of at most one row
  vendorOrders,  \* the other rows of the order, by vendor: functions on the
                 \* vendors that have one
  commissions,
  vendorPayouts,
  orderItems,
  fresh          \* lines whose product and vendor have not changed since they
                 \* were read

environment == <<catalogue, vendorStatus, setting, editing, changes>>
locals == <<defaultRate, built, vendorSummary, total>>
tables == <<orders, vendorOrders, commissions, vendorPayouts, orderItems>>
vars == <<environment, pc, locals, tables, fresh>>

----------------------------------------------------------------------------

Abs(n) == IF n < 0 THEN -n ELSE n

\* math.Round of n/d computed in floating point: the nearest integer; at a tie
\* either neighbour, for 0.1 and its like are not exactly what they say.
Nearest(n, d) == {k \in {n \div d, n \div d + 1} : 2 * Abs(k * d - n) <= d}

\* Mistake: the fraction is cut off.
CutOff(n, d) == {n \div d}

LineTotals(price, q) == Nearest(price * q, QtyScale)

\* Mistake: a rounding of its own.
CommissionsCutOff(lineTotal, rate) == CutOff(lineTotal * rate, RateScale)

Commissions(lineTotal, rate) == Nearest(lineTotal * rate, RateScale)

\* Mistake: a negative rate is let through.
Unclamped(rate) == rate

Clamped(rate) == IF rate < 0 THEN 0 ELSE rate

\* Mistake: the vendor's rate is never looked at.
VendorRateIgnored(default, override, adminRate) ==
  Clamped(IF adminRate # NoRate THEN adminRate ELSE default)

ResolveCommissionRate(default, override, adminRate) ==
  Clamped(IF adminRate # NoRate THEN adminRate
          ELSE IF override # NoRate THEN override ELSE default)

NothingSold == [subtotal |-> 0, commission |-> 0, net |-> 0]

SubtotalOf(summary, v) ==
  IF v \in DOMAIN summary THEN summary[v]
  ELSE [subtotal |-> 0, commission |-> 0, net |-> 0]

\* Mistake: a vendor's second line replaces the first.
ReplaceVendorSummary(summary, v, lineTotal, commission) ==
  [u \in DOMAIN summary \union {v} |->
     IF u # v THEN summary[u]
     ELSE [subtotal |-> lineTotal, commission |-> commission,
           net |-> lineTotal - commission]]

AccumulateVendorSummary(summary, v, lineTotal, commission) ==
  LET old == SubtotalOf(summary, v) IN
  [u \in DOMAIN summary \union {v} |->
     IF u # v THEN summary[u]
     ELSE [subtotal |-> old.subtotal + lineTotal,
           commission |-> old.commission + commission,
           net |-> old.net + (lineTotal - commission)]]

\* Mistake: the vendor is not looked at.
Published(p) == catalogue[p].status = "published"

OnSale(p) ==
  /\ catalogue[p].status = "published"
  /\ vendorStatus[VendorOf[p]] = "approved"

Init ==
  /\ catalogue \in Catalogues
  /\ vendorStatus \in [Vendors -> {"approved", "pending"}]
  /\ setting \in Rates \union {NoRate}
  /\ editing = {}
  /\ changes = 0
  /\ pc = "begin"
  /\ defaultRate = DefaultRate
  /\ built = <<>>
  /\ vendorSummary = <<>>
  /\ total = 0
  /\ orders = <<>>
  /\ vendorOrders = <<>>
  /\ commissions = <<>>
  /\ vendorPayouts = <<>>
  /\ orderItems = <<>>
  /\ fresh = {}

----------------------------------------------------------------------------
(* CheckoutService.Checkout *)

\* The default rate is read before the transaction; a setting that is missing
\* or negative is passed over.
Begin ==
  /\ pc = "begin"
  /\ pc' = "items"
  /\ defaultRate' = IF setting # NoRate /\ setting >= 0 THEN setting ELSE DefaultRate
  /\ UNCHANGED <<environment, built, vendorSummary, total, tables, fresh>>

\* One turn of the loop over the request's lines.
CheckoutItem(p, q) ==
  LET row == catalogue[p]
      v == VendorOf[p]
      rate == ResolveCommissionRate(defaultRate, Overrides[v], row.adminRate)
  IN
  /\ pc = "items"
  /\ Len(built) < LineBound
  /\ OnSale(p)
  /\ row.stock >= q
  /\ \E lineTotal \in LineTotals(row.price, q) :
     \E commission \in Commissions(lineTotal, rate) :
       /\ built' = Append(built,
            [product |-> p, qty |-> q, unitPrice |-> row.price, rate |-> rate,
             lineTotal |-> lineTotal, commission |-> commission])
       /\ vendorSummary' =
            AccumulateVendorSummary(vendorSummary, v, lineTotal, commission)
       /\ total' = total + lineTotal
  /\ fresh' = fresh \union {Len(built) + 1}
  /\ UNCHANGED <<environment, pc, defaultRate, tables>>

\* The next line is malformed, not on sale or not in stock, or the database
\* fails: the transaction leaves nothing behind.
Refuse ==
  /\ pc = "items"
  /\ pc' = "failed"
  /\ UNCHANGED <<environment, locals, tables, fresh>>

\* Mistake: the items do not refer to products.
ItemsUnchecked == TRUE

ItemsExist == \A i \in DOMAIN built : catalogue[built[i].product].status # "deleted"

\* Mistake: the vendor is owed the gross amount.
PayoutGross(s) ==
  [gross |-> s.subtotal, commission |-> s.commission, net |-> s.subtotal]

VendorPayoutRow(s) ==
  [gross |-> s.subtotal, commission |-> s.commission, net |-> s.net]

\* The rate recorded is the default rate, whichever rates the lines had.
CommissionRow(s) ==
  [rate |-> defaultRate, gross |-> s.subtotal, commission |-> s.commission]

\* The inserts, if the foreign keys of the items hold.
PlaceOrder ==
  LET ByVendor(Row(_)) == [v \in DOMAIN vendorSummary |-> Row(vendorSummary[v])] IN
  /\ pc = "items"
  /\ built # <<>>
  /\ ItemsExist
  /\ pc' = "placed"
  /\ orders' = <<total>>
  /\ vendorOrders' = vendorSummary
  /\ commissions' = ByVendor(CommissionRow)
  /\ vendorPayouts' = ByVendor(VendorPayoutRow)
  /\ orderItems' = built
  /\ UNCHANGED <<environment, locals, fresh>>

----------------------------------------------------------------------------
(* The catalogue changes. *)

Untouched(ps) == {i \in fresh : built[i].product \notin ps}

Change(ps) ==
  /\ changes < ChangeBound
  /\ changes' = changes + 1
  /\ fresh' = Untouched(ps)
  /\ UNCHANGED <<pc, locals, tables>>

\* VendorService.UpdateProduct looks at the vendor's status before its
\* transaction, which may run when the vendor has been rejected.
UpdateProductCheck(v) ==
  /\ v \notin editing
  /\ vendorStatus[v] = "approved"
  /\ editing' = editing \union {v}
  /\ UNCHANGED <<catalogue, vendorStatus, setting, changes, pc, locals, tables,
                 fresh>>

\* A field that the request leaves out keeps its value.
UpdateProduct(p, price, status, stock) ==
  /\ VendorOf[p] \in editing
  /\ catalogue[p].status # "deleted"
  /\ editing' = editing \ {VendorOf[p]}
  /\ catalogue' = [catalogue EXCEPT ![p].price = price, ![p].status = status,
                                    ![p].stock = stock]
  /\ Change({p})
  /\ UNCHANGED <<vendorStatus, setting>>

\* Another order is approved.
DeductStock(p, q) ==
  /\ catalogue[p].status # "deleted"
  /\ catalogue[p].stock >= q
  /\ catalogue' = [catalogue EXCEPT ![p].stock = @ - q]
  /\ Change({p})
  /\ UNCHANGED <<vendorStatus, setting, editing>>

UpdateProductCommission(p, rate) ==
  /\ catalogue[p].status # "deleted"
  /\ catalogue' = [catalogue EXCEPT ![p].adminRate = rate]
  /\ Change({p})
  /\ UNCHANGED <<vendorStatus, setting, editing>>

\* The foreign key of order_items keeps a product that has been sold.
DeleteProduct(p) ==
  /\ catalogue[p].status # "deleted"
  /\ \A i \in DOMAIN orderItems : orderItems[i].product # p
  /\ catalogue' = [catalogue EXCEPT ![p].status = "deleted"]
  /\ Change({p})
  /\ UNCHANGED <<vendorStatus, setting, editing>>

\* AdminService.ApproveVendor and RejectVendor.
SetVendorStatus(v, status) ==
  /\ vendorStatus[v] # status
  /\ vendorStatus' = [vendorStatus EXCEPT ![v] = status]
  /\ Change({p \in Products : VendorOf[p] = v})
  /\ UNCHANGED <<catalogue, setting, editing>>

SetDefaultCommission(rate) ==
  /\ setting' = rate
  /\ Change({})
  /\ UNCHANGED <<catalogue, vendorStatus, editing>>

----------------------------------------------------------------------------

Call ==
  \/ Begin
  \/ \E p \in Products, q \in Quantities : CheckoutItem(p, q)
  \/ Refuse
  \/ PlaceOrder

VendorActs ==
  \/ \E v \in Vendors : UpdateProductCheck(v)
  \/ \E p \in Products, price \in Prices, status \in Statuses \ {"deleted"},
        stock \in Stocks : UpdateProduct(p, price, status, stock)

AdminActs ==
  \/ \E p \in Products, q \in Quantities : DeductStock(p, q)
  \/ \E p \in Products, rate \in Rates \union {NoRate} : UpdateProductCommission(p, rate)
  \/ \E p \in Products : DeleteProduct(p)
  \/ \E v \in Vendors, status \in {"approved", "rejected"} : SetVendorStatus(v, status)
  \/ \E rate \in Rates : SetDefaultCommission(rate)

Next == Call \/ VendorActs \/ AdminActs

Spec == Init /\ [][Next]_vars

----------------------------------------------------------------------------
(* Correctness *)

Line ==
  [product : Products, qty : Quantities, unitPrice : Int, rate : Nat,
   lineTotal : Int, commission : Int]

IsTable(f, S, Row) == DOMAIN f \subseteq S /\ f \in [DOMAIN f -> Row]

SummaryRow == [subtotal : Int, commission : Int, net : Int]

CommissionRecord == [rate : Nat, gross : Int, commission : Int]

PayoutRow == [gross : Int, commission : Int, net : Int]

\* Every variable has its type.
TypeOK ==
  /\ catalogue \in [Products -> ProductRow]
  /\ vendorStatus \in [Vendors -> {"approved", "pending", "rejected"}]
  /\ setting \in Int \union {NoRate}
  /\ editing \subseteq Vendors
  /\ changes \in Nat
  /\ pc \in {"begin", "items", "placed", "failed"}
  /\ defaultRate \in Nat
  /\ built \in Seq(Line)
  /\ IsTable(vendorSummary, Vendors, SummaryRow)
  /\ total \in Int
  /\ orders \in Seq(Int)
  /\ IsTable(vendorOrders, Vendors, SummaryRow)
  /\ IsTable(commissions, Vendors, CommissionRecord)
  /\ IsTable(vendorPayouts, Vendors, PayoutRow)
  /\ orderItems \in Seq(Line)
  /\ fresh \subseteq DOMAIN built

LinesOf(v) == {i \in DOMAIN orderItems : VendorOf[orderItems[i].product] = v}

LineTotal(i) == orderItems[i].lineTotal

LineNet(i) == orderItems[i].lineTotal - orderItems[i].commission

\* No kobo is lost or made when an order is split: the order's total is the sum
\* of its items, every vendor who sold one has a vendor order and a payout and
\* nobody else has, and these add up to the vendor's own items, however often
\* its products alternate with another's in the request.
MoneyAddsUp ==
  orders # <<>> =>
    /\ orders[1] = MapThenSumSet(LineTotal, DOMAIN orderItems)
    /\ DOMAIN vendorOrders = {VendorOf[orderItems[i].product] : i \in DOMAIN orderItems}
    /\ DOMAIN vendorPayouts = DOMAIN vendorOrders
    /\ \A v \in DOMAIN vendorOrders :
         /\ vendorPayouts[v].gross = MapThenSumSet(LineTotal, LinesOf(v))
         /\ vendorPayouts[v].net = MapThenSumSet(LineNet, LinesOf(v))
         /\ vendorPayouts[v].gross - vendorPayouts[v].commission = vendorPayouts[v].net
         /\ vendorOrders[v].subtotal = vendorPayouts[v].gross
         /\ vendorOrders[v].net = vendorPayouts[v].net

\* The rate recorded with a commission explains its amount, to half a unit for
\* each line, if the vendor's lines were charged that rate: the recorded rate
\* is the default rate even when an override was charged.
RecordedRateExplains ==
  \A v \in DOMAIN commissions :
    (\A i \in LinesOf(v) : orderItems[i].rate = commissions[v].rate) =>
      2 * Abs(commissions[v].commission * RateScale
                - commissions[v].gross * commissions[v].rate)
        <= Cardinality(LinesOf(v)) * RateScale

\* As long as prices are not negative and rates do not exceed one, a vendor is
\* never charged more than was sold, nor credited a commission.
VendorKeepsItsShare ==
  \A v \in DOMAIN vendorPayouts :
    (\A i \in LinesOf(v) : orderItems[i].unitPrice >= 0 /\ orderItems[i].rate <= RateScale) =>
      vendorPayouts[v].net \in 0 .. vendorPayouts[v].gross

\* A line still holds when the order is placed, unless its product or vendor was
\* changed after the line was read: the product is on sale, each line by itself
\* is in stock, and the line has the product's price and the rate the tests ask
\* for (tests/checkout_split_test.go:13, :17, :21 and :26): the administrator's,
\* without one the vendor's, without either the default, and never one below
\* zero.
FreshLinesHold ==
  \A i \in fresh :
    LET line == built[i]
        row == catalogue[line.product]
        override == Overrides[VendorOf[line.product]]
    IN
    /\ row.status = "published" /\ vendorStatus[VendorOf[line.product]] = "approved"
    /\ line.qty <= row.stock
    /\ line.unitPrice = row.price
    /\ row.adminRate # NoRate => line.rate = Max({row.adminRate, 0})
    /\ row.adminRate = NoRate /\ override # NoRate => line.rate = Max({override, 0})
    /\ row.adminRate = NoRate /\ override = NoRate => line.rate = defaultRate

\* The products of a placed order stay in the catalogue, where the approval of
\* its payment looks for them, also when one is deleted between the reading and
\* the inserting of its line.
OrderedProductsStay ==
  \A i \in DOMAIN orderItems : catalogue[orderItems[i].product].status # "deleted"
=============================================================================
