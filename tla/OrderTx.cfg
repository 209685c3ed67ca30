\* One order of two vendors: two uploads, an approval, a rejection and a webhook
\* at once.
CONSTANTS
  v1 = v1
  v2 = v2
  p1 = p1
  p2 = p2
  o1 = o1
  o2 = o2
  c1 = c1
  c2 = c2
  c3 = c3
  Orders = {o1}
  Products = {p1, p2}
  Vendors = {v1, v2}
  VendorOf <- MCVendorOf
  Uploads = {r1, r2}
  Quantities = {1}
  StockLevels = {1}
  Reported = {"shipped"}
  CartBound = 1
  Calls = {c1, c2, c3}
  CallOf <- MCOneOrder
SPECIFICATION TxSpec
INVARIANT TxTypeOK
PROPERTIES
  ImplementsOrderPayments
  TransactionsEnd
CHECK_DEADLOCK FALSE
