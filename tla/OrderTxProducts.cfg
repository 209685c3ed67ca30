\* Two orders for the same two products, each the last of its kind: the approvals
\* may deduct them in opposite orders.
CONSTANTS
  v1 = v1
  v2 = v2
  p1 = p1
  p2 = p2
  o1 = o1
  o2 = o2
  c1 = c1
  c2 = c2
  c3 = c3
  Orders = {o1, o2}
  Products = {p1, p2}
  Vendors = {v1}
  VendorOf <- MCOneVendor
  Uploads = {r1, r2}
  Quantities = {1}
  StockLevels = {1}
  Reported = {}
  CartBound = 1
  Calls = {c1, c2}
  CallOf <- MCTwoOrders
SPECIFICATION TxSpec
PROPERTIES
  ImplementsOrderPayments
  TransactionsEnd
CHECK_DEADLOCK FALSE
