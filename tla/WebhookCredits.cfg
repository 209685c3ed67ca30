\* What the webhook does to the vendors' ledger.
CONSTANTS
  v1 = v1
  v2 = v2
  p1 = p1
  p2 = p2
  Orders = {o1, o2}
  Products = {p1, p2}
  Vendors = {v1, v2}
  VendorOf <- MCVendorOf
  Uploads = {r1, r2}
  Quantities = {1}
  StockLevels = {1}
  Reported = {"shipped"}
  CartBound = 1
SPECIFICATION Spec
INVARIANT WebhookCredits
CHECK_DEADLOCK FALSE
