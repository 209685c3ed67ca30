\* Two orders that may compete for the last unit of a product, of two vendors,
\* and two uploads that race the administrator.
CONSTANTS
  v1 = v1
  v2 = v2
  p1 = p1
  p2 = p2
  Orders = {o1, o2}
  Products = {p1, p2}
  Vendors = {v1, v2}
  VendorOf <- MCVendorOf
  Uploads = {r1, r2}
  Quantities = {1}
  StockLevels = {1}
  Reported = {"pending"}
  CartBound = 2
SPECIFICATION Spec
SYMMETRY Symmetry
INVARIANTS
  TypeOK
  UnderReviewIffProofPending
  OneApprovalPerProof
  ReopenedOnlyByStaleUpload
  PayoutFollowsApproval
  StatusColumnsAgree
PROPERTIES
  PaidTakesStock
  PaidPayoutIsFinal
CHECK_DEADLOCK FALSE
