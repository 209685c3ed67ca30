\* Two administrators approve two payouts of one vendor.
CONSTANTS
  v1 = v1
  v2 = v2
  Vendors = {v1, v2}
  Credits <- MCCredits
  Amounts = {2}
  Requests = {q1, q2}
  Approvals = {a1, a2}
SPECIFICATION Spec
INVARIANT NeverOverdrawn
CHECK_DEADLOCK FALSE
