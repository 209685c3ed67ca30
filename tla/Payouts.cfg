\* Three requests for up to the whole ledger, and three approvals in any order.
CONSTANTS
  v1 = v1
  v2 = v2
  Vendors = {v1, v2}
  Credits <- MCCredits
  Amounts = {1, 2}
  Requests = {q1, q2, q3}
  Approvals = {a1, a2, a3}
SPECIFICATION Spec
SYMMETRY Symmetry
INVARIANTS
  TypeOK
  OverdrawnOnlyByOvertaking
  DebitsFollowPayouts
CHECK_DEADLOCK FALSE
