\* A request of the user's, one of an administrator's and one of either, with two
\* connections.
CONSTANTS
  u1 = u1
  c1 = c1
  c2 = c2
  c3 = c3
  Users = {u1}
  Calls = {c1, c2, c3}
  Offers <- MCOffers
  Old = Old
  PoolSize = 2
SPECIFICATION Spec
INVARIANTS
  TypeOK
  RotatedOnce
  SessionsEnd
  ShopsClose
PROPERTIES
  RequestsEnd
CHECK_DEADLOCK FALSE
