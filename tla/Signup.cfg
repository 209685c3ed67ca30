\* Four requests for one address: registrations, codes sent again and entered,
\* and a forgotten password.
CONSTANTS
  ada = ada
  c1 = c1
  c2 = c2
  c3 = c3
  c4 = c4
  Emails = {ada}
  Calls = {c1, c2, c3, c4}
  Offers <- MCOffers
  EmailOf <- MCEmailOf
  Nobody = Nobody
SPECIFICATION Spec
INVARIANTS
  OneActiveCode
  AccountsHold
CHECK_DEADLOCK FALSE
