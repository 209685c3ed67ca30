\* Four visits from two addresses behind one proxy, a cache for one address.
CONSTANTS
  proxy = proxy
  ip1 = ip1
  ip2 = ip2
  ada = ada
  v1 = v1
  v2 = v2
  v3 = v3
  v4 = v4
  Anonymous = Anonymous
  Requests = {v1, v2, v3, v4}
  KeyOf <- MCKeyOf
  IpOf <- MCIpOf
  UserOf <- MCUserOf
  Rpm = 2
  Window = 1
  Keyed = FALSE
  MaxClock = 2
  Cap = 1
  Ttl = 1
SPECIFICATION VisitsSpec
SYMMETRY Symmetry
INVARIANTS
  AdmittedPerWindow
  CacheBounded
PROPERTIES
  EmptyPlacesExplained
CHECK_DEADLOCK FALSE
