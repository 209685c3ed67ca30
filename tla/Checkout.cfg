\* Up to three lines of three products of two vendors, one and a half units
\* each, and one change of the catalogue meanwhile.
CONSTANTS
  v1 = v1
  v2 = v2
  p1 = p1
  p2 = p2
  p3 = p3
  Products = {p1, p2, p3}
  Vendors = {v1, v2}
  VendorOf <- MCVendorOf
  Catalogues <- MCCatalogues
  Overrides <- MCOverrides
  Prices = {5, 6}
  Stocks = {2, 3}
  Rates <- MCRates
  NoRate = NoRate
  Quantities = {3}
  DefaultRate = 1
  QtyScale = 2
  RateScale = 10
  LineBound = 3
  ChangeBound = 1
SPECIFICATION Spec
INVARIANTS
  TypeOK
  MoneyAddsUp
  RecordedRateExplains
  VendorKeepsItsShare
  FreshLinesHold
  OrderedProductsStay
CHECK_DEADLOCK FALSE
