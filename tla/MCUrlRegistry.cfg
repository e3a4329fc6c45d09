CONSTANTS
  e1 = e1
  Editions = {e1}
  Primary = {e1}
  p1 = p1
  p2 = p2
  p3 = p3
  Paths = {p1, p2, p3}
  MaxRecords = 4
  t1 = t1
  t2 = t2
  Renames = {t1, t2}

SPECIFICATION UrlSpec
SYMMETRY Symmetry
INVARIANTS
  UrlTypeOK
  AddressesAgree
