SPECIFICATION Spec
CONSTANTS
  s1 = s1
  s2 = s2
  p1 = p1
  p2 = p2
  Nobody = Nobody
  Stocks <- MCStocks
  Procs <- MCProcs
  MaxPackages = 2
  MaxTheses = 3
  MaxFaults = 1
SYMMETRY Symmetric
INVARIANTS TypeOK Succession OneActive ApprovedIsRegistered
CHECK_DEADLOCK FALSE
