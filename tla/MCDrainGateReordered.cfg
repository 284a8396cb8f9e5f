\* The load of the counter may overtake the store to draining.
SPECIFICATION Spec
CONSTANTS
  r1 = r1
  r2 = r2
  r3 = r3
  Requests <- MCRequests
  MaxRequests = 2
  LoadOvertakes = TRUE
SYMMETRY Symmetry
INVARIANT DrainSafe
