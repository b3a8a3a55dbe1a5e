CONSTANTS
  Addresses = {a1, a2}
  Marker = Marker
  Threads = {t1, t2}
  MaxRequests = 3
  MaxSends = 0
  MaxSettings = 0
  MaxCopies = 2
SPECIFICATION MCSpec
SYMMETRY Symmetry
CHECK_DEADLOCK FALSE
INVARIANT AnonymizationRemovesAddress
