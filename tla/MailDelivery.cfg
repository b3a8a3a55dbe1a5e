CONSTANTS
  Addresses = {a1, a2}
  Marker = Marker
  Threads = {t1, t2}
  MaxRequests = 2
  MaxSends = 1
  MaxSettings = 1
  MaxCopies = 2
SPECIFICATION MCSpec
CHECK_DEADLOCK FALSE
PROPERTY MailIsTried
PROPERTY AutomaticMailIsKept
