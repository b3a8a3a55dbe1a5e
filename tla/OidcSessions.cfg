CONSTANTS
  Browsers = {b1, b2}
  Users = {u1, u2}
  NoOne = NoOne
  Requests = {r1, r2}
  SessionTTL = 1
  TransactionTTL = 2
  MaxSessions = 1
  MaxTransactions = 2
  MaxAnswers = 2
  MaxSent = 5
SPECIFICATION MCSpec
SYMMETRY Symmetry
CHECK_DEADLOCK FALSE
INVARIANT TypeOK
INVARIANT SessionsMatchLogins
INVARIANT OneSessionPerLogin
PROPERTY LogoutHolds
PROPERTY ServedInTime
PROPERTY EntriesLeaveForAReason
PROPERTY ImplementsSignIn
