CONSTANTS
  Threads = {t1, t2}
  MaxAttempts = 3
  Statuses = {202, 404, 429, 503}
  NoOutcome = NoOutcome
  None = None
  Urls <- MCUrls
  Files <- MCFiles
  Links <- MCLinks
  MaxEdits = 3
  MaxTests = 2
SPECIFICATION MCSpec
CHECK_DEADLOCK FALSE
INVARIANT TypeOK
INVARIANT CopiesAreAccounted
INVARIANT AuditTellsSettings
PROPERTY RefusalNeedsRival
PROPERTY TestMailEnds
