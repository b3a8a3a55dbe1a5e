CONSTANTS
  Threads = {t1, t2, t3}
  Users = {"ada", "bea", "cleo"}
  Mappings <- MCMappings
  Permission <- MCPermission
  Matches <- MCMatches
  Bootstrap <- MCBootstrap
  RowLock = TRUE
  NoAuth = FALSE
  NoThread = NoThread
  NoMapping = NoMapping
SPECIFICATION FairSpec
INVARIANT LastAdminMappingRemains
INVARIANT RemovalsAreSerialized
PROPERTY RemovalsEnd
PROPERTY ImplementsPromise
