SPECIFICATION MCSpec
CONSTANTS
  None = None  plainTenant = t1  r1 = r1
  Tenants = {t1, t2}
  Encrypted = {t2}
  Requests = {r1, r2}
  Watchers = {w1}
  Admins = {a1, a2}
  Caps = {1, 2}  InitCap = 1
  MaxPut = 2  BusCap = 1
  MaxCommits = 2  MaxObjects = 3  MaxUploads = 1  MaxRestarts = 1
INVARIANTS WritersExclusive NoPlainContent EventsTrue RegistryExact
PROPERTIES QuotaHolds RequestsEnd CommitsAnnounced
CHECK_DEADLOCK FALSE
