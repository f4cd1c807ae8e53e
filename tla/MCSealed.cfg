SPECIFICATION MCSpec
CONSTANTS
  x = x  y = y  None = None
  Paths = {p1}
  Contents <- MCContents
  Recipients = {bob, carol}
  Threads = {h1, h2}
  ChunkSize = 2
  MaxKeys = 3  MaxCommits = 2  MaxShares = 2
  Writers = {w1, w2}
  MaxEntries = 5
INVARIANTS SourcesExact NoNonceReuse RevokedShutOut WalkComplete AuditKept
SYMMETRY Sym
CHECK_DEADLOCK FALSE
