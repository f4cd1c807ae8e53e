SPECIFICATION MCSpec
CONSTANTS
  ada = ada  bob = bob  acme = acme  tok = tok  r1 = r1  s1 = s1  None = None
  Browsers = {b1, b2}
  Flows = {f1, f2}
  Users = {ada, bob}
  OrgOf <- MCOrgOf
  ApiKeys = {k1, k2}
  TokenTenant <- MCTokenTenant
  Shards = {s1}
  ShardOf <- MCShardOf
  Entries = {v1, v2}
  HasReadme = {v2}
  Requests = {r1, r2}
  SessionTTL = 1  RefreshGrace = 1  StateTTL = 1  CacheTTL = 1  CtxTTL = 1
  CacheMax = 1  Flight = 1  MaxTime = 4  MaxRestarts = 1
INVARIANT LoginBound
PROPERTIES RevocationBound SignOutBound InstallWhole
CHECK_DEADLOCK FALSE
SYMMETRY Sym
