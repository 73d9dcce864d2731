\* A handler may die anywhere, and a lock may run out under its holder.
SPECIFICATION Spec
CONSTANTS
  NoCode = NoCode
  NoWorker = NoWorker
  Quotas = {4}
  Grace = 1
  PartialMin = 2
  Workers = {w1, w2}
  Codes = {c1, c2}
  Litres = {1}
  MaxAttempts = 1
  MaxCrashes = 1
  MaxSlow = 1
SYMMETRY Symm
INVARIANT FaultsBoundSettlements
INVARIANT NoLostUpdate
INVARIANT LedgerAgrees
INVARIANT RedisAgrees
