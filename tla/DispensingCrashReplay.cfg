\* A handler that dies between the commit and the SADD, and the station's retry.
SPECIFICATION Spec
CONSTANTS
  NoCode = NoCode
  NoWorker = NoWorker
  Quotas = {4}
  Grace = 1
  PartialMin = 2
  Workers = {w1}
  Codes = {c1, c2}
  Litres = {1, 5}
  MaxAttempts = 1
  MaxCrashes = 1
  MaxSlow = 0
INVARIANT SettledOnce
