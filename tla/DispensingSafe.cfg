\* No process dies and no lock TTL runs out under its holder.  A quota
\* of 4 and its remainder of 3 (or two quotas of 4).
\* Drawing 5 is within the grace of 4 and an over-dispense against 3.
SPECIFICATION Spec
CONSTANTS
  NoCode = NoCode
  NoWorker = NoWorker
  Quotas = {4}
  Grace = 1
  PartialMin = 2
  Workers = {w1, w2}
  Codes = {c1, c2}
  Litres = {1, 5}
  MaxAttempts = 1
  MaxCrashes = 0
  MaxSlow = 0
SYMMETRY Symm
INVARIANT TypeOK
INVARIANT SettledOnce
INVARIANT AnswerRecorded
PROPERTY ImplementsContract
