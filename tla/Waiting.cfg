\* One command to a gateway that never answers, three attempts as in the code; and one
\* code, with a handler that may die while it holds the lock.
SPECIFICATION WaitingSpec
CONSTANTS
  NoCommand = NoCommand
  Answers <- MCAnswers
  Ackers = {a1}
  Commands = {c1}
  Executing = {}
  Refusing = {}
  MaxAttempts = 3
  MaxFaults = 2
  NoCode = NoCode
  NoWorker = NoWorker
  Quotas = {4}
  Grace = 1
  PartialMin = 2
  Workers = {w1, w2}
  Codes = {d1}
  Litres = {5}
  CodeAttempts = 1
  MaxCrashes = 1
  MaxSlow = 0
INVARIANT RetriesBounded
INVARIANT PublishesPaid
PROPERTY UnackedFails
PROPERTY WaitsEnd
