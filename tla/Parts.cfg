\* Bounds of each part: see "Bounds" in the README.
SPECIFICATION PartsSpec
CONSTANTS
  MaxRecent = 2
  MaxDeliveries = 4
  MaxNesting = 2
  MaxUpsets = 2
  ApiWorkers = {w1, w2}
  AuthRequests = {r1, r2}
  MaxPairs = 2
  MaxAuthUpsets = 2
  Logins = {l1, l2}
  LoginLimit = 2
  MaxFailures = 5
  MaxLimitUpsets = 3
  Serials = {s1, s2}
  Gateways = {g1, g2}
  NoGateway = NoGateway
  NoTank = NoTank
  Readers = {r1}
  SharedWiring = FALSE
  Rows = {r1, r2}
  NumCarriers = 2
  MaxRetries = 2
  MaxTroubles = 2
  Tanks = {t1, t2}
  Links = {gw}
  MaxSweepUpsets = 1
  Users = {u1, u2}
  Companies = {c1}
  NoCompany = NoCompany
  FirstAdmin = u1
  Requests = {q1, q2}
  Secrets = {password}
  Plain = {host}
  Values = {v1, v2}
  Editors = {e1, e2}
  Mask = Mask
  Blank = Blank
  Missing = Missing
  LastHour = 4
  HoursPerDay = 2
  Volumes = {1, 3}
  BatchSize = 2
  LookBack = 1
  MaxLate = 1
  Pressures = {1, 4, 8, 20, 60}
  Atmospheric = 2
  Height = 20
  Area = 3
  Capacity = 50
  Window = 3
  Tables <- MCTables
  Firms = {f1, f2}
  Sites = {p1}
  Stations = {st1, st2}
  Dispensers = {d1}
  Tags = {k1, k2}
  Platform = Platform
  MaxCreations = 2
  Serial = {t1, t2}
  Owners = {o1, o2}
  Fuels = {fuel1}
  Radios = {radio1}
  Nobody = Nobody
  Unset = Unset
  MaxWrites = 2
INVARIANT PartsTypeOK
INVARIANT EffectsAccounted
INVARIANT OneRotationPerStore
PROPERTY LoggedOutIsRefused
INVARIANT FailuresAreLimited
INVARIANT FiledUnderItsTank
INVARIANT DeliveryAccounted
INVARIANT SweptAgrees
INVARIANT DirectoryRules
INVARIANT SecretsSurvive
INVARIANT ExportComplete
INVARIANT StoredIsDrawn
INVARIANT ReadingIsGrounded
INVARIANT KeysAreUnique
INVARIANT FuelIsKnown
INVARIANT WritesStayHome
CHECK_DEADLOCK FALSE
