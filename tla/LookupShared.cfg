\* Two sensors may be wired to one gateway.
SPECIFICATION TankLookupSpec
CONSTANTS
  Serials = {s1, s2}
  Gateways = {g1, g2}
  NoGateway = NoGateway
  NoTank = NoTank
  Readers = {r1}
  SharedWiring = TRUE
INVARIANT FiledUnderItsTank
CHECK_DEADLOCK FALSE
