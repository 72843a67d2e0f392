SPECIFICATION ServicesSpec

CONSTANTS
  Sites = {s, t}
  Bodiless = {t}
  Forwards = {f, e}
  Blocked = {x, y}
  NoRequest = none
  CIRCUIT_FAIL_THRESHOLD = 2
  CIRCUIT_OPEN_SECS = 2
  CIRCUIT_HALF_OPEN_MAX = 1
  Gateways = {g}
  Ids = {a}
  Vhosts = {}
  GlobalScopes = {global}
  Global = global
  BanSecs = {1, 2}
  PendingMax = 2
  FlightMax = 3
  MaxTime = 1

INVARIANTS OneFetchPerExpiry NoneIsSkipped
PROPERTIES BreakerRecovers BlockedAreAnswered DrainsWhereStarted
