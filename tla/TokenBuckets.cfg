SPECIFICATION VisitorSpec

CONSTANTS
  Layers = {"socket", "identity", "endpoint"}
  Keys = {a, b, c, d}
  v = v
  w = w
  Hosts = {v, w}
  COST = 3
  BURST <- McBurst
  REFILL <- McRefill
  FRESH <- McFresh
  MaxBurst = 4
  MaxRefill = 2
  IDLE = 4
  MAX_IDENTITIES = 1
  EndpointMax = 1
  MaxAllowance = 10

  Tokens = {"t1", "t2"}
  Binds = {"p", "q"}
  Addresses = {"address"}
  POW_VALID_SECS = 2
  SOLVE_FLOOR = 1
  SEEN_MAX = 1
  POW_RL_LIMIT = 2
  POW_RL_WINDOW = 2
  LastTick = 7

  Visitors = {"browser", "agent"}
  Browsers = {"browser"}
  CANARY_PROBE_TTL = 2
  CANARY_PROBE_MIN_HTML = 2
  PROBE_STORE_MAX = 2
  PROBE_COUNTS_MAX = 2
  PROBE_CONFIRMED_MAX = 1
  PROBE_RL_LIMIT = 2
  PROBE_RL_WINDOW = 1
  AwaitingMax = 2
  LastInstant = 4

  Persons = {"p1", "p2"}
  TOKEN_TTL = 1
  CANVAS_STORE_MAX = 1
  LastMoment = 4

SYMMETRY McSymmetry

INVARIANTS RateBounded RetryAfterHolds HonestBrowserSpared
PROPERTY SpentOnce
