SPECIFICATION Spec

CONSTANTS
  Ids = {a, b, c}
  IPs = {p, q}
  NoIp = noip
  Vhosts = {}
  Global = global
  Weights = {1}
  Severities = {risk}
  BanSecs <- McOneHour
  ManualSecs = {1}
  RISK_BAN_THRESHOLD = 1
  RISK_BAN_THRESHOLD_NAT = 2
  NAT_IDENTITIES_THRESHOLD = 2
  AllowedForNat = 1
  MAX_IDENTITIES = 2
  EvictTtl = 0
  PRUNE_IDLE_SECS = 0
  NatWindow = 1
  MaxRisk = 2
  MaxTime = 1

SYMMETRY McSymmetry

INVARIANTS IndexComplete
PROPERTIES NatTolerance
