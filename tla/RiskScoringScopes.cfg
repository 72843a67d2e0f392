SPECIFICATION Spec

CONSTANTS
  Ids = {a}
  IPs = {p}
  NoIp = noip
  Vhosts = {v, w}
  Global = global
  Weights = {1, 2}
  Severities <- McSeverities
  BanSecs <- McBanSecs
  ManualSecs = {1}
  RISK_BAN_THRESHOLD = 2
  RISK_BAN_THRESHOLD_NAT = 3
  NAT_IDENTITIES_THRESHOLD = 2
  AllowedForNat = 1
  MAX_IDENTITIES = 1
  EvictTtl = 1
  PRUNE_IDLE_SECS = 1
  NatWindow = 1
  MaxRisk = 3
  MaxTime = 2

SYMMETRY McVhostSymmetry

INVARIANTS VhostIsolation
PROPERTIES TrafficNeverShortensBans
