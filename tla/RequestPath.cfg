SPECIFICATION Spec
CONSTANTS
  Requests = {r1, r2}
  Ids = {i1}
  Fps = {f1}
  Addresses = {a1}
  FpOf <- FpOfAll
  AddressOf <- AddressOfAll
  Crowded = {}
  RISK_BAN_THRESHOLD = 1
  RISK_BAN_THRESHOLD_NAT = 1
  Weights = {1}
  ChurnWeight = 1
  TurnstileScore = 1
  ESCALATION_THRESHOLD = 1
  SESSION_CHURN_MAX = 1
  SESSION_CHURN_WINDOW_S = 1
  ALLOW_BYPASS_SECS = 1
  BanSecs = 1
SYMMETRY Symmetry
INVARIANTS BannedMeetsDecoy ChurnBounded
PROPERTY GraceUndisturbed
