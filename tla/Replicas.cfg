SPECIFICATION ReplicasSpec

CONSTANTS
  Nothing = nothing
  Keys = {c, d}
  Values = {x, y}
  Users = {u}
  Sids = {s, t}
  Addresses = {a}
  Untils = {0, 1, 2}
  Gateways = {g, h}
  KeyPairs = {k}
  Signals = {ua}
  Orders = {2, 3}
  Starts <- McStarts
  Archives <- McArchives
  MaxQueue = 3
  MaxOps <- McMaxOps

SYMMETRY McSymmetry
CHECK_DEADLOCK FALSE

INVARIANTS ReplicasAgree RulesNameGateways BackupRestores
PROPERTIES LastGatewayStays ImportNeverWeakens RestoreTakesOverNothing
