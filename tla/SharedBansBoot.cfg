SPECIFICATION SharedBansFairSpec

CONSTANTS
  Gateways = {g}
  Ids = {a}
  Vhosts = {}
  GlobalScopes = {global}
  Global = global
  BanSecs = {1, 2}
  PendingMax = 2
  FlightMax = 3
  MaxTime = 1

PROPERTIES DrainsOnReconnect
