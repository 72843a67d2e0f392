SPECIFICATION StoresSpec

CONSTANTS
  Window = 0
  MaxClock = 3
  MaxWaiting = 1
  MaxRequests = 2
  MaxFaults = 1
  Gateways = {g, h}
  Ids = {a}
  Vhosts = {}
  GlobalScopes = {global}
  Global = global
  BanSecs = {1, 2}
  PendingMax = 1
  FlightMax = 2
  MaxTime = 1

INVARIANTS NoGap CopiedOnce EventReadsFollow SharingNeverStretches
PROPERTIES OnlyOperatorsShorten
