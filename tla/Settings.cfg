SPECIFICATION OperatorSpec
CONSTANTS
  Environments <- MCEnvironments
  Cidrs = {"office", "home"}
  Hosts = {"h1"}
  Archives <- MCArchives
  MaxQueue = 3
  MaxChanges = 3

  Calls = {"call"}
  Keys = {"ban", "nameless"}
  Nameless = "nameless"
  Alarms = {"threat_index", "ban_rate"}
  BacklogMax = 2
  Attempts = 3
  CB_THRESHOLD = 2
  CB_RESET = 2
  DEDUP = 2
  ALERT_COOLDOWN = 1

  Lookers = {"l1", "l2"}
  ABUSE_HOURS = 2
  CROWD_SECS = 1
  WritesMax = 1
  LastHour = 3

INVARIANTS RestartKeeps CopiesAgree VerdictsFresh
PROPERTIES NoPostClashes GateStaysClosed HeardAgain
