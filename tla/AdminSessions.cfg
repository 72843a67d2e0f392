SPECIFICATION Spec
CONSTANTS
  Users = {"admin", "bob"}
  Roles = {"admin", "viewer"}
  Bootstrap = "admin"
  Passwords = {"key", "new"}
  InternalKey = "key"
  MAX_ADMIN_SESSIONS = 1
  MaxSid = 2
  MaxChanges = 2
  MaxQueue = 2
INVARIANTS RepudiatedSessionsDie SessionsLimited AdminRemains
CHECK_DEADLOCK FALSE
