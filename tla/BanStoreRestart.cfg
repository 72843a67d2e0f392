SPECIFICATION Spec

CONSTANTS
  a = a
  p = p
  Ids = {a}
  IPs = {p}
  IpOf <- McOwn
  BanSecs = {1, 2}
  ManualSecs = {2}
  HOSTILE_BAN_SECS = 2
  QueueMax = 2
  BatchMax = 2
  BAN_CACHE_TTL = 2
  BAN_CACHE_MAX = 1
  DB_BACKEND = "sqlite"
  WallStart = 2
  MaxWall = 5

INVARIANTS NoBanOutlivesItsTerm
