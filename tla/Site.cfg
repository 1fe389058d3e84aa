SPECIFICATION SiteSpec
CONSTANTS
  User = {u1, u2}
  Request = {p1, p2}
  MaxBreaks = 1
  Address = {v1}
  Call = {c1, c2}
  Token = {t1, t2}
  MaxAttempts = 2
  MaxPasswords = 2
  MaxLinks = 1
SYMMETRY Alike
INVARIANTS
  AdminUnlessCrossed
  AuditTells
  LockEarned
  SessionsEnded
  LinkSpent
CHECK_DEADLOCK FALSE
