\* Two users, two devices, two sessions, two calls at a time.
CONSTANTS
  User = {u1, u2}
  Device = {d1, d2}
  Session = {s1, s2}
  Request = {r1, r2}
  MaxSecond = 1
  NoRow = NoRow
  NoToken = NoToken
  NoSession = NoSession
  NoJob = NoJob
SPECIFICATION Spec
SYMMETRY Symmetric
INVARIANTS TypeOK OneSessionPerUser RevokedNotRefreshed
PROPERTIES RevokedForAReason
CHECK_DEADLOCK FALSE
