\* One user, two calls, two profiles of a kind in turn.
CONSTANTS
  Phone = {p1}
  Request = {r1, r2}
  MaxProfiles = 2
  NoRow = NoRow
  NoState = NoState
  NoJob = NoJob
SPECIFICATION Spec
SYMMETRY Symmetric
INVARIANTS TypeOK AdmittedForAReason  ImagesOfUsers
CHECK_DEADLOCK FALSE
