\* Two users, four location rows, two concurrent calls.
CONSTANTS
  User = {u1, u2}
  Location = {l1, l2, l3, l4}
  Request = {r1, r2}
  NoRow = NoRow
  NoTarget = NoTarget
  NoOne = NoOne
  NoJob = NoJob
SPECIFICATION Spec
SYMMETRY Symmetric
INVARIANTS TypeOK OneMain
PROPERTY SwitchKeepsMain
