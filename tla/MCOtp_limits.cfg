\* Two calls at a time, two codes, tokens that outlive no second.
CONSTANTS
  Request = {r1, r2}
  Device = {d1}
  MaxAttempts = 2
  Lifetime = 0
  MaxCode = 2
  MaxSecond = 1
  MaxGuess = 4
  MaxLost = 1
  NoJob = NoJob
SPECIFICATION Spec
SYMMETRY Symmetric
INVARIANTS TypeOK CooldownHolds GuessesBounded TokensPerCode UsesGranted
CHECK_DEADLOCK FALSE
