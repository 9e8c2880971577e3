SPECIFICATION Spec
CONSTANTS
  None = None
  r1 = r1
  r2 = r2
  lower = lower
  mixed = mixed
  pw = pw
  padded = padded
  n1 = n1
  n2 = n2
  Requests = {r1, r2}
  Addresses = {lower, mixed}
  Fold <- MCFold
  Passwords = {pw, padded}
  Strip <- MCStrip
  Names = {n1, n2}
  Ttl = 1
  Horizon = 1
  MaxSends = 5
  MaxFaults = 1
INVARIANTS OneAccountPerAddress DeadTokensAreRefused LoginIsDecidedByThePassword
PROPERTY UpdatesAreNotLost
SYMMETRY Symmetry
CHECK_DEADLOCK FALSE
