SPECIFICATION LivelySpec
CONSTANTS
  Windows = {w1, w2}
  Kernels = {k1, k2}
  Requests = {r1, r2}
  Resets = {r2}
  Endless = {}
  Big = {r1}
  Nobody = Nobody
  Books = {b1, b2}
  First = b1
  MaxTroubles = 2
INVARIANTS NotStuck KInv
PROPERTIES FinishedOnce ServiceSpec Served Settles
