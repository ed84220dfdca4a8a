SPECIFICATION LiveSpec
CONSTANTS
  Windows = {w1, w2}
  Kernels = {k1, k2}
  Requests = {r1, r2}
  Resets = {}
  Endless = {r1}
  Big = {}
  Nobody = Nobody
PROPERTIES Isolated
