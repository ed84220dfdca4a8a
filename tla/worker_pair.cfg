SPECIFICATION Spec
CONSTANTS
  Conns = {c1, c2}
  Tasks = {t1}
  Modes = {{}}
  Bypasses = {FALSE}
  Schemes = {"http"}
  Redirects = {"follow"}
  Replies = {"failed"}
  Entries = {"none"}
  Timeouts = {1}
  DefaultTimeout = 1
  WithHeaders = {FALSE}
  TicksPerMs = 1
  MaxRedirects = 0
  EndlessRedirects = FALSE
  MaxSteps = 0
SYMMETRY Symmetry
INVARIANTS NoLostWakeup SettledIsFinal
PROPERTIES AsyncSpec
