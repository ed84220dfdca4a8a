SPECIFICATION Spec
CONSTANTS
  Conns = {c1}
  Tasks = {}
  Modes = {{1, 2, 4}}
  Bypasses = {FALSE}
  Schemes = {"http"}
  Redirects = {"follow"}
  Replies = {"bare"}
  Entries = {"expired"}
  Timeouts = {1}
  DefaultTimeout = 1
  WithHeaders = {FALSE}
  TicksPerMs = 1
  MaxRedirects = 0
  EndlessRedirects = FALSE
  MaxSteps = 0
INVARIANTS StaleIsRevalidated
