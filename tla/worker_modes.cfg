SPECIFICATION SingleSpec
CONSTANTS
  Conns = {c1}
  Tasks = {t1}
  Modes = {{}, {1, 4}, {1, 2, 8}, {1, 2, 4, 16}}
  Bypasses = {FALSE, TRUE}
  Schemes = {"http", "https"}
  Redirects = {"follow", "error", "manual"}
  Replies = {"tagged", "failed"}
  Entries = {"fresh"}
  Timeouts = {1}
  DefaultTimeout = 1
  WithHeaders = {FALSE}
  TicksPerMs = 2
  MaxRedirects = 1
  EndlessRedirects = FALSE
  MaxSteps = 1
INVARIANTS TypeOK IInv NoEarlyTimeout
PROPERTIES WaitReturns
