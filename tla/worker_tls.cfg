SPECIFICATION LiveSpec
CONSTANTS
  Conns = {c1}
  Tasks = {}
  Modes = {{}}
  Bypasses = {FALSE}
  Schemes = {"https"}
  Redirects = {"follow"}
  Replies = {"bare"}
  Entries = {"none"}
  Timeouts = {1}
  DefaultTimeout = 1
  WithHeaders = {FALSE}
  TicksPerMs = 1
  MaxRedirects = 0
  EndlessRedirects = FALSE
  MaxSteps = 0
PROPERTIES HandshakeEnds
