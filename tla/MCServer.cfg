SPECIFICATION ServerSpec
CONSTANTS
  r1 = r1
  r2 = r2
  c1 = c1
  c2 = c2
  Clients = {c1, c2}
  Reactors = {r1, r2}
  Main = r1
  Modes = {"pool", "repl"}
  Scripts <- MCScripts
  Chunk = 2
  RbufInit = 2
  RbufMax = 4
  WbufInit = 1
  WbufMax = 3
  SockOut = 1
  MaxClients = 1
  Lines = 2
  NoRealloc = TRUE
CHECK_DEADLOCK FALSE
INVARIANTS RepliesInOrder SharedSafely UnitsInStep
PROPERTIES DropsOnlyForCause Answered PromptReturns Stops
