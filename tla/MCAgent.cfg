\* Two restarts, drops, failing logins and stop() at any time.
SPECIFICATION Spec
CONSTANTS
  MaxDrops = 3
  MaxRestarts = 2
  TokenMayFail = TRUE
INVARIANTS
  TypeOK
  OneChain
  NoServersLeaked
PROPERTIES
  Resumes
  StopEndsServers
  ImplementsReconnectLoop
CHECK_DEADLOCK FALSE
