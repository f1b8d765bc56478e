\* A stub and an agent over one cache file, three faults: tokens are in time, and the agent recovers.
SPECIFICATION Spec
CONSTANTS
  Procs = {"stub", "agent"}
  Agents = {"agent"}
  AccessTTL = 4
  RefreshTTL = 5
  CodeTTL = 1
  PendingTTL = 2
  Buffer = 2
  LoginWindow = 2
  Delay = 1
  MaxFaults = 3
INVARIANTS
  TypeOK
  TokenInTime
  LoginInTime
PROPERTIES
  Recovers
CHECK_DEADLOCK FALSE
