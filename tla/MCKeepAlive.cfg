\* The code's own ratios 30 : 10 : 90 : 60, in units of ten thirds of a second.
SPECIFICATION Spec
CONSTANTS
  PingEvery = 9
  PongWithin = 3
  StaleAfter = 27
  SweepEvery = 18
  Delay = 1
  Lag = 1
  MaxFaults = 1
INVARIANTS
  TypeOK
  NoFalseAlarm
  RelayNotices
  AgentNotices
CHECK_DEADLOCK FALSE
