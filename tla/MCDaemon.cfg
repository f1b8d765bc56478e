\* Two sessions that start at any time, one fault: two daemons may meet.
SPECIFICATION Spec
CONSTANTS
  Sessions = {s1, s2}
  NoOne = NoOne
  MaxFaults = 1
INVARIANTS
  TypeOK
  NeverOrphaned
  SoloOwnership
  DuplicatesSeen
PROPERTIES
  GivesUpOnlyToAnother
  DuplicatesResolved
  ServedOrDropped
  DiesWithSessions
CHECK_DEADLOCK FALSE
