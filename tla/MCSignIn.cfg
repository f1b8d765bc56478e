\* Two clients and one that is refused, a provider that moves once and a relay that
\* restarts once.
SPECIFICATION Spec
CONSTANTS
  f1 = f1
  f2 = f2
  f3 = f3
  Flows = {f1, f2, f3}
  Uri <- MCUri
  Lists <- MCLists
  DocTTL = 2
  PendingTTL = 1
  CodeTTL = 1
  Delay = 1
  MaxMoves = 1
  MaxRestarts = 1
INVARIANTS
  TypeOK
  DocFresh
PROPERTIES
  OutageBounded
  ConsentFirst
  RequestsAnswered
CHECK_DEADLOCK FALSE
