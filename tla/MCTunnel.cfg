\* A call and two restarts over a connection that is lost once.
SPECIFICATION Spec
CONSTANTS
  Reqs = {r1}
  Restarts = {h1, h2}
  Tools <- OneTool
  MaxLosses = 1
  NoTool = NoTool
INVARIANTS
  TypeOK
  NoCallLost
  ToolsCurrent
PROPERTIES
  RoutedToOwner
  CallsLeave
  RestartTakesEffect
  ImplementsToolCall
CHECK_DEADLOCK FALSE
