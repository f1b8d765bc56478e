\* Two users, one device name, one request each: calls of two users never cross, and each is settled once.
SPECIFICATION Spec
CONSTANTS
  alice = alice
  bob = bob
  laptop1 = laptop1
  laptop2 = laptop2
  desktop = desktop
  other = other
  r1 = r1
  r2 = r2
  Users = {alice, bob}
  Names <- OneName
  Conns = {laptop1, laptop2, other}
  Reqs = {r1, r2}
  Tools <- OneTool
  ToolLists <- OneToolLists
  UserOf <- MCUserOf
  NameOf <- MCNameOf
  CallerOf <- MCCallerOf
  NoConn = NoConn
  NoName = NoName
INVARIANTS
  TypeOK
  RegistryExact
  PendingExact
  Isolation
PROPERTIES
  ImplementsToolCall
CHECK_DEADLOCK FALSE
