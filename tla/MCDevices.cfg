\* One user with two devices, one of which may reconnect: a call goes where its name was listed.
SPECIFICATION Spec
CONSTANTS
  alice = alice
  bob = bob
  laptop1 = laptop1
  laptop2 = laptop2
  desktop = desktop
  other = other
  r1 = r1
  r2 = r2
  Users = {alice}
  Names <- TwoNames
  Conns = {laptop1, laptop2, desktop}
  Reqs = {r1}
  Tools <- ThreeTools
  ToolLists <- ThreeToolLists
  UserOf <- MCUserOf
  NameOf <- MCNameOf
  CallerOf <- MCCallerOf
  NoConn = NoConn
  NoName = NoName
SYMMETRY LaptopSymmetry
PROPERTIES
  RoutedAsListed
CHECK_DEADLOCK FALSE
