SPECIFICATION Spec
CONSTANTS
  Character <- MCCharacter
  Fields = {"rawUrl"}
  Beginnings <- MCBeginnings
  Fragments <- MCFragments
  MaxFragments = 3
  Names <- MCNames
  Ports <- MCPorts
  Paths <- MCPaths
  Bits = 2
  Octets = 3
INVARIANTS NoPortIsTheDefault
CHECK_DEADLOCK FALSE
