SPECIFICATION Spec
CONSTANTS
  Character <- MCCharacter
  Fields <- Field
  Beginnings <- MCBeginnings
  Fragments <- MCFragments
  MaxFragments = 4
  Names <- MCNames
  Ports <- MCPorts
  Paths <- MCPaths
  Bits = 2
  Octets = 3
INVARIANTS
  EnginesAgree NarrowingIsExact WildcardsMean
  AnchorsBindTheWhole
  CutNeverWidens UrlMeansItself
  EnginesCoverTheSame
\* A rule is written to its end.
CHECK_DEADLOCK FALSE
