SPECIFICATION Spec

CONSTANTS
  Event <- WholeBuild
  Host = {good, bad, addr}
  Unknown = unknown
  Dest = {addr}
  ProxyDest = self
  AllowedHost = {good}
  NoEvent = none
  good = good
  bad = bad
  addr = addr
  self = self
  unknown = unknown
  none = none
  Audit = FALSE
  FailOnBlocked = TRUE
  PipeLines = 1
  SegmentLines = 2
  KeepSegments = 1
  MaxCrashes = 1
  Faults = {"crash", "bare", "cut", "hang", "metrics"}

INVARIANTS
  TypeOK
  FailsClosed
  NoFalseAlarm
  ReadsArchives

\* The build ends, and the report with it.
CHECK_DEADLOCK FALSE
