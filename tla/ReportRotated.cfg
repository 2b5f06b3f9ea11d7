SPECIFICATION Spec

CONSTANTS
  Event <- TwoRequests
  Host = {good, bad, addr}
  Unknown = unknown
  Dest = {addr}
  ProxyDest = self
  AllowedHost = {good}
  NoEvent = none
  good = good
  bad = bad
  addr = addr
  self = self
  unknown = unknown
  none = none
  Audit = FALSE
  FailOnBlocked = TRUE
  PipeLines = 2
  SegmentLines = 2
  KeepSegments = 1
  MaxCrashes = 0
  Faults = {}

INVARIANTS
  ReadsEverySegment

\* The build ends, and the report with it.
CHECK_DEADLOCK FALSE
