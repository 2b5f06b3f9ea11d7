SPECIFICATION FairSpec
CONSTANTS
  j1 = j1  j2 = j2  default = default  own = own  taken = taken
  rule = rule  other = other
  Job <- MCJob  Name <- MCName  DefaultName = default  Rule = {rule, other}
  Blank = Blank  Malformed = Malformed  Absent = Absent
  Workloads <- MCWorkloads  Taken = {taken}  NoJob = NoJob  NoName = NoName
  MaxLost = 1  MaxEdits = 1
INVARIANT ReportsOwnBuild
