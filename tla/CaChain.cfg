SPECIFICATION Spec

CONSTANTS
  bundle = bundle
  jks = jks
  anchor = anchor
  txt = txt
  db = db
  strayTxt = strayTxt
  stray = stray
  acl = acl
  certs = certs
  jvm = jvm
  nss = nss
  anchors = anchors
  owner = owner
  base = base
  new = new
  nobody = nobody
  nowhere = nowhere
  own = own
  None = nowhere
  OwnCA = own
  NoBody = nobody
  BaseBody = base
  Body <- MCBody
  Path <- ChainPath
  Dir <- ChainDir
  DirOf <- ChainDirOf
  BaseFiles <- ChainBaseFiles
  BaseDirs <- ChainBaseDirs
  Bundle = {bundle}
  Keystore = {jks}
  SlotFile = {txt, strayTxt}
  NssDir = {nss}
  Unrecorded = {}
  AnchorDir = {}
  AnchorFile <- NoAnchorFile
  OwnerOf <- NoAnchorFile
  FailOnResidue = FALSE
  ValidExitCodes = {0}
  StepCodes = {0, 1}
  Moves = {"gone"}
  Faults = {"noca", "recapture", "anchor", "launch", "finish", "sweep", "kill"}
  MaxSteps = 2
  MaxEdits = 1

INVARIANTS
  OnlyStuckRemains
PROPERTIES
  CommitsOnlyUndone

\* The build ends after its last step.
CHECK_DEADLOCK FALSE
