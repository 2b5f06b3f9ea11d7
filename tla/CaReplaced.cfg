SPECIFICATION Spec

CONSTANTS
  bundle = bundle
  jks = jks
  anchor = anchor
  txt = txt
  db = db
  strayTxt = strayTxt
  stray = stray
  acl = acl
  certs = certs
  jvm = jvm
  nss = nss
  anchors = anchors
  owner = owner
  base = base
  new = new
  nobody = nobody
  nowhere = nowhere
  own = own
  None = nowhere
  OwnCA = own
  NoBody = nobody
  BaseBody = base
  Body <- MCBody
  Path <- StorePath
  Dir <- StoreDir
  DirOf <- StoreDirOf
  BaseFiles <- StoreBaseFiles
  BaseDirs <- StoreBaseDirs
  Bundle = {bundle}
  Keystore = {jks}
  SlotFile = {}
  NssDir = {}
  Unrecorded = {}
  AnchorDir = {anchors}
  AnchorFile <- OneAnchorFile
  OwnerOf <- OneOwner
  FailOnResidue = TRUE
  ValidExitCodes = {0}
  StepCodes = {0}
  Moves = {"replaced"}
  Faults = {}
  MaxSteps = 1
  MaxEdits = 3

INVARIANTS
  ChangesCopiedBack

\* The build ends after its last step.
CHECK_DEADLOCK FALSE
