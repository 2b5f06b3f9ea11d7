SPECIFICATION FairSpec

CONSTANTS
  bundle = bundle
  jks = jks
  anchor = anchor
  txt = txt
  db = db
  strayTxt = strayTxt
  stray = stray
  acl = acl
  certs = certs
  jvm = jvm
  nss = nss
  anchors = anchors
  owner = owner
  base = base
  new = new
  nobody = nobody
  nowhere = nowhere
  own = own
  None = nowhere
  OwnCA = own
  NoBody = nobody
  BaseBody = base
  Body <- MCBody
  Path <- HomePath
  Dir <- HomeDir
  DirOf <- HomeDirOf
  BaseFiles <- HomeBaseFiles
  BaseDirs <- HomeBaseDirs
  Bundle = {}
  Keystore = {jks}
  SlotFile = {txt, strayTxt}
  NssDir = {nss}
  Unrecorded = {}
  AnchorDir = {}
  AnchorFile <- NoAnchorFile
  OwnerOf <- NoAnchorFile
  FailOnResidue = TRUE
  ValidExitCodes = {0}
  StepCodes = {0, 1}
  Moves = {"linked", "gone"}
  Faults = {"refuse", "skip", "half", "nss", "save", "launch", "finish", "sweep", "kill"}
  MaxSteps = 1
  MaxEdits = 2

INVARIANTS
  UntouchedStaysOut
PROPERTIES
  Implements
  WrapperGoesOn

\* The build ends after its last step.
CHECK_DEADLOCK FALSE
