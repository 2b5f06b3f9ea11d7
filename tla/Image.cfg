SPECIFICATION FairSpec
CONSTANTS
  image = image  platform = platform  config = config  other = other
  otherConfig = otherConfig  attachment = attachment  signature = signature
  sbom = sbom  otherSignature = otherSignature
  inspect = inspect  universal = universal  commit = commit  otherCommit = otherCommit
  Digest <- MCDigest  NoDigest = NoDigest  BadDigest = BadDigest
  Document <- MCDocument  Engine = {inspect, universal}  NoEngine = NoEngine
  Registries <- MCRegistries  Refs <- MCRefs  Lies <- MCLies
  Faults = {"network", "error", "denied", "absent", "refused", "lie", "stale", "expiry"}
  MaxTrouble = 2
INVARIANTS TypeOK VerifiedIsSigned RefusedForCause TransientForCause
PROPERTIES VerificationEnds
