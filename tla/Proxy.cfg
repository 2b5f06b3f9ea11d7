SPECIFICATION FairSpec
CONSTANTS
  a = a  b = b  proxy = proxy  step = step  public = public  metadata = metadata
  https = https  http = http  listen = listen  ok = ok  other = other
  get = get  put = put
  Name <- MCName  Address <- MCAddress  ProxyAddress = proxy
  ProxySubnet <- MCProxySubnet  InternalRange <- MCInternalRange
  Port <- MCPort  ListenPort = listen  HttpsPort = https  HttpPort = http
  Path <- MCPath  Method <- MCMethod  Traversal = Traversal
  AnyPort = AnyPort  NoHost = NoHost  NotAName = NotAName  NoAddress = NoAddress
  RuleSets <- MCRuleSets  Connections <- MCConnections
INVARIANTS TypeOK ClientChoosesNoTarget RowTellsWhatHappened ResolverAgrees
PROPERTIES KeepsPolicy EveryConnectionEnds
