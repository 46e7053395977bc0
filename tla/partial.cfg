\* One proxy, one worker, two clusters: every step may fail.
SPECIFICATION Spec
CONSTANTS
  None = None
  Gone = Gone
  p1 = p1
  p2 = p2
  w1 = w1
  w2 = w2
  c1 = c1
  c2 = c2
  u1 = u1
  u2 = u2
  Proxies = {p1}
  Workers = {w1}
  Clusters = {c1, c2}
  Urls = {u1, u2}
  Labels = {"workload"}
  Resources = {"r1", "r2", "gateway"}
  Refs <- OneRefs
  Namespace <- OneNamespace
  Name <- OneName
  ClusterNamespace <- OneClusterNamespace
  UrlForm <- PartialUrlForm
  RemoteWants <- PartialRemoteWants
  ProxySpecs <- PartialProxySpecs
  Manifests <- PartialManifests
  Kind <- PartialKind
  APIPlural <- PartialPlural
  SecretStates <- PartialSecretStates
  InitLabel <- PartialInitLabel
  InitKube <- PartialInitKube
  InitHead <- PartialInitHead
  InitSecret <- OneInitSecret
  Budget <- PartialBudget
INVARIANTS
  NoLeakedDirectory
  CloneAuthWorks
PROPERTIES
  ReadyMeansPresent
CHECK_DEADLOCK FALSE
