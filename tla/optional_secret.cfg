\* A proxy of a public repository without a secretRef.
SPECIFICATION Spec
CONSTANTS
  None = None
  Gone = Gone
  p1 = p1
  p2 = p2
  w1 = w1
  w2 = w2
  c1 = c1
  c2 = c2
  u1 = u1
  u2 = u2
  Proxies = {p1}
  Workers = {w1}
  Clusters = {c1, c2}
  Urls = {u1}
  Labels = {"workload"}
  Resources = {"r1", "r2"}
  Refs <- OneRefs
  Namespace <- OneNamespace
  Name <- OneName
  ClusterNamespace <- OneClusterNamespace
  UrlForm <- OneUrlForm
  RemoteWants <- OneRemoteWants
  ProxySpecs <- OptionalProxySpecs
  Manifests <- StaleManifests
  Kind <- TwoKind
  APIPlural <- TwoPlural
  SecretStates <- OneSecretStates
  InitLabel <- PartialInitLabel
  InitKube <- StaleInitKube
  InitHead <- StaleInitHead
  InitSecret <- OneInitSecret
  Budget <- OptionalBudget
PROPERTIES
  SecretIsOptional
CHECK_DEADLOCK FALSE
