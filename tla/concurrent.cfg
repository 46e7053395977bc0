\* Two proxies, two workers, one cluster: interleavings, a push and a restart
\* of the manager that leaves repositories behind.
SPECIFICATION Spec
CONSTANTS
  None = None
  Gone = Gone
  p1 = p1
  p2 = p2
  w1 = w1
  w2 = w2
  c1 = c1
  c2 = c2
  u1 = u1
  u2 = u2
  Proxies = {p1, p2}
  Workers = {w1, w2}
  Clusters = {c1}
  Urls = {u1, u2}
  Labels = {"workload"}
  Resources = {"r1", "r2"}
  Refs <- TwoRefs
  Namespace <- TwoNamespace
  Name <- TwoName
  ClusterNamespace <- TwoClusterNamespace
  UrlForm <- TwoUrlForm
  RemoteWants <- TwoRemoteWants
  ProxySpecs <- TwoProxySpecs
  Manifests <- TwoManifests
  Kind <- TwoKind
  APIPlural <- TwoPlural
  SecretStates <- TwoSecretStates
  InitLabel <- TwoInitLabel
  InitKube <- TwoInitKube
  InitHead <- TwoInitHead
  InitSecret <- TwoInitSecret
  Budget <- TwoBudget
INVARIANTS
  TypeOK
  Isolation
PROPERTIES
  NoRollback
  ImplementsRollout
SYMMETRY TwoSymmetry
CHECK_DEADLOCK FALSE
