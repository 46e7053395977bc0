\* One proxy edited, deleted and created again, and clusters relabelled, while
\* it is being reconciled; two workers.
SPECIFICATION Spec
CONSTANTS
  None = None
  Gone = Gone
  p1 = p1
  p2 = p2
  w1 = w1
  w2 = w2
  c1 = c1
  c2 = c2
  u1 = u1
  u2 = u2
  Proxies = {p1}
  Workers = {w1, w2}
  Clusters = {c1, c2}
  Urls = {u1, u2}
  Labels = {"workload"}
  Resources = {"r1", "r2"}
  Refs <- EditRefs
  Namespace <- OneNamespace
  Name <- OneName
  ClusterNamespace <- OneClusterNamespace
  UrlForm <- TwoUrlForm
  RemoteWants <- TwoRemoteWants
  ProxySpecs <- EditProxySpecs
  Manifests <- EditManifests
  Kind <- TwoKind
  APIPlural <- TwoPlural
  SecretStates <- OneSecretStates
  InitLabel <- EditInitLabel
  InitKube <- EditInitKube
  InitHead <- EditInitHead
  InitSecret <- OneInitSecret
  Budget <- EditBudget
INVARIANTS
  NoLostWakeup
PROPERTIES
  ReadyDescribesSpec
  ImplementsRollout
SYMMETRY TwoSymmetry
CHECK_DEADLOCK FALSE
