\* Two proxies, one worker, two clusters, under fairness: whatever failed, the
\* latest commit is deployed once the environment stands still, although the
\* other proxy fails all the time.
SPECIFICATION FairSpec
CONSTANTS
  None = None
  Gone = Gone
  p1 = p1
  p2 = p2
  w1 = w1
  w2 = w2
  c1 = c1
  c2 = c2
  u1 = u1
  u2 = u2
  Proxies = {p1, p2}
  Workers = {w1}
  Clusters = {c1, c2}
  Urls = {u1}
  Labels = {"workload"}
  Resources = {"r1"}
  Refs <- OneRefs
  Namespace <- LiveNamespace
  Name <- LiveName
  ClusterNamespace <- OneClusterNamespace
  UrlForm <- OneUrlForm
  RemoteWants <- OneRemoteWants
  ProxySpecs <- LiveProxySpecs
  Manifests <- LiveManifests
  Kind <- LiveKind
  APIPlural <- LivePlural
  SecretStates <- PartialSecretStates
  InitLabel <- LiveInitLabel
  InitKube <- LiveInitKube
  InitHead <- LiveInitHead
  InitSecret <- LiveInitSecret
  Budget <- LiveBudget
PROPERTIES
  Converges

  PassesGoOn
CHECK_DEADLOCK FALSE
