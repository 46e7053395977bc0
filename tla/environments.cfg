\* Both controllers: two pull requests of one repository share a cluster until the proxy of one is discarded; or a second cluster comes without its kubeconfig and the repository is blocked for a while.
SPECIFICATION FairSpec
CONSTANTS
  None = None
  Gone = Gone
  g1 = g1
  u1 = u1
  c1 = c1
  c2 = c2
  Generators = {g1}
  Numbers = {1, 2}
  Urls = {u1}
  Refs = {"feature", "fix"}
  PageSize = 2
  Clusters = {c1, c2}
  Labels = {"preview"}
  Resources = {"r1"}
  PullRequests <- Requests
  SourceOf <- Source
  Manifests <- Emitted
  Selects <- Selector
  InitOpen <- OpenAtFirst
  InitHead <- Heads
  InitLabel <- Labelled
  InitKeyless <- WithoutKey
  InitBlocked <- NothingBlocked
  Budgets <- Scenarios
INVARIANTS
  OnlyProposedCode
PROPERTIES
  EnvironmentFollows
CHECK_DEADLOCK FALSE
