\* Under fairness: the source moves to another repository, so that one proxy can never be updated, and everything else goes on.
SPECIFICATION FairSpec
CONSTANTS
  None = None
  g1 = g1
  u1 = u1
  u2 = u2
  Generators = {g1}
  Numbers = {1, 2}
  Branches = {"feature", "fix", "docs", "main", "release1"}
  BranchMatches = {"main"}
  Templates = {"t1", "t2"}
  Urls = {u1, u2}
  Listable = {u1, u2}
  PageSize = 2
  Horizon = 1
  RetrySteps = 2
  UrlForm <- HttpsForm
  RemoteWants <- HttpsWants
  PullRequests <- LivePullRequests
  GeneratorSpecs <- LiveSpecs
  SecretStates <- LiveSecrets
  InitSecret <- Absent
  InitOpen <- LiveOpen
  Budgets <- LiveBudgets
PROPERTIES
  EveryPullRequestProxied
  KeepsPolling
  PollsGoOn
CHECK_DEADLOCK FALSE
