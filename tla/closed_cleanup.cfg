\* A pull request is closed.
SPECIFICATION FairSpec
CONSTANTS
  None = None
  g1 = g1
  u1 = u1
  u2 = u2
  Generators = {g1}
  Numbers = {1, 2}
  Branches = {"feature", "fix", "docs", "main", "release1"}
  BranchMatches = {"main"}
  Templates = {"t1", "t2"}
  Urls = {u1, u2}
  Listable = {u1, u2}
  PageSize = 2
  Horizon = 2
  RetrySteps = 2
  UrlForm <- HttpsForm
  RemoteWants <- HttpsWants
  PullRequests <- DocPullRequests
  GeneratorSpecs <- OneSpec
  SecretStates <- TokenOnly
  InitSecret <- Token
  InitOpen <- OneOpen
  Budgets <- CloseBudgets
PROPERTIES
  ClosedIsCleanedUp
CHECK_DEADLOCK FALSE
