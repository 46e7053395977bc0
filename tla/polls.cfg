\* One generator whose spec, pull requests and proxies change while it polls.
SPECIFICATION Spec
CONSTANTS
  None = None
  g1 = g1
  u1 = u1
  u2 = u2
  Generators = {g1}
  Numbers = {1, 2}
  Branches = {"feature", "fix", "docs", "main", "release1"}
  BranchMatches = {"main"}
  Templates = {"t1"}
  Urls = {u1}
  Listable = {u1}
  PageSize = 2
  Horizon = 2
  RetrySteps = 2
  UrlForm <- PollForm
  RemoteWants <- PollWants
  PullRequests <- PollPullRequests
  GeneratorSpecs <- PollSpecs
  SecretStates <- TokenOnly
  InitSecret <- Token
  InitOpen <- PollOpen
  Budgets <- PollBudgets
INVARIANTS
  TypeOK
  OwnBranch
  Punctual
PROPERTIES
  ImplementsPreviews
CHECK_DEADLOCK FALSE
