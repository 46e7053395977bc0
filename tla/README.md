# Models of the CDK8s add-on provider for Cluster API

TLA+ modules for the controllers of this repository (`controllers/`, with the
types and the webhook of `api/v1alpha1/` and the set-up of `main.go`): what the
reconcilers do when they interleave with each other, with users, with a Git
server that fails, with stale caches and with restarts. Each of the two controllers
is shown to implement an abstract specification without queues, caches and versions,
and the two abstract specifications are composed into the system as its users see it.
TLC checks the modules on small instances; TLAPS proves the safety results and both
refinements for every value of the constants.

## 1. The system: components, state, interactions

| Component | State it keeps | Operations | Interacts through |
|---|---|---|---|
| Proxy reconciler (`controllers/controller.go`) | locals of a running `Reconcile`; a directory under `/tmp`; the conditions of `Cdk8sAppProxy` | `Reconcile`, `ClusterToCdk8sAppProxyMapper` | work queue, informer cache, Secrets, Git server, `/tmp`, workload clusters, API server |
| Resourcer (`controllers/resourcer`) | none; the resources in the workload clusters | `Apply`, `Check` | cluster list, kubeconfig Secrets, server-side apply |
| Git access (`controllers/git/git.go`, `controllers/utils`) | the cloned repository | `CheckAccess`, `Clone`, `getAuth`, `FetchSecret`, `FetchKnownHosts`; `Poll`, `Hash` (no caller) | Git server, Secrets |
| Generator reconciler (`controllers/generator_controller.go`) | `status.lastPolledTime`; the proxies it creates | `Reconcile`, `reconcilePR` | work queue, cache, provider API, API server, garbage collector |
| Provider client (`controllers/git/provider_client.go`) | none | `ListPullRequests` for three providers | HTTP |
| Synthesizer (`controllers/synthesizer`) | none; `dist/` in the clone | `Synthesize` | `npm`, `cdk8s`, files |
| Webhook (`api/v1alpha1/cdk8sappproxy_webook.go`) | none | `Default`, `ValidateCreate`, `ValidateUpdate`, `ValidateDelete` | API server |
| Manager (`main.go`) | flags, caches, queues, leader lease | start-up | everything |

The generator writes `Cdk8sAppProxy` objects, the proxy reconciler deploys them, and
its status updates wake the generator again (`Owns`). Each key is in one worker's
hands at a time (work queue); different keys run in parallel (10 workers each by
default). All reads go through informer caches, which lag behind; writes go to the
API server, which refuses a stale `resourceVersion`.

What is hard in it:

* **Errors that vanish.** The deferred function of `Reconcile` assigns `RemoveAll`'s
  result to the named result `err`, so an error of any step after the first read is
  not retried by the queue; `Apply` shadows its own `err` and always returns nil.
  What brings the retry is the cache's resync.
* **Shared names.** Clones live in `/tmp/cdk8s-<namespace>-<name>-<branch>`, which
  survives a restart of the container.
* **Long reconciliations** during which the object, the clusters, the branch or the
  Secret change.
* **Partial failure** over clusters and resources, panics on a nil cluster client.
* **Clocks and stale caches** in the generator's polling.
* **Two controllers that know each other only by the objects** one writes and the
  other reads late, and pull requests that compete for a cluster.

What makes each component correct is stated in section 3; every hazard, with its line
and the properties that watch it, is in `PROJECT.json`.

## 2. Modules

| Module | Models |
|---|---|
| `GitAccess` | pure operators: `FetchSecret`, `FetchKnownHosts`, `getURLType`, `getAuth`, `sshHostKeyCallback`, `CheckAccess`, the credential of `Clone` |
| `ProxyReconciler` | the proxy controller, the resourcer, the mapper, the work queue and cache, and the environment; extends `GitAccess` |
| `MCProxyReconciler` | its instances for TLC |
| `ProxyReconcilerProofs` | type correctness (TLAPS) |
| `ProxyReconcilerSafety` | isolation, no roll-back, no leaked directory (TLAPS) |
| `ProxyReconcilerStatus` | the clone's credential, what Ready says, no lost event (TLAPS) |
| `Rollout` | what the proxy controller promises: passes over the clusters, and Ready |
| `ProxyRollout` | the refinement mapping from `ProxyReconciler` to `Rollout` |
| `ProxyRolloutProofs` | that it is a refinement (TLAPS) |
| `GeneratorReconciler` | the generator controller, provider, clock, garbage collector; extends `GitAccess` |
| `MCGeneratorReconciler` | its instances for TLC |
| `GeneratorReconcilerProofs` | type correctness, own branches and punctual polls (TLAPS) |
| `Previews` | what the generator controller promises: polls, and the proxies they write |
| `GeneratorPreviews` | the refinement mapping from `GeneratorReconciler` to `Previews` |
| `GeneratorPreviewsProofs` | that it is a refinement (TLAPS) |
| `PreviewEnvironments` | both controllers in one manager: `Previews` and `Rollout` composed |
| `MCPreviewEnvironments` | its instance for TLC |
| `PreviewEnvironmentsProofs` | only proposed code is deployed; the composition is one of its parts (TLAPS) |
| `Synthesizer` | one call of `Synthesize` |
| `MCSynthesizer` | its instance for TLC |
| `SynthesizerProofs` | type correctness; the result is the selection (TLAPS) |

```
GitAccess --- ProxyReconciler ------ ProxyRollout ---------> Rollout  --.
          |                                                             +-- PreviewEnvironments
          '-- GeneratorReconciler -- GeneratorPreviews ----> Previews --'
Synthesizer   (ProxyReconciler takes its result: an error, or a fixed list of resources)
```

Definitions named `Mutant...` are wrong variants of the definition next to them; no
specification uses them. They record which plausible bug each property would notice.

### ProxyReconciler

A worker's program counter `pc[w]` stands before the next *interaction* of `Reconcile`;
what the code does between two interactions is local and belongs to the action before.

| Code | Actions |
|---|---|
| `Get` from the cache, lines 75-86 | `Get`, `GetNotFound` |
| `FetchSecret`, 99-103; `FetchKnownHosts`, 105-109 | `ReadSecret`; `ReadKnownHosts` (the Secret may change in between) |
| `CheckAccess` and the choice of the clone's credential, 111-134 | `CheckRepository` (each of the two calls may fail) |
| `Clone`, 136-146 | `Clone`, `CloneFails` |
| `Synthesize`, 148-160 | `Synthesize`, `SynthesizeFails` |
| `Apply` | `ApplyClusterList`, `ApplyClusterClient`, `ApplyResource`, `ApplyResourceFails` |
| `Check` | `CheckClusterList`, `CheckClusterClient`, `CheckResource` |
| `Status().Update`, 183-200 | `StatusUpdate`, `StatusUpdateFails` |
| deferred function, 92-97 | `Cleanup`, `CleanupFails`, with `Returned` for the overwritten result |
| `For`, `Watches`, `SyncPeriod`, queue | `CacheSync`, `ClusterEvent`, `Resync`, `Backoff` |
| container restart | `Crash`: queue, cache and workers start over, `/tmp` stays |

`deployed[c][r]` is what resource `r` on cluster `c` was last applied from: repository,
branch and commit number. `dirs` is what lies under `/tmp`. A directory is a path: a branch with
slashes nests it, and each component is a sequence of dash-separated segments, so that two names can
collide, and one clone can lie inside another, as they can in the code. `RemoveAll` removes all that
is inside (`Under`), and a removal that fails has removed any part of it.
`api`/`cache`/`obj[w]` are the stored, the cached and the in-memory object, with
`resourceVersion`. The naive plural of a kind is modelled on the kind's last letter.

Abstracted: log messages, condition reasons and messages, the content of manifests,
commit hashes (a counter per branch), the known_hosts files of the image (taken to know
every host used without an entry of its own), the selector (a set of label values, and
whether it parses).

### GeneratorReconciler

State is indexed by the generator being reconciled instead of by worker: the queue
gives a key to one worker at a time. Times are kept as *ages* (ticks since
`LastPolledTime`, counted up to `Horizon`), and a `resourceVersion` as whether a copy is
still current (`gstale`, `pstale`, `hand.current`): the code only compares times with now
plus an interval, and versions for equality. Both keep the state space finite without a
bound on the number of polls. One tick is one second, the resolution `metav1.Time` is
stored with, so that two polls in a tick write the same status.

`due[g]` is the one queue entry of a key: ready (0), ready in some ticks, or absent.
`Get`/`Wait` read the clock separately, as lines 82 and 83 do. `RenderAndGet` renders the
proxy into the template's own `gitRepository` (a shared pointer in the code), then reads
the existing proxy from the cache; `Create`/`Update` write it; errors are dropped
(`Rest`). `RecordPoll`, `RecordConflict`, `RecordFails` are the attempts of
`RetryOnConflict`. `GarbageCollect`, `StatusWritten` (the other reconciler), users and the
provider are the environment.

The provider's answer is one page: `FirstPages` are all the sets of `PageSize` open pull
requests when there are more, in an order the code does not choose. An interval of zero
requests no requeue at all, and a status written twice in one second is no change and
therefore no event: what brings the next poll is the cache's resync. An unparsable or a
negative interval behaves like these and is not told apart; neither are labels and annotations
(part of `template`) and the three providers.

### The abstract specifications

`Rollout` keeps, for each proxy, the spec that is wanted, the specs that may still be read of it
(`shown`) and whether it was declared ready; for each cluster what is deployed; and the *passes*
under way. What may be read is the wanted spec, from the moment it is written, and the ones it
replaced, until some moment nobody chooses (`Sight`, a condition on every step). A pass begins with a
spec that may be read and the newest commit of its branch, aims at the clusters its selector matches, puts resources of
its commit there, and is declared ready (only if its spec is still the wanted one) or abandoned.
At most one pass per proxy is under way. `ProxyRollout` maps the workers onto it: a worker is a
pass from its clone to its return; the specs that may be read of a proxy are those of its stored
object, its cached object and the objects in the hands of workers. The commit of the pass is in the directory under `/tmp`
until synthesis and in the parsed resources after it, which is why a directory that two
workers share would break the refinement.

`Previews` keeps the open pull requests, the generated proxies and the *polls* under way. A
poll knows one page of pull requests that were open at one moment and writes the proxy of
each at most once, with that pull request's branch; a proxy keeps its repository while it
lives. `GeneratorPreviews` maps a worker between the provider's answer and the record of the
poll onto a poll. The reference that rendering writes into the spec's own template is hidden by the mapping:
the refinement says that it never gets into the proxy of another pull request.

### PreviewEnvironments

The two specifications meet in the `Cdk8sAppProxy` objects: `Wanted`, of which `Rollout`
takes its `wanted`, is a function of the `proxies` of `Previews`, and the users' actions of
`Rollout` are the generator's writes (`Write`) and the deletions (`Discard`). A restart
ends the polls and the passes together. What stands in the way of the manager is state of its own:
`blocked` are the repositories nothing can be done with (a Secret that is missing or refused, a program that
fails or emits a kind without a served plural), `keyless` the clusters without a usable kubeconfig; both come and
go (`Obstruct`, `Rekey`). The safety of a poll or a pass does not depend on them, what is assumed of its
progress does (section 3, Fairness). `shown[p]` is the cache: everything that was written
of a proxy since the cache was last level (`CatchUp`). That the composition takes no liberties
with its parts, and that its result does not hang on their steps being taken in turn, is proved
(section 4). A generator's spec is a constant here (`SourceOf`): what edits of it do to its proxies is
in `GeneratorReconciler`, and how the two controllers meet does not change with it. `Proposals` says what the history variable `proposed` records.

### Synthesizer

One call: the language of the application is that of the first file of the root with a
known suffix, `npm install` runs for TypeScript and may fail unnoticed, `cdk8s synth` fails or leaves
some `dist/`; the walk over `dist/` sorts files into kustomizations and manifests; if
there is a kustomization, the files listed by the kustomizations are read and no others; every
document of every file is decoded in order, empty ones are passed over, and the first that is broken ends
the call with an error. Which files `npm` and `cdk8s` leave is open (any of `Dists`),
stale files committed under `dist/` included. Content is abstracted to what the control
flow reads: a document is an object, empty or broken, a file's name is that of a kustomization,
a manifest or neither.

Two peculiarities are modelled as the code has them: a kustomization called
`Kustomization`, which kustomize accepts, is none for the walk; and the language is looked
for in the root of the repository, not under `spec.path`.

## 3. What TLC checks

The environment acts within a `Budget` per kind of action (of `Budgets`, where a run
has several scenarios, one is chosen at the start); every other action is unbounded. Deadlock is not checked: with no object, or once the budget is spent and all
is quiet, the system may stop.

| Run | Instance | Properties | States |
|---|---|---|---|
| `concurrent` | 2 proxies of one name in 2 namespaces, branches `main` and `main/x`, 2 workers, 1 cluster; 2 edits (which create both proxies, or create one and change or delete it), 1 push, 1 restart or failed removal | `TypeOK`, `Isolation`, `NoRollback`, `ImplementsRollout` | 384k |
| `edits` | 1 proxy, 2 workers, 2 clusters in 2 namespaces; 3 edits, 1 push, 2 cluster events | `NoLostWakeup`, `ReadyDescribesSpec`, `ImplementsRollout` | 1.12M |
| `partial` | 1 proxy, 1 worker, 2 clusters, 2 resources; one each of kubeconfig change, Secret change, restart, failing call, deleted resource | `NoLeakedDirectory`, `CloneAuthWorks`, `ReadyMeansPresent` | 547k |
| `converge` | 2 proxies, one of which always fails and may have a selector that does not parse, 1 worker, 2 clusters in different namespaces; 2 edits, 2 pushes, 2 cluster events, 1 restart, 1 failing call; under fairness | `Converges`, `PassesGoOn` | 122k |
| `polls` | 1 generator, 3 pull requests with 2 numbers, pages of 2, interval 1 or 2; 2 attempts of `RetryOnConflict` | `TypeOK`, `OwnBranch`, `Punctual`, `ImplementsPreviews` | 1.08M |
| `previews` | 1 generator that moves to another repository and changes to interval zero, its Secret comes late; besides, one of: deletion and re-creation, a proxy written or deleted by others, a restart, or (with one edit only) a proxy written or deleted, a restart and a failing call; under fairness | `EveryPullRequestProxied`, `KeepsPolling`, `PollsGoOn` | 281k |
| `environments` | 1 generator, 2 pull requests, 2 clusters of which one is yet to be created, without its kubeconfig; either 2 pull requests opened or closed, 1 proxy discarded and 1 other event, or 2 events and 2 obstacles (an event is a push, a restart, a relabelling or a lost resource); under fairness | `OnlyProposedCode`, `EnvironmentFollows` | 104k |
| `synthesize` | 4 paths, 2 of them kustomizations that may list each other and what is not there, 3 kinds of root | `TypeOK`, `SynthesisIsSelection` | 11.5k |

Why these bounds show the cases: two workers are enough for any race on a directory, an
object or a cluster, since each property relates at most two reconciliations; two
commits and two resources are enough to see old next to new; two clusters give the loops
of `Apply` and `Check` a first and a second element; three edits allow create, delete and
create again; two ticks of interval have a moment before, at and after the poll. Pages of
two hold less than three pull requests have numbers for, so that both a full and an exceeded page occur. In
`environments` one generator with two pull requests on one cluster is the smallest instance
in which proxies compete; with two obstacles a cluster or a repository is spoilt and mended, or both mended, while a push,
a restart or a relabelling happens. Two attempts of `RetryOnConflict` (the code makes five) give a conflict that a second attempt makes up for and
one that exhausts them. Four paths give `Synthesizer` a kustomization before
and after another file, and lists of length 0 to 3.
The workers are interchangeable and permuted by SYMMETRY in the safety runs.

What the properties say:

* `Isolation` - a reconciliation applies a commit of the repository and branch of its own
  object, whatever others or an earlier process left under `/tmp`.
* `NoRollback` - no cluster goes back to an older commit of a branch.
* `ReadyDescribesSpec` - Ready is set for the spec that a reconciliation saw.
* `ReadyMeansPresent` - with nobody deleting resources, Ready is set only when every
  listed cluster has every resource.
* `NoLostWakeup` - a change of the object, or of the clusters of its own namespace, under a
  running reconciliation leaves its key in the queue.
* `NoLeakedDirectory`, `CloneAuthWorks` - the directory is removed on every path, panics
  included; the clone gets a credential the server accepts.
* `Converges` - once the environment calms down, deployable objects are Ready with the
  latest commit everywhere.
* `PassesGoOn`, `PollsGoOn` - the progress that `PreviewEnvironments` assumes of the two controllers
  (Fairness, below). A mutant of `Apply` that never updates a resource breaks the first, one of the loop over the
  pull requests that stops at the first failure the second.
* `OwnBranch` - a generated proxy names the branch of its own pull request.
* `Punctual` - an idle generator never sleeps past its next poll.
* `EveryPullRequestProxied` - every open pull request gets its proxy, whatever stands in
  the way of another. It has to pass the filters, and all open requests have to fit the first page:
  which ones an overfull page leaves out (`provider_client.go:39`) may change from poll to poll, so that nothing is promised of any.
* `KeepsPolling` - a generator whose provider answers is polled again and again, whatever
  its interval.
* `ImplementsRollout`, `ImplementsPreviews` - the controllers implement the abstract
  specifications.
* `OnlyProposedCode` - what reaches a cluster comes from a branch that was put up for
  review in the repository it comes from.
* `EnvironmentFollows` - once the environment calms down, every cluster of the template
  runs the newest commit of every open pull request that is filtered in, fits the page, has no
  rival and no obstacle (`Awaits`). The conditions are real, and TLC finds the property violated without `Unrivalled`, without
  `Pollable` or without the one on kubeconfigs. Two proxies that emit the same resource
  for one cluster overwrite each other for ever (`resourcer.go:50`, one field
  manager, forced), and the proxy of a closed pull request stays a rival, since nobody
  deletes it; one selected cluster without a kubeconfig can keep the others from every pass.
* `ClosedIsCleanedUp` - what the documentation promises and the code does not keep: the proxy of a pull
  request that stays closed does not stay.
* `SynthesisIsSelection` - synthesis fails exactly when something it has to read is missing or
  broken, and otherwise returns every resource of every selected file, in a fixed order.

### Fairness

`ProxyReconciler!Fairness`: a worker that holds a key goes on; the watch delivers; back-off
timers and the resync (`SyncPeriod`, 10 minutes in `config/manager/manager.yaml`) fire;
a queued key is taken in the end (strong fairness: the queue serves keys in turn, so a
key cannot be passed over for ever although the one worker is busy again and again).
`GeneratorReconciler!Fairness`: the same, and time passes and the garbage collector works.
Nothing is assumed of users, the Git server or the clusters: their budgets run out.

`PreviewEnvironments!Fairness` speaks of the steps of the two abstract specifications, and
most of them are outcomes in the code: a resource is applied, a proxy is written. They are therefore assumed only where
nothing outside the manager is in the way at the time. `Clear(p)`: every selected cluster has a usable kubeconfig (one
without ends `Apply`'s loop for the others too, `resourcer.go:40-44`), and the repository can be read, its branch
synthesizes and every kind has a served plural (`resourcer.go:52-56`); it is the counterpart of `Deployable`. `Pollable(g)`: the Secret is there and the
provider answers (`generator_controller.go:88-127`). Each assumption is a property of a detailed model that TLC checks,
stated on the steps of the refinement mapping:

| Assumed of the composition | Checked of the controller |
|---|---|
| a pollable generator polls (weak) | `KeepsPolling` in `previews` |
| a poll gets on, and what can be written in poll after poll is written (strong: a conflict, a lost answer or a stale cache spoils one poll) | `PollsGoOn` in `previews` |
| the proxy's cache catches up, passes end, a clear proxy is reconciled again and again, its passes aim at its clusters and put what can be put time and again (strong: a failing call, a leftover directory or a restart spoils one pass) | `PassesGoOn` in `converge` |

`PassesGoOn` and `PollsGoOn` are checked on instances and under the fairness of the detailed models; that
this carries over to the composition is not a theorem (section 4).

### Where the code and its documentation disagree

Each is a run that TLC ends with a counterexample (`findings` in `PROJECT.json`):

| Run | Statement | What happens |
|---|---|---|
| `optional_secret` | `SecretIsOptional` | a proxy without `secretRef` is given up before the access check, public repository or not |
| `failure_recorded` | `FailureIsRecorded` | conditions of failed steps are never stored |
| `ready_applied` | `ReadyMeansApplied` | a failed apply goes unnoticed; Ready is set with the old commit deployed |
| `closed_cleanup` | `ClosedIsCleanedUp` | a pull request gets its proxy and is closed; the generator polls for ever and the proxy stays |

Others show without a run, in a definition or a short behaviour of a model:

* `filters[].branchMatch` is documented as a regular expression
  (`cdk8sappproxygenerator_types.go:25`) and compared with `==`
  (`generator_controller.go:162`, `Passes`).
* The proxies written by a first poll wake the generator (`Owns`) before the cache shows
  the new `LastPolledTime`; it polls again at once (`generator_controller.go:80`). This does no harm to the
  proxies, and no property forbids it.
* An SSH key passes the access check of a source and is then sent to the provider as a
  token header (`provider_client.go:41-60`); the listing is refused (`Answers`).
* A reference may be a tag or a hash by the documentation (`cdk8sappproxy_types.go:31-32`)
  and is always cloned as a branch (`git.go:109`); an empty one is documented to become
  `main`, which only the mutating webhook does, and that is not registered in
  `config/webhook/manifests.yaml`.
* The branch of a pull request from a fork is looked for in the repository it is
  made to (`provider_client.go:132`).
* A kustomization named `Kustomization` is not found, and what lies in a kustomization's
  list is read as a manifest even if it is a directory or another kustomization.

## 4. What is proved

The assumptions on the constants are the `ASSUME`s of `GitAccess`, `ProxyReconciler`,
`GeneratorReconciler`, `PreviewEnvironments` and `Synthesizer`, which TLC evaluates for every
run of those modules; `DirectoriesApart`, `SourcesDistinct` and `SelectorsParse` are hypotheses of the theorems that need
them. There is no bound on the numbers of workers, proxies, clusters, resources, pull requests or failures in any theorem.

`ProxyReconcilerProofs`: `TypeCorrect`, `Spec => []TypeOK`. `TypeOK` carries, besides the sets, which locals are
set at which point of `Reconcile`; it is inductive as it stands. One lemma per action.

`ProxyReconcilerSafety`: `IsolationCorrect`, `NoRollbackCorrect` and
`NoLeakedDirectoryCorrect`, from `TypeOK` and

* `IsolationInv` - one worker per proxy (the queue's exclusion), and what a worker holds,
  be it the clone in its directory or the parsed resources, comes from its object's
  repository and branch. `Isolation` alone is not inductive: between clone and synthesis
  the commit is only in the directory, where another worker could replace it. That it
  cannot rests on the assumption `DirectoriesApart`, which dash-joined names can break
  (namespace `b`, name `c-a` and namespace `b-c`, name `a`): the directories of two proxies are neither the same nor
  one inside the other. Those of one proxy may be, when its branch is edited from `main` to `main/x`.
* `FreshnessInv` - nothing deployed is newer than the branch's head, nor than what a
  worker of the same source holds. It needs `SourcesDistinct`: two proxies that deploy
  one branch of one repository to one cluster can roll each other back.
* `DashesAgree` - where `DirectoriesApart` comes from: if all namespaces have equally
  many dashes, and all names, no two proxies share a directory or have one inside the other's, whatever
  their branches are called (`DashesKeepDirectoriesApart`). The proxies of one generator
  (`<generator>-pr-<number>`) are of this kind, so that they are isolated without an assumption on directories
  (`IsolationOfPlainNames`). `KeysDistinct` is what Kubernetes guarantees of namespace and name.
* `LeakInv` - `NoLeakedDirectory`, and the budget of crashes only shrinks. A directory is
  made and removed by a worker that has it as its own, and between the two no step changes
  the worker's key or reference. No distinctness is needed: a directory shared by two
  workers is still some worker's.

`ProxyReconcilerStatus`: `CloneAuthCorrect`, `ReadyDescribesSpecCorrect`,
`NoLostWakeupCorrect`, `ReadyMeansPresentCorrect` and `FailuresAreNeverStored`, from `TypeOK` and

* `AuthInv` - at the access check a worker has a fetched credential; `AccessGivesClone`
  is the pure fact behind it: the transport of the `List` call that succeeded is the one
  `Clone` builds.
* `VersionInv` - every copy of an object, cached or in a worker's hands, is older than the
  next `resourceVersion`, and the stored object has a copy's version only with the copy's
  spec. With `IsolationInv` (hence `DirectoriesApart`) the synthesized commit is of
  that spec's branch.
* `WakeInv` - `NoLostWakeup`, and a worker's copy that has the cached version has the
  cached spec: the mapper decides by the cached selector whether a cluster concerns a
  proxy, the worker has listed the clusters by its own. With an unparsable selector in the
  namespace the mapper gives up (`controller.go:223`) and the property fails, hence
  `SelectorsParse`; `Converges` shows that the resync makes up for it.
* `PresentInv` - what `Check` has visited so far is there unless `missing` is set, and a
  copy that says Ready and has the stored version is Ready in the store (`Tells`). Without
  the second part the update of an old Ready copy could declare an object ready again
  whose `Check` found something missing.
* `CleanInv` - a copy that is not on its way out has no False condition. So none is ever
  stored, whatever fails: what `failure_recorded` shows of one instance is so in all.

`ProxyRolloutProofs`: `RolloutImplemented`, `DirectoriesApart /\ Spec =>
ImplementsRollout`. One lemma for each step of `Rollout` that a step of the controller can be, then one per
action; `Sight` is proved of all steps at once, since specs only travel from the store to the
cache and from there to a worker (`SpecTravels`). Besides the invariants above it takes

* `LoopInv` - a loop stays among the clusters it listed, so that an apply is a `Put` to a
  target of the pass;
* `ReadyInv` - a worker that holds the stored version of a Ready object has not forgotten that
  it is Ready, so that a status update of a failed check is an `Abandon` and takes no Ready back.

`ReadyStaysCorrect` follows from the refinement: an object that has been declared Ready stays so until it is
deleted, through failing reconciliations, edits and new commits. Together with `FailuresAreNeverStored` it says what the Ready
condition of this controller means: that the object was deployed once.

`GeneratorReconcilerProofs`: `GeneratorTypeCorrect`, `OwnBranchCorrect` and `PunctualCorrect`.
`TypeOK` is inductive; besides the sets it says that a cached copy not marked stale is the stored
object, on which the conflict checks of the model rest. The other two take

* `BranchInv` - what a worker still has to do is pull requests of its generator's
  repository, and what it holds rendered says the branch of the pull request in hand.
  `OwnBranch` alone says nothing of a proxy about to be written.
* `PunctualInv` - the key is queued for the poll, or the worker that took it is at `Wait`
  with the same time to go. `Punctual` alone says nothing of a generator in a worker's
  hands. No assumption on intervals, retries or the number of failures is made.

`GeneratorPreviewsProofs`: `PreviewsImplemented`, `Spec => ImplementsPreviews`, from
`TypeOK`, `BranchInv` and `HandsFit`: the proxy in a worker's hands is of the repository, the
template and the filters of the spec that the worker still holds, although rendering writes
into that very spec. `RepositoryStaysCorrect` follows from it: a generated proxy names one repository for as long as it lives.

`PreviewEnvironmentsProofs`: `OnlyProposedCodeOfBoth`, `P!Spec /\ R!Spec /\ Proposals =>
[]OnlyProposedCode`: any two controllers of which the one keeps `Previews` and the other
`Rollout`, joined only in that the specs the one wants are the proxies the other wrote, deploy nothing but
proposed code. It assumes no interleaving: a step of the conjunction may be one of each at
once. `RolloutImplemented` and `PreviewsImplemented` say that the two detailed models are such
controllers. `AllBacked` follows a deployed commit back through the pass that
brought it, the specs that may be read, the stored proxy and the page of the poll that wrote
it, to the pull request that was open. Nothing shorter is inductive, since each of these may be the only
witness left: the pull request may be closed, the proxy discarded and the poll over while the
pass still applies. `EnvironmentIsBoth`, `Spec => P!Spec /\ R!Spec /\ Proposals`, shows by one lemma per
action that `PreviewEnvironments` is such a pair, so that the theorem is not about nothing and
what `EnvironmentFollows` is checked on is a behaviour of both specifications. `OnlyProposedCodeCorrect` is the two together.

`SynthesizerProofs`: `SynthesizerTypeCorrect` and `SynthesisIsSelectionCorrect`, from
`SelectionInv`: what each loop has collected so far (kustomizations and manifests of the walk, files of the
kustomizations, resources of the files, objects of a file) is what the reference definition gives for the
prefix of the sequence it has walked over. `TypeOK` is not inductive without the part of it that
says how long the file in hand is: the position in it is bounded by nothing else.
The reference definition is a `FlattenSeq`, of which the proof needs that one more element
appends that element's sequence. This takes an induction over the naturals; `NatSetInduction` states it
for sets, from the well-foundedness of `<`, because the induction theorems of the library take an operator.
The assumption on the constants (`SynthesizerConstants`) types `Walk` and the contents of `Dists`.

Only model-checked: liveness (`Converges`, `PassesGoOn`, `EveryPullRequestProxied`, `KeepsPolling`, `PollsGoOn`,
`EnvironmentFollows`), since the proof system handles neither ENABLED nor fairness. Every safety
property that a run checks is a theorem. What no theorem says is that the detailed models of the two
controllers, put side by side, share their proxies: `OnlyProposedCodeOfBoth` takes it as the substitution of
`Wanted` for Rollout's `wanted`.

## 5. Not modelled, and why

* `npm` and `cdk8s` (external processes: they fail or leave files).
* `Poll`, `Hash`, `localHash`, `remoteHash` (`git.go`): no controller and no test
  calls them, so there is no protocol to check. Read as they stand, `remoteHash` wants a
  credential for public repositories too, and a branch that was deleted has the empty
  hash, which counts as a change.
* The URLs, headers and JSON of the three providers (`provider_client.go`): formats
  whose only effect on the controllers is whether a page of pull requests comes back.
* `Default` of the webhook: not registered (`config/webhook/manifests.yaml` has the
  validating webhook only), so nothing calls it; `ValidateCreate` refuses
  only an empty URL, which no model has, and `ValidateDelete` refuses nothing.
  `ValidateUpdate` is in the guards of the models.
* Pull requests from forks: who owns the head branch does not reach the controllers.
* Deep copies (generated), flags, TLS, metrics, health checks; leader election (one active
  manager is assumed: one replica with `--leader-elect`); release scripts and the e2e harness.
* `examples/`: sample applications with generated API bindings, by far the largest part of
  the Go code of the repository and no part of the controllers.
* Removal of deployed resources: there is none in the code, so none in the model.

## 6. Plan

Done: `GitAccess`, both reconcilers, their runs, the safety proofs, both refinements and
their proofs, the composition and its proof, `Synthesizer` and its proof.

Worth adding next, in this order: the two detailed models side by side in one module, so that the
theorems of section 4 about each controller and about their composition are joined in one statement
(today a reader joins them: each detailed model implements one side of `PreviewEnvironments`, and
the composition theorem is about those sides); a clock in `PreviewEnvironments`, to say how old a deployed
commit can get; the composition with several managers, should leader election ever be relaxed;
`Poll` and `Hash`, if a controller comes to call them; removal of deployed resources, if the code
comes to do it (the place for it is an action of `Rollout`).
