------------------------- MODULE GeneratorReconciler -------------------------
(***************************************************************************)
(* The Cdk8sAppProxyGenerator controller: when a generator's poll is due it *)
(* lists the open pull requests of its source repository and creates or     *)
(* updates one Cdk8sAppProxy for each that passes the filters; then it      *)
(* records the time and asks to be called again one interval later.         *)
(*                                                                         *)
(* Time is kept as ages: a time of day only ever occurs in the comparison   *)
(* of LastPolledTime + pollInterval with now, so every copy of an object    *)
(* carries the ticks since its LastPolledTime, up to Horizon. A tick is a   *)
(* second, the resolution LastPolledTime is stored with.                    *)
(* A resourceVersion is only ever compared with the stored object's, so it  *)
(* is kept as whether a copy is still current.                              *)
(* The work queue gives a key to one worker at a time: what a worker holds  *)
(* is indexed by the generator it reconciles.                               *)
(***************************************************************************)
EXTENDS GitAccess, FiniteSets

CONSTANTS
  Generators,     \* names of Cdk8sAppProxyGenerator objects
  Numbers,        \* pull request numbers
  Branches,       \* branch names: heads and bases of pull requests
  BranchMatches,  \* values of filters[].branchMatch, "" excepted
  Templates,      \* what spec.template holds besides gitRepository
  PullRequests,   \* [Urls -> SUBSET PullRequest], those that may be opened
  GeneratorSpecs, \* [Generators -> SUBSET GeneratorSpec], what users write
  Listable,       \* URLs of a known provider, in a form parseRepoURL accepts
  PageSize,       \* pull requests on one page of a provider's answer
  SecretStates, InitSecret, InitOpen, \* the environment at the start
  Horizon,        \* ages are counted up to here
  RetrySteps,     \* attempts of RetryOnConflict
  Budgets,        \* SUBSET [Kinds -> Nat], how often the environment acts: one of these
  None            \* no value

PullRequest == [number : Numbers, branch : Branches, base : Branches]

(* tmplGit and tmplRef: the template has a gitRepository, and its reference *)
(* (None if empty). interval is the poll interval, its default filled in.   *)
GeneratorSpec ==
  [url : Urls, secretRef : BOOLEAN, filters : SUBSET (BranchMatches \cup {""}),
   template : Templates, tmplGit : BOOLEAN, tmplRef : Branches \cup {None},
   interval : 0..Horizon]

Ages == 0..Horizon

(* lastPolled is the age of status.lastPolledTime, None before the first    *)
(* poll; uid tells an object from its successor of the same name.           *)
Generator == [spec : GeneratorSpec, uid : Nat, lastPolled : Ages \cup {None}]

(* owner is the uid in the controller reference.                            *)
Proxy == [url : Urls, ref : Branches, template : Templates, owner : Nat]

(* Every pull request there may ever be.                                   *)
Requests == UNION {PullRequests[u] : u \in Urls}

Rendering == [url : Urls, ref : Branches, template : Templates]

Hands == [pr : Requests, spec : Rendering,
          existing : Proxy \cup {None}, current : BOOLEAN]

Kinds == {"edit", "pr", "secret", "proxy", "crash", "fault"}

PCs == {"idle", "wait", "secret", "access", "list", "pr", "create", "update", "done"}

ASSUME GeneratorReconcilerConstants ==
  /\ Horizon \in Nat /\ RetrySteps \in Nat \ {0} /\ PageSize \in Nat \ {0}
  /\ PullRequests \in [Urls -> SUBSET PullRequest]
  /\ GeneratorSpecs \in [Generators -> SUBSET GeneratorSpec]
  /\ Listable \subseteq Urls
  /\ SecretStates \subseteq Secrets
  /\ InitSecret \in SecretStates
  /\ InitOpen \in [Urls -> SUBSET PullRequest]
  /\ \A u \in Urls : InitOpen[u] \subseteq PullRequests[u]
  /\ Budgets \subseteq [Kinds -> Nat]
  /\ "" \notin BranchMatches \cup Branches
  /\ None \notin Generator /\ None \notin Proxy /\ None \notin Nat /\ None \notin Branches
  /\ None \notin Hands

VARIABLES
  gens,      \* generators in the API server
  nextUid,   \* the uid the next generator gets
  gcache,    \* the informer cache's generators
  gstale,    \* names of which the cache does not show the latest version
  proxies,   \* the generated Cdk8sAppProxy objects, by generator and number
  pcache,    \* the informer cache's proxies
  pstale,    \* <<g, n>> of which the cache does not show the latest version
  open,      \* Git provider: open pull requests
  secret,    \* the credential Secret
  due,       \* work queue: ticks until a key is ready, None if it is not queued
  pc,        \* per generator being reconciled: next interaction
  obj,       \* the in-memory generator
  cred,      \* secretRef, the fetched credential
  todo,      \* pull requests still to be processed
  hand,      \* the pull request in hand, its proxy.Spec, existingProxy, whether that is current
  attempts,  \* of RetryOnConflict
  sinceList, \* ticks since the provider was last asked (history)
  left       \* environment actions left

store   == <<gens, nextUid, proxies>>
caches  == <<gcache, gstale, pcache, pstale>>
locals  == <<obj, cred, todo, hand, attempts>>
world   == <<open, secret>>
vars    == <<gens, nextUid, gcache, gstale, proxies, pcache, pstale, open, secret, due,
             pc, obj, cred, todo, hand, attempts, sinceList, left>>

Spend(kind) == left[kind] > 0 /\ left' = [left EXCEPT ![kind] = @ - 1]

(* A running reconciliation has its object; the pull request in hand has    *)
(* not been dropped from the list.                                          *)
WorkerShape(g) ==
  /\ pc[g] = "idle" <=> obj[g] = None
  /\ pc[g] \in {"create", "update"} <=> hand[g] # None
  /\ hand[g] # None => hand[g].pr \in todo[g]
  /\ pc[g] = "update" => hand[g].existing # None

(* A copy that is current is the stored object.                             *)
CacheShape(g) ==
  /\ g \notin gstale => gcache[g] = gens[g]
  /\ \A n \in Numbers : <<g, n>> \notin pstale => pcache[g][n] = proxies[g][n]

(* Every variable stays in its set (the key of a generator is ready, waits  *)
(* or is out of the queue), and what a worker holds and what a cache shows  *)
(* fit together.                                                            *)
TypeOK ==
  /\ gens \in [Generators -> Generator \cup {None}]
  /\ nextUid \in [Generators -> Nat]
  /\ gcache \in [Generators -> Generator \cup {None}] /\ gstale \subseteq Generators
  /\ proxies \in [Generators -> [Numbers -> Proxy \cup {None}]]
  /\ pcache \in [Generators -> [Numbers -> Proxy \cup {None}]]
  /\ pstale \subseteq Generators \X Numbers
  /\ open \in [Urls -> SUBSET Requests]
  /\ secret \in SecretStates
  /\ due \in [Generators -> Ages \cup {None}]
  /\ pc \in [Generators -> PCs]
  /\ obj \in [Generators -> Generator \cup {None}]
  /\ cred \in [Generators -> Credentials]
  /\ todo \in [Generators -> SUBSET Requests]
  /\ hand \in [Generators -> Hands \cup {None}]
  /\ attempts \in [Generators -> 0..RetrySteps]
  /\ sinceList \in [Generators -> Ages]
  /\ left \in [Kinds -> Nat]
  /\ \A g \in Generators : WorkerShape(g) /\ CacheShape(g)

Init ==
  /\ gens = [g \in Generators |-> None] /\ gcache = gens /\ gstale = {}
  /\ nextUid = [g \in Generators |-> 1]
  /\ proxies = [g \in Generators |-> [n \in Numbers |-> None]] /\ pcache = proxies
  /\ pstale = {}
  /\ open = InitOpen /\ secret = InitSecret
  /\ due = [g \in Generators |-> None]
  /\ pc = [g \in Generators |-> "idle"] /\ obj = [g \in Generators |-> None]
  /\ cred = [g \in Generators |-> "empty"] /\ todo = [g \in Generators |-> {}]
  /\ hand = [g \in Generators |-> None] /\ attempts = [g \in Generators |-> 0]
  /\ sinceList = [g \in Generators |-> Horizon]
  /\ left \in Budgets

-----------------------------------------------------------------------------
(* The work queue: one entry per key, ready at the earliest time anyone     *)
(* asked for.                                                               *)
Earlier(a, b) == IF a = None \/ b < a THEN b ELSE a

Queued(q, g, after) == [q EXCEPT ![g] = Earlier(@, after)]

(* RequeueAfter: zero or less is no request at all.                         *)
AddAfter(g, after) == due' = IF after > 0 THEN Queued(due, g, after) ELSE due

(* An error: the rate limiter chooses the delay.                            *)
AddRateLimited(g) == \E after \in 1..Horizon : due' = Queued(due, g, after)

(* The watch delivers the latest version; For() queues the key.             *)
GeneratorSync(g) ==
  /\ g \in gstale
  /\ gcache' = [gcache EXCEPT ![g] = gens[g]]
  /\ gstale' = gstale \ {g}
  /\ due' = IF gcache[g] = None /\ gens[g] = None THEN due ELSE Queued(due, g, 0)
  /\ UNCHANGED <<store, pcache, pstale, world, pc, locals, sinceList, left>>

(* Owns() queues the owner by its name, whatever changed in the proxy.      *)
ProxySync(g, n) ==
  /\ <<g, n>> \in pstale
  /\ pcache' = [pcache EXCEPT ![g][n] = proxies[g][n]]
  /\ pstale' = pstale \ {<<g, n>>}
  /\ due' = IF pcache[g][n] = None /\ proxies[g][n] = None THEN due ELSE Queued(due, g, 0)
  /\ UNCHANGED <<store, gcache, gstale, world, pc, locals, sinceList, left>>

MutantResync(g) == g \in {} /\ UNCHANGED vars

Resync(g) ==
  /\ gcache[g] # None /\ due[g] # 0
  /\ due' = Queued(due, g, 0)
  /\ UNCHANGED <<store, caches, world, pc, locals, sinceList, left>>

Older(age) == IF age = None THEN None ELSE IF age < Horizon THEN age + 1 ELSE age

Aged(objects) ==
  [g \in Generators |-> IF objects[g] = None THEN None
                        ELSE [objects[g] EXCEPT !.lastPolled = Older(@)]]

(* Time passes for the objects' timestamps and for the queue alike.         *)
Tick ==
  /\ gens' = Aged(gens) /\ gcache' = Aged(gcache) /\ obj' = Aged(obj)
  /\ due' = [g \in Generators |-> IF due[g] \in {None, 0} THEN due[g] ELSE due[g] - 1]
  /\ sinceList' = [g \in Generators |-> Older(sinceList[g])]
  /\ UNCHANGED <<nextUid, gstale, proxies, pcache, pstale, world, pc, cred, todo, hand,
                 attempts, left>>

-----------------------------------------------------------------------------
(* Reconcile.                                                               *)
Url(g) == obj[g].spec.url

(* Leaving Reconcile: nothing of the reconciliation is kept.                *)
Leave(g) ==
  /\ pc' = [pc EXCEPT ![g] = "idle"] /\ obj' = [obj EXCEPT ![g] = None]
  /\ cred' = [cred EXCEPT ![g] = "empty"] /\ todo' = [todo EXCEPT ![g] = {}]
  /\ hand' = [hand EXCEPT ![g] = None] /\ attempts' = [attempts EXCEPT ![g] = 0]

Goto(g, to) == pc' = [pc EXCEPT ![g] = to]

(* time.Until(nextPoll), of a copy of the generator; 0 if it is not later.  *)
Remaining(gen) ==
  IF gen.lastPolled = None \/ gen.lastPolled >= gen.spec.interval THEN 0
  ELSE gen.spec.interval - gen.lastPolled

(* A reconciler that goes on with an empty generator when Get finds none.   *)
MutantGet(g) ==
  /\ pc[g] = "idle" /\ due[g] = 0
  /\ due' = [due EXCEPT ![g] = None]
  /\ obj' = [obj EXCEPT ![g] = gcache[g]]
  /\ Goto(g, "secret")
  /\ UNCHANGED <<store, caches, world, cred, todo, hand, attempts, sinceList, left>>

(* A worker takes the key, gets the generator from the cache and looks at   *)
(* the clock.                                                               *)
Get(g) ==
  /\ pc[g] = "idle" /\ due[g] = 0 /\ gcache[g] # None
  /\ due' = [due EXCEPT ![g] = None]
  /\ obj' = [obj EXCEPT ![g] = gcache[g]]
  /\ Goto(g, IF Remaining(gcache[g]) > 0 THEN "wait" ELSE "secret")
  /\ UNCHANGED <<store, caches, world, cred, todo, hand, attempts, sinceList, left>>

(* Not found is an error as well: the key of a deleted generator stays.     *)
GetNotFound(g) ==
  /\ pc[g] = "idle" /\ due[g] = 0 /\ gcache[g] = None
  /\ \E after \in 1..Horizon : due' = [due EXCEPT ![g] = after]
  /\ UNCHANGED <<store, caches, world, pc, locals, sinceList, left>>

(* A reconciliation that forgets to ask for the poll it is too early for.   *)
MutantWait(g) ==
  /\ pc[g] = "wait"
  /\ Leave(g)
  /\ UNCHANGED <<store, caches, world, due, sinceList, left>>

(* Too early. The clock is read again for RequeueAfter, and may have gone   *)
(* past the poll meanwhile: then nothing is requested.                      *)
Wait(g) ==
  /\ pc[g] = "wait"
  /\ AddAfter(g, Remaining(obj[g]))
  /\ Leave(g)
  /\ UNCHANGED <<store, caches, world, sinceList, left>>

Fail(g) == Leave(g) /\ AddRateLimited(g)

FetchSecretRef(g) ==
  LET fetched == FetchSecret([secretRef |-> obj[g].spec.secretRef], secret) IN
  /\ pc[g] = "secret"
  /\ \/ fetched.err /\ Fail(g)
     \/ /\ ~fetched.err
        /\ cred' = [cred EXCEPT ![g] = fetched.val]
        /\ Goto(g, "access")
        /\ UNCHANGED <<obj, todo, hand, attempts, due>>
  /\ UNCHANGED <<store, caches, world, sinceList, left>>

(* The access check of the proxies' reconciler, without known_hosts.        *)
CheckRepository(g) ==
  \E up1, up2 \in BOOLEAN :
    LET a == CheckAccess(Url(g), cred[g], "nil", up1, up2) IN
    /\ pc[g] = "access"
    /\ IF up1 /\ up2 THEN UNCHANGED left ELSE Spend("fault")
    /\ \/ /\ a.err \/ (a.requiresAuth /\ cred[g] = "empty") \/ ~a.accessible
          /\ Leave(g)
          /\ IF a.err THEN AddRateLimited(g) ELSE UNCHANGED due
       \/ /\ ~a.err /\ a.accessible /\ ~(a.requiresAuth /\ cred[g] = "empty")
          /\ Goto(g, "list")
          /\ UNCHANGED <<obj, cred, todo, hand, attempts, due>>
    /\ UNCHANGED <<store, caches, world, sinceList>>

(* The provider's API takes the credential as a token in a header; a PEM    *)
(* key, having line breaks, is no header value.                             *)
Answers(url, credential) ==
  /\ url \in Listable
  /\ \/ credential = "token"
     \/ credential = "empty" /\ RemoteWants[url] = "nothing"

(* Only the first page of the answer is read; which pull requests are on it *)
(* is the provider's choice.                                                *)
FitsOnePage(prs) == Cardinality(prs) <= PageSize

FirstPages(prs) ==
  IF FitsOnePage(prs) THEN {prs}
  ELSE {page \in SUBSET prs : Cardinality(page) = PageSize}

ListPullRequests(g) ==
  /\ pc[g] = "list"
  /\ \/ /\ Answers(Url(g), cred[g])
        /\ \E page \in FirstPages(open[Url(g)]) : todo' = [todo EXCEPT ![g] = page]
        /\ Goto(g, "pr")
        /\ sinceList' = [sinceList EXCEPT ![g] = 0]
        /\ UNCHANGED <<obj, cred, hand, attempts, due, left>>
     \/ /\ IF Answers(Url(g), cred[g]) THEN Spend("fault") ELSE UNCHANGED left
        /\ Fail(g)
        /\ UNCHANGED sinceList
  /\ UNCHANGED <<store, caches, world>>

-----------------------------------------------------------------------------
(* reconcilePR.                                                             *)

(* A match flag that starts as true.                                        *)
MutantPasses(pr, spec) == TRUE

(* branchMatch, documented as a regular expression, is compared; the empty  *)
(* one lets all through.                                                    *)
Passes(pr, spec) ==
  spec.filters = {} \/ \E f \in spec.filters : f = "" \/ f = pr.base

Skip(g) ==
  \E pr \in todo[g] :
    /\ pc[g] = "pr" /\ ~Passes(pr, obj[g].spec)
    /\ todo' = [todo EXCEPT ![g] = @ \ {pr}]
    /\ UNCHANGED <<store, caches, world, due, pc, obj, cred, hand, attempts, sinceList, left>>

MutantReference(gen, pr) == IF gen.spec.tmplRef = None THEN pr.branch ELSE gen.spec.tmplRef

(* The reference a proxy is given, whatever the template has.               *)
Reference(gen, pr) == pr.branch

(* What the proxy of a pull request is to say. Only the repository and the  *)
(* branch are set per pull request; the rest is the template's.             *)
Rendered(gen, pr) ==
  [url |-> gen.spec.url, ref |-> Reference(gen, pr), template |-> gen.spec.template]

(* Rendering assigns through the template's own gitRepository pointer, if   *)
(* the template has one: the next pull request starts from what this one    *)
(* has left there.                                                          *)
RenderAndGet(g) ==
  \E pr \in todo[g] :
    LET existing == pcache[g][pr.number] IN
    /\ pc[g] = "pr" /\ Passes(pr, obj[g].spec)
    /\ hand' = [hand EXCEPT ![g] = [pr |-> pr, spec |-> Rendered(obj[g], pr),
                                    existing |-> existing,
                                    current |-> <<g, pr.number>> \notin pstale]]
    /\ obj' = IF obj[g].spec.tmplGit
              THEN [obj EXCEPT ![g].spec.tmplRef = Reference(obj[g], pr)] ELSE obj
    /\ Goto(g, IF existing = None THEN "create" ELSE "update")
    /\ UNCHANGED <<store, caches, world, due, cred, todo, attempts, sinceList, left>>

(* An error of reconcilePR is logged, and the next pull request follows.    *)
MutantRest(g, err) == IF err THEN {} ELSE todo[g] \ {hand[g].pr}

Rest(g, err) == todo[g] \ {hand[g].pr}

Processed(g, err) ==
  /\ todo' = [todo EXCEPT ![g] = Rest(g, err)]
  /\ hand' = [hand EXCEPT ![g] = None]
  /\ Goto(g, "pr")

(* A write of a proxy; one that changes nothing is no write.                *)
WriteProxy(g, n, new) ==
  /\ proxies' = [proxies EXCEPT ![g][n] = new]
  /\ pstale' = IF new = proxies[g][n] THEN pstale ELSE pstale \cup {<<g, n>>}

Owned(spec, owner) ==
  [url |-> spec.url, ref |-> spec.ref, template |-> spec.template, owner |-> owner]

(* The validating webhook refuses no rendered proxy: a listed source has a  *)
(* URL. A proxy the cache does not show yet makes Create fail.              *)
Create(g) ==
  LET n == hand[g].pr.number IN
  /\ pc[g] = "create"
  /\ \/ /\ proxies[g][n] = None
        /\ WriteProxy(g, n, Owned(hand[g].spec, obj[g].uid))
        /\ \/ Processed(g, FALSE) /\ UNCHANGED left
           \/ Processed(g, TRUE) /\ Spend("fault")   \* created, the answer is lost
     \/ /\ IF proxies[g][n] = None THEN Spend("fault") ELSE UNCHANGED left
        /\ Processed(g, TRUE)
        /\ UNCHANGED <<proxies, pstale>>
  /\ UNCHANGED <<gens, nextUid, gcache, gstale, pcache, world, due, obj, cred, attempts,
                 sinceList>>

(* Optimistic concurrency, and the webhook's immutable URL.                 *)
Updatable(g) ==
  LET n == hand[g].pr.number IN
  /\ proxies[g][n] # None /\ hand[g].current
  /\ hand[g].spec.url = proxies[g][n].url

(* The existing object keeps its controller reference.                      *)
Update(g) ==
  LET n == hand[g].pr.number IN
  /\ pc[g] = "update"
  /\ \/ /\ Updatable(g)
        /\ WriteProxy(g, n, Owned(hand[g].spec, hand[g].existing.owner))
        /\ \/ Processed(g, FALSE) /\ UNCHANGED left
           \/ Processed(g, TRUE) /\ Spend("fault")
     \/ /\ IF Updatable(g) THEN Spend("fault") ELSE UNCHANGED left
        /\ Processed(g, TRUE)
        /\ UNCHANGED <<proxies, pstale>>
  /\ UNCHANGED <<gens, nextUid, gcache, gstale, pcache, world, due, obj, cred, attempts,
                 sinceList>>

-----------------------------------------------------------------------------
(* RetryOnConflict. Every attempt reads the generator from the cache again  *)
(* and writes its status with the current time.                             *)
WriteGenerator(g, new) ==
  /\ gens' = [gens EXCEPT ![g] = new]
  /\ gstale' = IF new = gens[g] THEN gstale ELSE gstale \cup {g}

Recording(g) == pc[g] = "pr" /\ todo[g] = {}

RecordPoll(g) ==
  /\ Recording(g)
  /\ gcache[g] # None /\ g \notin gstale
  /\ WriteGenerator(g, [gens[g] EXCEPT !.lastPolled = 0])
  /\ \/ Goto(g, "done") /\ UNCHANGED <<obj, cred, todo, hand, attempts, due, left>>
     \/ Fail(g) /\ Spend("fault")                       \* stored, the answer is lost
  /\ UNCHANGED <<nextUid, proxies, gcache, pcache, pstale, world, sinceList>>

RecordConflict(g) ==
  /\ Recording(g)
  /\ gcache[g] # None /\ g \in gstale /\ gens[g] # None
  /\ \/ /\ attempts[g] + 1 < RetrySteps
        /\ attempts' = [attempts EXCEPT ![g] = @ + 1]
        /\ UNCHANGED <<pc, obj, cred, todo, hand, due>>
     \/ attempts[g] + 1 = RetrySteps /\ Fail(g)
  /\ UNCHANGED <<store, caches, world, sinceList, left>>

(* Any other error ends the attempts at once.                               *)
RecordFails(g) ==
  /\ Recording(g)
  /\ IF gcache[g] # None /\ gens[g] # None THEN Spend("fault") ELSE UNCHANGED left
  /\ Fail(g)
  /\ UNCHANGED <<store, caches, world, sinceList>>

(* The next poll, in an interval of the generator that was read at first.   *)
Finish(g) ==
  /\ pc[g] = "done"
  /\ AddAfter(g, obj[g].spec.interval)
  /\ Leave(g)
  /\ UNCHANGED <<store, caches, world, sinceList, left>>

-----------------------------------------------------------------------------
(* The environment.                                                         *)

(* The manager's container is restarted: queue, caches and workers are gone. *)
Crash ==
  /\ Spend("crash")
  /\ gcache' = [g \in Generators |-> None]
  /\ gstale' = {g \in Generators : gens[g] # None}
  /\ pcache' = [g \in Generators |-> [n \in Numbers |-> None]]
  /\ pstale' = {x \in Generators \X Numbers : proxies[x[1]][x[2]] # None}
  /\ due' = [g \in Generators |-> None]
  /\ pc' = [g \in Generators |-> "idle"] /\ obj' = [g \in Generators |-> None]
  /\ cred' = [g \in Generators |-> "empty"] /\ todo' = [g \in Generators |-> {}]
  /\ hand' = [g \in Generators |-> None] /\ attempts' = [g \in Generators |-> 0]
  /\ UNCHANGED <<store, world, sinceList>>

CreateGenerator(g, s) ==
  /\ gens[g] = None /\ Spend("edit")
  /\ WriteGenerator(g, [spec |-> s, uid |-> nextUid[g], lastPolled |-> None])
  /\ nextUid' = [nextUid EXCEPT ![g] = @ + 1]
  /\ UNCHANGED <<proxies, gcache, pcache, pstale, world, due, pc, locals, sinceList>>

(* Generators have no webhook: any part of the spec may change.             *)
UpdateGenerator(g, s) ==
  /\ gens[g] # None /\ gens[g].spec # s /\ Spend("edit")
  /\ WriteGenerator(g, [gens[g] EXCEPT !.spec = s])
  /\ UNCHANGED <<nextUid, proxies, gcache, pcache, pstale, world, due, pc, locals, sinceList>>

DeleteGenerator(g) ==
  /\ gens[g] # None /\ Spend("edit")
  /\ WriteGenerator(g, None)
  /\ UNCHANGED <<nextUid, proxies, gcache, pcache, pstale, world, due, pc, locals, sinceList>>

(* A copy in a worker's hand is current no more.                            *)
Outdate(g, n) ==
  hand' = IF hand[g] # None /\ hand[g].pr.number = n
          THEN [hand EXCEPT ![g].current = FALSE] ELSE hand

RemoveProxy(g, n) ==
  /\ proxies[g][n] # None
  /\ WriteProxy(g, n, None) /\ Outdate(g, n)
  /\ UNCHANGED <<gens, nextUid, gcache, gstale, pcache, world, due, pc, obj, cred, todo,
                 attempts, sinceList>>

(* The garbage collector removes what an object that is gone controlled.    *)
GarbageCollect(g, n) ==
  /\ proxies[g][n] # None
  /\ gens[g] # None => gens[g].uid # proxies[g][n].owner
  /\ RemoveProxy(g, n) /\ UNCHANGED left

DeleteProxy(g, n) == RemoveProxy(g, n) /\ Spend("proxy")

(* The other reconciler writes the proxy's status: a new version.           *)
StatusWritten(g, n) ==
  /\ proxies[g][n] # None /\ Spend("proxy")
  /\ pstale' = pstale \cup {<<g, n>>} /\ Outdate(g, n)
  /\ UNCHANGED <<store, gcache, gstale, pcache, world, due, pc, obj, cred, todo, attempts,
                 sinceList>>

(* A pull request is opened; a number is open once.                         *)
OpenPullRequest(u, pr) ==
  /\ pr \in PullRequests[u] /\ \A other \in open[u] : other.number # pr.number
  /\ Spend("pr")
  /\ open' = [open EXCEPT ![u] = @ \cup {pr}]
  /\ UNCHANGED <<store, caches, secret, due, pc, locals, sinceList>>

ClosePullRequest(u, pr) ==
  /\ pr \in open[u] /\ Spend("pr")
  /\ open' = [open EXCEPT ![u] = @ \ {pr}]
  /\ UNCHANGED <<store, caches, secret, due, pc, locals, sinceList>>

SetSecret(s) ==
  /\ secret # s /\ Spend("secret")
  /\ secret' = s
  /\ UNCHANGED <<store, caches, open, due, pc, locals, sinceList>>

-----------------------------------------------------------------------------
WorkerStep(g) ==
  \/ Wait(g)            \/ FetchSecretRef(g)  \/ CheckRepository(g)
  \/ ListPullRequests(g)
  \/ Skip(g)            \/ RenderAndGet(g)    \/ Create(g)          \/ Update(g)
  \/ RecordPoll(g)      \/ RecordConflict(g)  \/ RecordFails(g)     \/ Finish(g)

Take(g) == Get(g) \/ GetNotFound(g)

Manager ==
  \E g \in Generators :
    \/ GeneratorSync(g) \/ Resync(g) \/ Take(g) \/ WorkerStep(g)
    \/ \E n \in Numbers : ProxySync(g, n)

Environment ==
  \/ \E g \in Generators :
       \/ \E s \in GeneratorSpecs[g] : CreateGenerator(g, s) \/ UpdateGenerator(g, s)
       \/ DeleteGenerator(g)
       \/ \E n \in Numbers : GarbageCollect(g, n) \/ DeleteProxy(g, n) \/ StatusWritten(g, n)
  \/ \E u \in Urls : \E pr \in PullRequests[u] : OpenPullRequest(u, pr) \/ ClosePullRequest(u, pr)
  \/ \E s \in SecretStates : SetSecret(s)
  \/ Crash

Next == Manager \/ Environment \/ Tick

Spec == Init /\ [][Next]_vars

(* Time passes, workers go on, the watches deliver, a ready key is taken,   *)
(* the cache is resynced and the garbage collector works.                   *)
Fairness ==
  /\ WF_vars(Tick)
  /\ \A g \in Generators :
       /\ WF_vars(GeneratorSync(g)) /\ WF_vars(Resync(g)) /\ WF_vars(Take(g))
       /\ WF_vars(WorkerStep(g))
       /\ \A n \in Numbers : WF_vars(ProxySync(g, n)) /\ WF_vars(GarbageCollect(g, n))

FairSpec == Spec /\ Fairness

-----------------------------------------------------------------------------
(* Properties.                                                              *)

(* Every proxy names the branch of a pull request of its own number and     *)
(* repository: rendering the pull requests of one poll into the one         *)
(* template they share carries nothing from one to the next, nor from the   *)
(* template's own reference (reconcilePR's overriding assignments).         *)
OwnBranch ==
  \A g \in Generators, n \in Numbers : proxies[g][n] # None =>
    \E pr \in PullRequests[proxies[g][n].url] :
      pr.number = n /\ pr.branch = proxies[g][n].ref

(* A generator nobody works on never sleeps past its next poll: unless the  *)
(* cache is behind, its key is in the queue for that moment at the latest,  *)
(* or the moment has come (RequeueAfter of both returns, the watch of the   *)
(* generator's own status, edits of the interval, the retries).             *)
Punctual ==
  \A g \in Generators :
    pc[g] = "idle" /\ gens[g] # None /\ g \notin gstale /\ Remaining(gens[g]) > 0
      => due[g] # None /\ due[g] <= Remaining(gens[g])

(* The provider would answer a poll of the generator.                       *)
Pollable(g) ==
  gens[g] # None /\
    LET s       == gens[g].spec
        fetched == FetchSecret([secretRef |-> s.secretRef], secret)
    IN /\ ~fetched.err
       /\ CheckAccess(s.url, fetched.val, "nil", TRUE, TRUE).accessible
       /\ Answers(s.url, fetched.val)

(* Once the environment has calmed down, a generator whose provider answers *)
(* is polled again and again, whatever its interval: one of zero requests   *)
(* no requeue, and a status written twice in a second is no event, so that  *)
(* only the cache's resync brings the next poll.                            *)
KeepsPolling == \A g \in Generators : []<>(Pollable(g) => sinceList[g] = 0)

(* Nothing outside the manager stands in the way of the pull request: not   *)
(* even a proxy of its number made for another repository, whose URL the    *)
(* webhook does not let anyone change.                                      *)
Wanted(g, pr) ==
  Pollable(g) /\
    LET s == gens[g].spec
    IN /\ pr \in open[s.url] /\ Passes(pr, s) /\ FitsOnePage(open[s.url])
       /\ proxies[g][pr.number] # None => proxies[g][pr.number].url = s.url

Proxied(g, pr) ==
  /\ proxies[g][pr.number] # None
  /\ proxies[g][pr.number] = Owned(Rendered(gens[g], pr), gens[g].uid)

(* Once the environment has calmed down, every open pull request that       *)
(* passes the filters has its proxy, as the generator now renders it and    *)
(* controlled by it, whatever conflicted, failed or crashed before and      *)
(* whatever stands in the way of another pull request.                      *)
EveryPullRequestProxied ==
  <>[](\A g \in Generators : \A pr \in Requests : Wanted(g, pr) => Proxied(g, pr))

-----------------------------------------------------------------------------
(* What documentation and comments say of the generator, stated to be       *)
(* compared with what it does.                                              *)

(* "Once my PR is merged and closed, the next poll cycle will notice [...]  *)
(* the associated Cdk8sAppProxy is deleted": a proxy of a pull request that *)
(* stays closed does not stay.                                              *)
ClosedIsCleanedUp ==
  \A g \in Generators, n \in Numbers :
    <>[]((gens[g] # None /\ (\A pr \in open[gens[g].spec.url] : pr.number # n))
           => proxies[g][n] = None)
=============================================================================
