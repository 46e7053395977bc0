--------------------------- MODULE ProxyReconciler ---------------------------
(***************************************************************************)
(* The Cdk8sAppProxy controller: workers take proxies from the controller's *)
(* work queue, read the object from the informer cache, fetch credentials,  *)
(* clone the repository into a directory under /tmp, synthesize, apply the  *)
(* manifests to every selected cluster, check them, and record readiness.   *)
(*                                                                         *)
(* One action is one interaction of Reconcile with something that others    *)
(* also change: the cache, a Secret, the Git server, the directory, a       *)
(* workload cluster, the API server. Everything between two interactions is *)
(* local to the worker and belongs to the action that precedes it.          *)
(***************************************************************************)
EXTENDS GitAccess, Sequences, FiniteSets

CONSTANTS
  Proxies,          \* namespaced names of Cdk8sAppProxy objects
  Workers,          \* MaxConcurrentReconciles goroutines
  Clusters,         \* Cluster API Cluster objects
  Labels,           \* label sets a Cluster may carry
  Refs,             \* values of spec.gitRepository.reference: path components of segments
  Resources,        \* resources that synthesis may emit
  Namespace, Name,  \* [Proxies -> Seq(segments)], the two halves of the object key
  ClusterNamespace, \* [Clusters -> Seq(segments)]
  ProxySpecs,       \* [Proxies -> SUBSET ProxySpec], what users write into each object
  Manifests,        \* [Urls -> Seq(Resources)], what synthesis emits, in order
  Kind, APIPlural,  \* the kind of a resource and the plural its API serves it under
  SecretStates,     \* what users store in the credential Secrets
  InitLabel, InitKube, InitHead, InitSecret, \* the environment the manager starts in
  Budget,           \* [Kinds -> Nat], how often the environment acts
  None, Gone        \* no value; a Cluster that was deleted

Git  == [url : Urls, ref : Refs, secretRef : BOOLEAN, knownHostsKey : BOOLEAN]
ProxySpec == [git : Git, sel : SUBSET Labels, selValid : BOOLEAN]
Object == [spec : ProxySpec, ready : {"Unknown", "True", "False"},
           available : {"Unknown", "False"}, rv : Nat]
Content == [url : Urls, ref : Refs, rev : Nat]

(* Kubeconfig secret of a cluster: absent or unparsable, without a usable   *)
(* "value" key, usable.                                                     *)
KubeStates == {"missing", "novalue", "ok"}

Kinds == {"edit", "push", "cluster", "kube", "secret", "crash", "fault", "drift"}

PCs == {"idle", "secret", "hosts", "access", "clone", "synth", "applyList", "apply",
        "checkList", "check", "status", "cleanup"}

(* Definitions named "Mutant..." are wrong variants of the definition that   *)
(* follows them; the runs use them to see that a property would notice.     *)
MutantDirectory(p, ref) == <<Name[p] \o Head(ref)>> \o Tail(ref)

(* The directory of a clone: "/tmp/cdk8s-" + namespace + "-" + name + "-" + *)
(* branch. A branch is a sequence of path components (it may contain "/"),  *)
(* a component a sequence of segments; joining with dashes concatenates     *)
(* segments, and the slashes of the branch go on down the tree.             *)
Directory(p, ref) == <<Namespace[p] \o Name[p] \o Head(ref)>> \o Tail(ref)

Directories == {Directory(p, ref) : p \in Proxies, ref \in Refs}

(* Directory d is e or lies in the tree below it.                           *)
Within(d, e) == d = e \/ (Len(e) < Len(d) /\ SubSeq(d, 1, Len(e)) = e)

(* What RemoveAll of d removes.                                             *)
Under(d) == {e \in Directories : Within(e, d)}

ASSUME ProxyReconcilerConstants ==
  /\ ProxySpecs \in [Proxies -> SUBSET ProxySpec]
  /\ Manifests \in [Urls -> Seq(Resources)]
  /\ InitLabel \in [Clusters -> Labels \cup {None}]
  /\ InitKube \in [Clusters -> KubeStates]
  /\ InitHead \in [Urls -> [Refs -> Nat]]
  /\ SecretStates \subseteq Secrets
  /\ InitSecret \in [Proxies -> SecretStates]
  /\ Budget \in [Kinds -> Nat]

ASSUME NoneIsNoValue ==
  /\ None \notin Object /\ None \notin ProxySpec
  /\ None \notin Content /\ None \notin Proxies
  /\ None \notin Clusters /\ None \notin Labels
  /\ Gone \notin Labels /\ Gone # None

-----------------------------------------------------------------------------
VARIABLES
  api,        \* Cdk8sAppProxy objects in the API server
  nextRv,     \* the resourceVersion the next write of an object gets
  cache,      \* the manager's informer cache of the proxies
  dirty,      \* work queue: keys to be reconciled
  delayed,    \* work queue: keys waiting in the rate limiter
  secrets,    \* the credential Secret each proxy names
  head,       \* Git server: commits so far on each branch, 0 for no such branch
  label,      \* Clusters as the manager's cache shows them
  kube,       \* kubeconfig Secrets of the clusters
  deployed,   \* workload clusters: what each resource was last applied from
  dirs,       \* repositories under /tmp
  pc, key,    \* per worker: next interaction, key being reconciled
  obj,        \* per worker: the in-memory cdk8sAppProxy
  auth,       \* per worker: fetched credential and known_hosts
  src,        \* per worker: commit the parsed resources come from
  loop,       \* per worker: progress of the loops of Apply and Check
  ret,        \* per worker: err at the return statement
  left        \* environment actions left

queue  == <<dirty, delayed>>
store  == <<api, nextRv>>
locals == <<obj, auth, src, loop, ret>>
world  == <<secrets, head, label, kube>>
vars   == <<api, nextRv, cache, dirty, delayed, secrets, head, label, kube,
            deployed, dirs, pc, key, obj, auth, src, loop, ret, left>>

Spend(kind) == left[kind] > 0 /\ left' = [left EXCEPT ![kind] = @ - 1]

NoAuth == [cred |-> "nil", hosts |-> "nil"]
NoLoop == [items |-> {}, todo |-> {}, cur |-> None, idx |-> 0, missing |-> FALSE]

(* Progress of a loop over clusters and resources: the listed clusters,     *)
(* those not yet visited, the current one, the index of the resource, and   *)
(* missingResources.                                                        *)
Loops == [items : SUBSET Clusters, todo : SUBSET Clusters,
          cur : Clusters \cup {None}, idx : Nat, missing : BOOLEAN]

(* Which locals are set where: an idle worker has no object, a busy one has *)
(* one; the parsed resources exist from synthesis to the check; a resource  *)
(* is only looked up inside the slice.                                      *)
WorkerShape(w) ==
  /\ (pc[w] = "idle") <=> (key[w] = None)
  /\ (key[w] = None) <=> (obj[w] = None)
  /\ pc[w] \in {"applyList", "apply", "checkList", "check", "status"} <=> src[w] # None
  /\ loop[w].cur # None =>
       pc[w] \in {"apply", "check"} /\ loop[w].idx \in 1..Len(Manifests[src[w].url])

(* Every variable stays in its set, and no worker looks at a local that     *)
(* Reconcile has not set at that point (a nil object, an index outside the  *)
(* parsed resources).                                                       *)
TypeOK ==
  /\ api \in [Proxies -> Object \cup {None}]
  /\ nextRv \in [Proxies -> Nat]
  /\ cache \in [Proxies -> Object \cup {None}]
  /\ dirty \subseteq Proxies /\ delayed \subseteq Proxies
  /\ secrets \in [Proxies -> SecretStates]
  /\ head \in [Urls -> [Refs -> Nat]]
  /\ label \in [Clusters -> Labels \cup {None, Gone}]
  /\ kube \in [Clusters -> KubeStates]
  /\ deployed \in [Clusters -> [Resources -> Content \cup {None}]]
  /\ dirs \in [Directories -> Content \cup {None}]
  /\ pc \in [Workers -> PCs]
  /\ key \in [Workers -> Proxies \cup {None}]
  /\ obj \in [Workers -> Object \cup {None}]
  /\ auth \in [Workers -> [cred : Credentials \cup {"nil"}, hosts : KnownHosts]]
  /\ src \in [Workers -> Content \cup {None}]
  /\ loop \in [Workers -> Loops]
  /\ ret \in [Workers -> {"nil", "err", "panic"}]
  /\ left \in [Kinds -> Nat]
  /\ \A w \in Workers : WorkerShape(w)

Init ==
  /\ api = [p \in Proxies |-> None] /\ cache = api
  /\ nextRv = [p \in Proxies |-> 1]
  /\ dirty = {} /\ delayed = {}
  /\ secrets = InitSecret /\ head = InitHead
  /\ label = InitLabel /\ kube = InitKube
  /\ deployed = [c \in Clusters |-> [r \in Resources |-> None]]
  /\ dirs = [d \in Directories |-> None]
  /\ pc = [w \in Workers |-> "idle"] /\ key = [w \in Workers |-> None]
  /\ obj = [w \in Workers |-> None] /\ auth = [w \in Workers |-> NoAuth]
  /\ src = [w \in Workers |-> None] /\ loop = [w \in Workers |-> NoLoop]
  /\ ret = [w \in Workers |-> "nil"]
  /\ left = Budget

-----------------------------------------------------------------------------
(* The work queue and the informer cache: client-go and controller-runtime, *)
(* as SetupWithManager and Reconcile use them. A key is handed to one       *)
(* worker at a time; a key added while it is processed stays dirty.         *)

MutantProcessing == {}

Processing == {key[w] : w \in {v \in Workers : pc[v] # "idle"}}

(* The watch delivers an object's latest state. For() enqueues its key on   *)
(* every create, update and delete; states the cache skips are those it     *)
(* could have shown by being delivered earlier.                             *)
CacheSync(p) ==
  /\ cache[p] # api[p]
  /\ cache' = [cache EXCEPT ![p] = api[p]]
  /\ dirty' = dirty \cup {p}
  /\ UNCHANGED <<store, delayed, world, deployed, dirs, pc, key, locals, left>>

MutantResync(p) == p \in {} /\ UNCHANGED vars

(* The cache's SyncPeriod hands every cached object to the handlers again.  *)
Resync(p) ==
  /\ cache[p] # None /\ p \notin dirty
  /\ dirty' = dirty \cup {p}
  /\ UNCHANGED <<store, cache, delayed, world, deployed, dirs, pc, key, locals, left>>

(* The rate limiter lets a key back into the queue.                         *)
Backoff(p) ==
  /\ p \in delayed
  /\ delayed' = delayed \ {p} /\ dirty' = dirty \cup {p}
  /\ UNCHANGED <<store, cache, world, deployed, dirs, pc, key, locals, left>>

-----------------------------------------------------------------------------
(* Reconcile.                                                               *)

Url(w)      == obj[w].spec.git.url
Dir(w)      == Directory(key[w], obj[w].spec.git.ref)
BranchHead(w) == head[Url(w)][obj[w].spec.git.ref]
Emitted(w)  == Manifests[src[w].url]
Selected(w) == {c \in Clusters : label[c] \in obj[w].spec.sel}

(* A return statement: dead locals go, the deferred function is next.       *)
Return(w, err) ==
  /\ pc' = [pc EXCEPT ![w] = "cleanup"]
  /\ ret' = [ret EXCEPT ![w] = err]
  /\ auth' = [auth EXCEPT ![w] = NoAuth]
  /\ src' = [src EXCEPT ![w] = None]
  /\ loop' = [loop EXCEPT ![w] = NoLoop]

Goto(w, to) == pc' = [pc EXCEPT ![w] = to]

(* conditions.Set on the in-memory object.                                  *)
SetCondition(w, type, status) == obj' = [obj EXCEPT ![w][type] = status]

(* A reconciler that goes on with an empty object when Get finds none.      *)
MutantGet(w, p) ==
  /\ pc[w] = "idle" /\ p \in dirty \ Processing
  /\ dirty' = dirty \ {p}
  /\ key' = [key EXCEPT ![w] = p]
  /\ obj' = [obj EXCEPT ![w] = cache[p]]
  /\ Goto(w, "secret")
  /\ UNCHANGED <<store, cache, delayed, world, deployed, dirs, auth, src, loop, ret, left>>

(* A worker takes a key and gets the object from the cache.                 *)
Get(w, p) ==
  /\ pc[w] = "idle" /\ p \in dirty \ Processing
  /\ cache[p] # None
  /\ dirty' = dirty \ {p}
  /\ key' = [key EXCEPT ![w] = p]
  /\ obj' = [obj EXCEPT ![w] = cache[p]]
  /\ Goto(w, "secret")
  /\ UNCHANGED <<store, cache, delayed, world, deployed, dirs, auth, src, loop, ret, left>>

(* Not found is returned as an error, before the deferred function is set   *)
(* up: the key goes to the rate limiter.                                    *)
GetNotFound(w, p) ==
  /\ pc[w] = "idle" /\ p \in dirty \ Processing
  /\ cache[p] = None
  /\ dirty' = dirty \ {p} /\ delayed' = delayed \cup {p}
  /\ UNCHANGED <<store, cache, world, deployed, dirs, pc, key, locals, left>>

(* The Secret is read twice, once for the credential and once for the       *)
(* known_hosts entry.                                                       *)
ReadSecret(w) ==
  LET cred == FetchSecret(obj[w].spec.git, secrets[key[w]]) IN
  /\ pc[w] = "secret"
  /\ \/ cred.err /\ Return(w, "err")
     \/ /\ ~cred.err
        /\ auth' = [auth EXCEPT ![w].cred = cred.val]
        /\ Goto(w, "hosts")
        /\ UNCHANGED <<src, loop, ret>>
  /\ UNCHANGED <<store, cache, queue, world, deployed, dirs, key, obj, left>>

ReadKnownHosts(w) ==
  LET hosts == FetchKnownHosts(obj[w].spec.git, secrets[key[w]]) IN
  /\ pc[w] = "hosts"
  /\ \/ hosts.err /\ Return(w, "err")
     \/ /\ ~hosts.err
        /\ auth' = [auth EXCEPT ![w].hosts = hosts.val]
        /\ Goto(w, "access")
        /\ UNCHANGED <<src, loop, ret>>
  /\ UNCHANGED <<store, cache, queue, world, deployed, dirs, key, obj, left>>

MutantCloneCredential(w, requiresAuth) == auth[w].cred

(* A repository that requires no authentication is cloned without the       *)
(* credential.                                                              *)
CloneCredential(w, requiresAuth) == IF requiresAuth THEN auth[w].cred ELSE "nil"

(* Each of the two List calls may go unanswered.                            *)
CheckRepository(w) ==
  \E up1, up2 \in BOOLEAN :
    LET a == CheckAccess(Url(w), auth[w].cred, auth[w].hosts, up1, up2) IN
    /\ pc[w] = "access"
    /\ IF up1 /\ up2 THEN UNCHANGED left ELSE Spend("fault")
    /\ \/ /\ a.err \/ (a.requiresAuth /\ auth[w].cred = "empty") \/ ~a.accessible
          /\ Return(w, IF a.err THEN "err" ELSE "nil")
       \/ /\ ~a.err /\ a.accessible
          /\ ~(a.requiresAuth /\ auth[w].cred = "empty")
          /\ auth' = [auth EXCEPT ![w] = [cred  |-> CloneCredential(w, a.requiresAuth),
                                          hosts |-> auth[w].hosts]]
          /\ Goto(w, "clone")
          /\ UNCHANGED <<src, loop, ret>>
    /\ UNCHANGED <<store, cache, queue, world, deployed, dirs, key, obj>>

(* PlainClone refuses a directory that already holds a repository, needs a  *)
(* branch (refs/heads/) of that name, and gives its head commit.            *)
Cloneable(w) ==
  LET a == CloneAuth(Url(w), auth[w].cred, auth[w].hosts) IN
  /\ dirs[Dir(w)] = None
  /\ BranchHead(w) > 0
  /\ ~a.err /\ Serves(Url(w), a.val, auth[w].hosts)

(* A clone that makes do with the repository it finds.                      *)
MutantClone(w) ==
  /\ pc[w] = "clone"
  /\ dirs[Dir(w)] # None \/ Cloneable(w)
  /\ dirs' = IF dirs[Dir(w)] # None THEN dirs
             ELSE [dirs EXCEPT ![Dir(w)] =
                     [url |-> Url(w), ref |-> obj[w].spec.git.ref, rev |-> BranchHead(w)]]
  /\ Goto(w, "synth")
  /\ UNCHANGED <<store, cache, queue, world, deployed, key, locals, left>>

Clone(w) ==
  /\ pc[w] = "clone"
  /\ Cloneable(w)
  /\ dirs' = [dirs EXCEPT ![Dir(w)] =
                [url |-> Url(w), ref |-> obj[w].spec.git.ref, rev |-> BranchHead(w)]]
  /\ Goto(w, "synth")
  /\ UNCHANGED <<store, cache, queue, world, deployed, key, locals, left>>

CloneFails(w) ==
  /\ pc[w] = "clone"
  /\ IF Cloneable(w) THEN Spend("fault") ELSE UNCHANGED left
  /\ SetCondition(w, "available", "False")
  /\ Return(w, "err")
  /\ UNCHANGED <<store, cache, queue, world, deployed, dirs, key>>

(* Synthesis reads whatever repository is in the directory now.             *)
Synthesize(w) ==
  /\ pc[w] = "synth"
  /\ dirs[Dir(w)] # None
  /\ src' = [src EXCEPT ![w] = dirs[Dir(w)]]
  /\ Goto(w, "applyList")
  /\ UNCHANGED <<store, cache, queue, world, deployed, dirs, key, obj, auth, loop, ret, left>>

SynthesizeFails(w) ==
  /\ pc[w] = "synth"
  /\ IF dirs[Dir(w)] # None THEN Spend("fault") ELSE UNCHANGED left
  /\ SetCondition(w, "available", "False")
  /\ Return(w, "err")
  /\ UNCHANGED <<store, cache, queue, world, deployed, dirs, key>>

-----------------------------------------------------------------------------
(* Apply and Check of the resourcer.                                        *)

(* The naive plural of a kind; the API knows the resource only under its    *)
(* real plural.                                                             *)
getPluralFromKind(kind) ==
  CASE kind.last = "s" -> <<kind.stem, "s", "es">>
    [] kind.last = "y" -> <<kind.stem, "ies">>
    [] OTHER           -> <<kind.stem, kind.last, "s">>

Served(r) == getPluralFromKind(Kind[r]) = APIPlural[r]

(* clusterList matches the selector against the clusters of every namespace. *)
StartLoop(w) ==
  loop' = [loop EXCEPT ![w] = [items |-> Selected(w), todo |-> Selected(w),
                               cur |-> None, idx |-> 0, missing |-> FALSE]]

Skip(w, c) == loop' = [loop EXCEPT ![w].todo = @ \ {c}]

Enter(w, c) == loop' = [loop EXCEPT ![w].todo = @ \ {c}, ![w].cur = c, ![w].idx = 1]

(* On to the next resource, or to the next cluster after the last one.      *)
Advanced(w) ==
  IF loop[w].idx < Len(Emitted(w)) THEN [loop[w] EXCEPT !.idx = @ + 1]
  ELSE [loop[w] EXCEPT !.cur = None, !.idx = 0]

ApplyClusterList(w) ==
  /\ pc[w] = "applyList"
  /\ \/ /\ obj[w].spec.selValid
        /\ StartLoop(w) /\ Goto(w, "apply")
        /\ UNCHANGED <<obj, auth, src, ret>>
     \/ /\ ~obj[w].spec.selValid
        /\ SetCondition(w, "ready", "False")
        /\ Return(w, "err")
  /\ UNCHANGED <<store, cache, queue, world, deployed, dirs, key, left>>

(* The clusters in the order the cache lists them, which is no order. A     *)
(* cluster without a client ends the loop; the error is the loop body's own *)
(* and Apply returns nil. A kubeconfig without a value gives a nil client   *)
(* and no error: the first resource panics.                                 *)
ApplyClusterClient(w) ==
  /\ pc[w] = "apply" /\ loop[w].cur = None
  /\ \/ /\ loop[w].todo = {}
        /\ Goto(w, "checkList")
        /\ UNCHANGED <<auth, src, loop, ret>>
     \/ \E c \in loop[w].todo :
          \/ /\ kube[c] = "missing"
             /\ Goto(w, "checkList")
             /\ UNCHANGED <<auth, src, loop, ret>>
          \/ /\ kube[c] # "missing" /\ Emitted(w) = <<>>
             /\ Skip(w, c)
             /\ UNCHANGED <<pc, auth, src, ret>>
          \/ /\ kube[c] = "novalue" /\ Emitted(w) # <<>>
             /\ Return(w, "panic")
          \/ /\ kube[c] = "ok" /\ Emitted(w) # <<>>
             /\ Enter(w, c)
             /\ UNCHANGED <<pc, auth, src, ret>>
  /\ UNCHANGED <<store, cache, queue, world, deployed, dirs, key, obj, left>>

(* Creates what is missing, and updates nothing.                            *)
MutantApplyResource(w) ==
  LET c == loop[w].cur
      r == Emitted(w)[loop[w].idx]
  IN
  /\ pc[w] = "apply" /\ c # None
  /\ Served(r)
  /\ deployed' = IF deployed[c][r] = None THEN [deployed EXCEPT ![c][r] = src[w]] ELSE deployed
  /\ loop' = [loop EXCEPT ![w] = Advanced(w)]
  /\ UNCHANGED <<store, cache, queue, world, dirs, pc, key, obj, auth, src, ret, left>>

(* Forced server-side apply.                                                *)
ApplyResource(w) ==
  LET c == loop[w].cur
      r == Emitted(w)[loop[w].idx]
  IN
  /\ pc[w] = "apply" /\ c # None
  /\ Served(r)
  /\ deployed' = [deployed EXCEPT ![c][r] = src[w]]
  /\ loop' = [loop EXCEPT ![w] = Advanced(w)]
  /\ UNCHANGED <<store, cache, queue, world, dirs, pc, key, obj, auth, src, ret, left>>

(* A failed apply skips the cluster's other resources and goes on with the  *)
(* next cluster. A failure may hide a success whose answer was lost.        *)
ApplyResourceFails(w) ==
  LET c == loop[w].cur
      r == Emitted(w)[loop[w].idx]
  IN
  /\ pc[w] = "apply" /\ c # None
  /\ \/ /\ Served(r) /\ Spend("fault")
        /\ \/ UNCHANGED deployed
           \/ deployed' = [deployed EXCEPT ![c][r] = src[w]]
     \/ ~Served(r) /\ UNCHANGED <<left, deployed>>
  /\ loop' = [loop EXCEPT ![w].cur = None, ![w].idx = 0]
  /\ UNCHANGED <<store, cache, queue, world, dirs, pc, key, obj, auth, src, ret>>

(* Check lists the clusters again.                                          *)
CheckClusterList(w) ==
  /\ pc[w] = "checkList"
  /\ StartLoop(w) /\ Goto(w, "check")
  /\ UNCHANGED <<store, cache, queue, world, deployed, dirs, key, obj, auth, src, ret, left>>

(* Here a cluster without a client is an error. The status is written only  *)
(* when the loop ends, with Ready set if nothing was missing.               *)
CheckClusterClient(w) ==
  /\ pc[w] = "check" /\ loop[w].cur = None
  /\ \/ /\ loop[w].todo = {}
        /\ IF loop[w].missing THEN UNCHANGED obj ELSE SetCondition(w, "ready", "True")
        /\ Goto(w, "status")
        /\ UNCHANGED <<auth, src, loop, ret>>
     \/ \E c \in loop[w].todo :
          /\ \/ kube[c] = "missing" /\ Return(w, "err")
             \/ /\ kube[c] # "missing" /\ Emitted(w) = <<>>
                /\ Skip(w, c)
                /\ UNCHANGED <<pc, auth, src, ret>>
             \/ kube[c] = "novalue" /\ Emitted(w) # <<>> /\ Return(w, "panic")
             \/ /\ kube[c] = "ok" /\ Emitted(w) # <<>>
                /\ Enter(w, c)
                /\ UNCHANGED <<pc, auth, src, ret>>
          /\ UNCHANGED obj
  /\ UNCHANGED <<store, cache, queue, world, deployed, dirs, key, left>>

Exists(c, r) == Served(r) /\ deployed[c][r] # None

MutantMissing(w, c, r) == ~Exists(c, r)

Missing(w, c, r) == loop[w].missing \/ ~Exists(c, r)

CheckResource(w) ==
  LET c == loop[w].cur
      r == Emitted(w)[loop[w].idx]
  IN
  /\ pc[w] = "check" /\ c # None
  /\ \/ /\ loop' = [loop EXCEPT ![w] =
                      [Advanced(w) EXCEPT !.missing = Missing(w, c, r)]]
        /\ UNCHANGED <<pc, auth, src, ret, left>>
     \/ Spend("fault") /\ Return(w, "err")
  /\ UNCHANGED <<store, cache, queue, world, deployed, dirs, key, obj>>

-----------------------------------------------------------------------------
(* Status().Update carries the resourceVersion of the object read at the    *)
(* start; the API server refuses any other, and a write that changes        *)
(* nothing is no write. Only the status is stored.                          *)
MutantStorable(w) == api[key[w]] # None

Storable(w) == api[key[w]] # None /\ api[key[w]].rv = obj[w].rv

Stored(w) ==
  LET old == api[key[w]]
      new == [old EXCEPT !.ready = obj[w].ready, !.available = obj[w].available]
  IN IF new = old THEN old ELSE [new EXCEPT !.rv = nextRv[key[w]]]

StatusUpdate(w) ==
  /\ pc[w] = "status"
  /\ Storable(w)
  /\ api' = [api EXCEPT ![key[w]] = Stored(w)]
  /\ nextRv' = IF api' = api THEN nextRv ELSE [nextRv EXCEPT ![key[w]] = @ + 1]
  /\ \/ Return(w, "nil") /\ UNCHANGED left
     \/ Return(w, "err") /\ Spend("fault")       \* stored, but the answer is lost
  /\ UNCHANGED <<cache, queue, world, deployed, dirs, key, obj>>

StatusUpdateFails(w) ==
  /\ pc[w] = "status"
  /\ IF Storable(w) THEN Spend("fault") ELSE UNCHANGED left
  /\ Return(w, "err")
  /\ UNCHANGED <<store, cache, queue, world, deployed, dirs, key, obj>>

(* The deferred function runs on every return, and on a panic, and assigns  *)
(* the result of RemoveAll to the named result err: what the return         *)
(* statement put there is gone. A panic goes on to controller-runtime,      *)
(* which makes it an error.                                                 *)
Returned(err, removed) == IF err = "panic" THEN "err" ELSE IF removed THEN "nil" ELSE "err"

Release(w, err) ==
  /\ pc' = [pc EXCEPT ![w] = "idle"]
  /\ key' = [key EXCEPT ![w] = None]
  /\ obj' = [obj EXCEPT ![w] = None]
  /\ ret' = [ret EXCEPT ![w] = "nil"]
  /\ delayed' = IF err = "nil" THEN delayed ELSE delayed \cup {key[w]}

(* The repositories of these directories are gone.                          *)
Without(gone) == [d \in Directories |-> IF d \in gone THEN None ELSE dirs[d]]

(* A removal at the end of Reconcile, where a panic does not come by.       *)
MutantCleanup(w) ==
  /\ pc[w] = "cleanup"
  /\ dirs' = IF ret[w] = "panic" THEN dirs ELSE Without(Under(Dir(w)))
  /\ Release(w, Returned(ret[w], TRUE))
  /\ UNCHANGED <<store, cache, dirty, world, deployed, auth, src, loop, left>>

Cleanup(w) ==
  /\ pc[w] = "cleanup"
  /\ dirs' = Without(Under(Dir(w)))
  /\ Release(w, Returned(ret[w], TRUE))
  /\ UNCHANGED <<store, cache, dirty, world, deployed, auth, src, loop, left>>

(* RemoveAll may have removed any part of the tree when it fails.           *)
CleanupFails(w) ==
  /\ pc[w] = "cleanup"
  /\ Spend("crash")
  /\ \E gone \in SUBSET Under(Dir(w)) : dirs' = Without(gone)
  /\ Release(w, Returned(ret[w], FALSE))
  /\ UNCHANGED <<store, cache, dirty, world, deployed, auth, src, loop>>

(* The manager's container dies and is restarted: queue, cache and workers  *)
(* start over, the /tmp volume keeps its repositories.                      *)
Crash ==
  /\ Spend("crash")
  /\ cache' = [p \in Proxies |-> None]
  /\ dirty' = {} /\ delayed' = {}
  /\ pc' = [w \in Workers |-> "idle"] /\ key' = [w \in Workers |-> None]
  /\ obj' = [w \in Workers |-> None] /\ auth' = [w \in Workers |-> NoAuth]
  /\ src' = [w \in Workers |-> None] /\ loop' = [w \in Workers |-> NoLoop]
  /\ ret' = [w \in Workers |-> "nil"]
  /\ UNCHANGED <<store, world, deployed, dirs>>


-----------------------------------------------------------------------------
(* Events of the watched Cluster objects.                                   *)

Listed(c) == {p \in Proxies : cache[p] # None /\ Namespace[p] = ClusterNamespace[c]}

(* A mapper that takes Ready objects for finished.                          *)
MutantMapper(c, l) ==
  {{p \in Listed(c) : /\ cache[p].ready # "True"
                      /\ cache[p].spec.selValid /\ l \in cache[p].spec.sel}}

(* What the mapper may return for a cluster whose labels are l. A selector  *)
(* that does not parse ends the loop over the listed proxies, which come in *)
(* no order: any part of the matching ones may have been collected.         *)
ClusterToCdk8sAppProxyMapper(c, l) ==
  LET matching == {p \in Listed(c) : cache[p].spec.selValid /\ l \in cache[p].spec.sel}
  IN IF \A p \in Listed(c) : cache[p].spec.selValid THEN {matching} ELSE SUBSET matching

(* A cluster is created, relabelled or deleted; names are not reused. The   *)
(* handler maps the old and the new object of an update.                    *)
ClusterEvent(c, l) ==
  /\ label[c] # l /\ label[c] # Gone
  /\ l = Gone => label[c] # None
  /\ Spend("cluster")
  /\ label' = [label EXCEPT ![c] = l]
  /\ \E before \in ClusterToCdk8sAppProxyMapper(c, label[c]),
        after \in ClusterToCdk8sAppProxyMapper(c, l) :
       dirty' = dirty \cup before \cup after
  /\ UNCHANGED <<store, cache, delayed, secrets, head, kube, deployed, dirs, pc, key, locals>>

-----------------------------------------------------------------------------
(* Users, the Git server, and whoever else changes what Reconcile reads.    *)

WriteSpec(p, s, ready, available) ==
  /\ s \in ProxySpecs[p]
  /\ api' = [api EXCEPT ![p] = [spec |-> s, ready |-> ready, available |-> available,
                                rv |-> nextRv[p]]]
  /\ nextRv' = [nextRv EXCEPT ![p] = @ + 1]
  /\ Spend("edit")
  /\ UNCHANGED <<cache, queue, world, deployed, dirs, pc, key, locals>>

CreateProxy(p, s) ==
  /\ api[p] = None
  /\ WriteSpec(p, s, "Unknown", "Unknown")

(* The validating webhook keeps the URL; the status is not a user's to set. *)
UpdateProxy(p, s) ==
  /\ api[p] # None /\ s # api[p].spec
  /\ s.git.url = api[p].spec.git.url
  /\ WriteSpec(p, s, api[p].ready, api[p].available)

(* There are no finalizers: the object is gone at once, what it deployed    *)
(* stays.                                                                   *)
DeleteProxy(p) ==
  /\ api[p] # None
  /\ api' = [api EXCEPT ![p] = None]
  /\ Spend("edit")
  /\ UNCHANGED <<nextRv, cache, queue, world, deployed, dirs, pc, key, locals>>

(* No branch exists above or below another one.                             *)
Push(u, ref) ==
  /\ Spend("push")
  /\ \A other \in Refs \ {ref} :
       head[u][other] > 0 => ~Within(other, ref) /\ ~Within(ref, other)
  /\ head' = [head EXCEPT ![u][ref] = @ + 1]
  /\ UNCHANGED <<store, cache, queue, secrets, label, kube, deployed, dirs, pc, key, locals>>

SetKube(c, k) ==
  /\ kube[c] # k /\ Spend("kube")
  /\ kube' = [kube EXCEPT ![c] = k]
  /\ UNCHANGED <<store, cache, queue, secrets, head, label, deployed, dirs, pc, key, locals>>

SetSecret(p, s) ==
  /\ secrets[p] # s /\ Spend("secret")
  /\ secrets' = [secrets EXCEPT ![p] = s]
  /\ UNCHANGED <<store, cache, queue, head, label, kube, deployed, dirs, pc, key, locals>>

(* Someone deletes a deployed resource from a workload cluster.             *)
Drift(c, r) ==
  /\ deployed[c][r] # None /\ Spend("drift")
  /\ deployed' = [deployed EXCEPT ![c][r] = None]
  /\ UNCHANGED <<store, cache, queue, world, dirs, pc, key, locals>>

-----------------------------------------------------------------------------
WorkerStep(w) ==
  \/ ReadSecret(w)         \/ ReadKnownHosts(w)      \/ CheckRepository(w)
  \/ Clone(w)              \/ CloneFails(w)
  \/ Synthesize(w)         \/ SynthesizeFails(w)
  \/ ApplyClusterList(w)   \/ ApplyClusterClient(w)
  \/ ApplyResource(w)      \/ ApplyResourceFails(w)
  \/ CheckClusterList(w)   \/ CheckClusterClient(w)  \/ CheckResource(w)
  \/ StatusUpdate(w)       \/ StatusUpdateFails(w)
  \/ Cleanup(w)            \/ CleanupFails(w)

Take(p) == \E w \in Workers : Get(w, p) \/ GetNotFound(w, p)

Manager ==
  \/ \E p \in Proxies : CacheSync(p) \/ Resync(p) \/ Backoff(p) \/ Take(p)
  \/ \E w \in Workers : WorkerStep(w)

Environment ==
  \/ \E p \in Proxies :
       \/ \E s \in ProxySpecs[p] : CreateProxy(p, s) \/ UpdateProxy(p, s)
       \/ DeleteProxy(p)
       \/ \E s \in SecretStates : SetSecret(p, s)
  \/ \E u \in Urls, ref \in Refs : Push(u, ref)
  \/ \E c \in Clusters :
       \/ \E l \in Labels \cup {Gone} : ClusterEvent(c, l)
       \/ \E k \in KubeStates : SetKube(c, k)
       \/ \E r \in Resources : Drift(c, r)
  \/ Crash

Next == Manager \/ Environment

Spec == Init /\ [][Next]_vars

(* What the manager's runtime gives: a worker that has a key goes on, the   *)
(* watch delivers, timers fire, and the queue is first in, first out, so a  *)
(* waiting key is taken in the end although other keys keep coming.         *)
Fairness ==
  /\ \A w \in Workers : WF_vars(WorkerStep(w))
  /\ \A p \in Proxies :
       /\ WF_vars(CacheSync(p)) /\ WF_vars(Resync(p)) /\ WF_vars(Backoff(p))
       /\ SF_vars(Take(p))

FairSpec == Spec /\ Fairness

-----------------------------------------------------------------------------
(* Properties.                                                              *)

(* No two proxies share a directory under /tmp, nor does one's lie inside   *)
(* another's. Names joined with dashes can break it: "app" on the branch    *)
(* "web-v1/x" and "app-web" on "v1", or "a" in "b-c" and "c-a" in "b".      *)
DirectoriesApart ==
  \A p, q \in Proxies, r1, r2 \in Refs :
    Within(Directory(p, r1), Directory(q, r2)) => p = q

(* What a reconciliation synthesizes and applies is a commit of the         *)
(* repository and branch of the object it reconciles, never the repository  *)
(* another worker or an earlier process left in the directory (the          *)
(* directory name of Reconcile, PlainClone's refusal, the deferred          *)
(* RemoveAll).                                                              *)
Isolation ==
  \A w \in Workers :
    src[w] # None => src[w].url = Url(w) /\ src[w].ref = obj[w].spec.git.ref

(* A cluster never goes back to an older commit of a branch: Reconcile      *)
(* clones afresh every time and one key is in one worker's hands only.      *)
NoRollback ==
  [][\A c \in Clusters, r \in Resources :
       LET old == deployed[c][r]
           new == deployed'[c][r]
       IN old # None /\ new # None /\ old.url = new.url /\ old.ref = new.ref
            => old.rev <= new.rev]_vars

(* Why no cluster goes back (IsolationInv and FreshnessInv are inductive). *)
OneWorkerPerProxy ==
  \A v, w \in Workers : v # w /\ key[v] = key[w] => key[v] = None

(* The commit a worker has cloned, or synthesized from.                     *)
Held(w) == IF pc[w] = "synth" THEN dirs[Dir(w)] ELSE src[w]

HoldsOwnSource ==
  \A w \in Workers :
    /\ pc[w] = "synth" => Held(w) # None
    /\ Held(w) # None => Held(w).url = Url(w) /\ Held(w).ref = obj[w].spec.git.ref

IsolationInv == OneWorkerPerProxy /\ HoldsOwnSource

SameSource(a, b) == a.url = b.url /\ a.ref = b.ref

(* No two proxies deploy from the same branch of the same repository.       *)
SourcesDistinct ==
  \A p, q \in Proxies : \A s \in ProxySpecs[p], t \in ProxySpecs[q] :
    SameSource(s.git, t.git) => p = q

KnownSpecs ==
  /\ \A p \in Proxies :
       /\ api[p] # None => api[p].spec \in ProxySpecs[p]
       /\ cache[p] # None => cache[p].spec \in ProxySpecs[p]
  /\ \A w \in Workers : obj[w] # None => obj[w].spec \in ProxySpecs[key[w]]

Newest(content) == content.rev <= head[content.url][content.ref]

NothingNewerDeployed ==
  \A c \in Clusters, r \in Resources : deployed[c][r] # None =>
    /\ Newest(deployed[c][r])
    /\ \A w \in Workers :
         Held(w) # None /\ SameSource(Held(w), deployed[c][r])
           => deployed[c][r].rev <= Held(w).rev

FreshnessInv ==
  /\ KnownSpecs
  /\ \A w \in Workers : Held(w) # None => Newest(Held(w))
  /\ NothingNewerDeployed

BecomesReady(p) ==
  /\ api[p] # None /\ api[p].ready # "True"
  /\ api'[p] # None /\ api'[p].ready = "True"

(* An object becomes Ready only by the status update of a worker that       *)
(* reconciled the spec now stored: neither a spec edited meanwhile nor one  *)
(* deleted and created again is declared ready by a reconciliation that     *)
(* never saw it (the resourceVersion in Status().Update).                   *)
ReadyDescribesSpec ==
  [][\A p \in Proxies : BecomesReady(p) =>
       \E w \in Workers : /\ pc[w] = "status" /\ key[w] = p
                          /\ obj[w].spec = api'[p].spec
                          /\ src[w].url = api'[p].spec.git.url
                          /\ src[w].ref = api'[p].spec.git.ref]_vars

(* As long as nobody deletes resources behind its back, an object becomes   *)
(* Ready only when every cluster listed by Check has every resource of the  *)
(* commit that was synthesized (the missing flag across the two loops of    *)
(* Check, and its early returns).                                           *)
ReadyMeansPresent ==
  [][left["drift"] = Budget["drift"] =>
       \A p \in Proxies : BecomesReady(p) =>
         \E w \in Workers : /\ pc[w] = "status" /\ key[w] = p
                            /\ \A c \in loop[w].items :
                                 \A i \in DOMAIN Emitted(w) : Exists(c, Emitted(w)[i])]_vars

(* Until the process dies or a removal fails, a repository under /tmp       *)
(* belongs to a running reconciliation: whatever way Reconcile is left,     *)
(* panics included, the deferred RemoveAll has run.                         *)
NoLeakedDirectory ==
  left["crash"] = Budget["crash"] =>
    \A d \in Directories : dirs[d] # None =>
      \E w \in Workers : pc[w] # "idle" /\ Dir(w) = d

(* A repository that passed CheckAccess is cloned with a transport the      *)
(* server accepts: in particular a credential of the wrong kind for the URL *)
(* cannot break the clone of a public repository.                           *)
CloneAuthWorks ==
  \A w \in Workers : pc[w] = "clone" =>
    LET a == CloneAuth(Url(w), auth[w].cred, auth[w].hosts)
    IN ~a.err /\ Serves(Url(w), a.val, auth[w].hosts)

(* The informer has shown a version of the object other than the one the    *)
(* worker holds.                                                            *)
OutdatedObject(w) ==
  cache[key[w]] = None \/ cache[key[w]].rv # obj[w].rv

(* A cluster of the object's namespace joined or left the selection since   *)
(* the worker listed the clusters.                                          *)
OutdatedClusters(w) ==
  /\ pc[w] \in {"apply", "checkList", "check", "status"}
  /\ \E c \in Clusters :
       /\ ClusterNamespace[c] = Namespace[key[w]]
       /\ (c \in loop[w].items) # (label[c] \in obj[w].spec.sel)

(* Whatever changes under a running reconciliation, the key is queued for   *)
(* another one (the For and Watches handlers, the mapper, and the work      *)
(* queue that keeps a key dirty while it is processed). It needs selectors  *)
(* that parse: the mapper gives up at the first that does not.              *)
NoLostWakeup ==
  \A w \in Workers :
    pc[w] # "idle" /\ (OutdatedObject(w) \/ OutdatedClusters(w)) => key[w] \in dirty

-----------------------------------------------------------------------------
(* Liveness.                                                                *)

(* Nothing outside the manager stands in the way of the object.             *)
Deployable(p) ==
  api[p] # None /\
    LET s     == api[p].spec
        cred  == FetchSecret(s.git, secrets[p])
        hosts == FetchKnownHosts(s.git, secrets[p])
    IN /\ ~cred.err /\ ~hosts.err
       /\ CheckAccess(s.git.url, cred.val, hosts.val, TRUE, TRUE).accessible
       /\ head[s.git.url][s.git.ref] > 0
       /\ s.selValid
       /\ \A i \in DOMAIN Manifests[s.git.url] : Served(Manifests[s.git.url][i])
       /\ \A c \in Clusters : label[c] \in s.sel => kube[c] = "ok"

(* The latest commit is on every selected cluster and the object is Ready.  *)
Converged(p) ==
  LET git == api[p].spec.git IN
  /\ api[p].ready = "True"
  /\ \A c \in Clusters : label[c] \in api[p].spec.sel =>
       \A i \in DOMAIN Manifests[git.url] :
         deployed[c][Manifests[git.url][i]] =
           [url |-> git.url, ref |-> git.ref, rev |-> head[git.url][git.ref]]

(* Once the environment has calmed down, every deployable object converges, *)
(* whatever failed, crashed or was pushed before: errors are dropped by the *)
(* deferred function, so it is the cache's resync that brings the retry.    *)
Converges == <>[](\A p \in Proxies : Deployable(p) => Converged(p))

-----------------------------------------------------------------------------
(* What documentation and comments say of the controller, stated to be      *)
(* compared with what it does.                                              *)

(* "Fetch secret for Git authentication if provided": without a secretRef   *)
(* the reconciliation goes on to the access check.                          *)
SecretIsOptional ==
  [][\A w \in Workers :
       pc[w] = "secret" /\ ~obj[w].spec.git.secretRef
         => pc'[w] \in {"secret", "hosts", "idle"}]_vars

(* "Conditions defines the current state of the Cdk8sAppProxy": the         *)
(* condition a failed reconciliation sets is in the stored object when the  *)
(* reconciliation is over, unless the object has changed meanwhile.         *)
FailureIsRecorded ==
  [][\A w \in Workers :
       pc[w] = "cleanup" /\ pc'[w] = "idle" /\ key[w] \in Proxies
         => \/ api[key[w]] = None
            \/ api[key[w]].rv # obj[w].rv
            \/ api[key[w]].available = obj[w].available]_vars

(* "Apply applies resources to the target clusters": with one proxy and no  *)
(* drift, what Check then finds complete is the commit that was applied.    *)
ReadyMeansApplied ==
  \A w \in Workers : pc[w] = "status" /\ ~loop[w].missing =>
    \A c \in loop[w].items : \A i \in DOMAIN Emitted(w) :
      deployed[c][Emitted(w)[i]] = src[w]
=============================================================================
