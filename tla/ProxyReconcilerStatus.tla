------------------------ MODULE ProxyReconcilerStatus ------------------------
(***************************************************************************)
(* What a reconciliation may rely on, for every value of the constants: the *)
(* clone gets a credential the server accepts, Ready is only set for a spec *)
(* that a reconciliation has seen and for clusters on which it has found    *)
(* everything, and what changes meanwhile queues the key again.             *)
(***************************************************************************)
EXTENDS ProxyReconcilerSafety

(* A credential with which CheckAccess found the repository accessible is   *)
(* one Clone reaches it with.                                               *)
LEMMA AccessGivesClone ==
  ASSUME NEW url, NEW cred \in Credentials, NEW hosts, NEW up1 \in BOOLEAN, NEW up2 \in BOOLEAN,
         ~CheckAccess(url, cred, hosts, up1, up2).err,
         CheckAccess(url, cred, hosts, up1, up2).accessible
  PROVE  LET used == IF CheckAccess(url, cred, hosts, up1, up2).requiresAuth THEN cred ELSE "nil"
         IN /\ ~CloneAuth(url, used, hosts).err
            /\ Serves(url, CloneAuth(url, used, hosts).val, hosts)
<1> DEFINE a == CheckAccess(url, cred, hosts, up1, up2)
<1>1. cred # "nil"
  BY DEF Credentials
<1>2. CASE up1 /\ Serves(url, "nil", hosts)
  <2>1. ~a.requiresAuth
    BY <1>2 DEF CheckAccess, Access
  <2> QED BY <1>2, <2>1 DEF CloneAuth, Got
<1>3. CASE ~(up1 /\ Serves(url, "nil", hosts))
  <2>1. /\ ~getAuth(url, cred, hosts).err
        /\ Serves(url, getAuth(url, cred, hosts).val, hosts)
        /\ a.requiresAuth
    BY <1>3 DEF CheckAccess, Access
  <2> QED BY <1>1, <2>1 DEF CloneAuth
<1> QED BY <1>2, <1>3

(* From the fetched secret to the clone.                                    *)
AuthInv ==
  /\ \A w \in Workers : pc[w] \in {"hosts", "access"} => auth[w].cred \in Credentials
  /\ CloneAuthWorks

(* The steps that lead to the access check and to the clone.                *)
LEMMA ReachesClone ==
  ASSUME TypeOK, [Next]_vars, NEW w \in Workers, pc'[w] \in {"hosts", "access", "clone"}
  PROVE  \/ (ReadSecret(w) \/ ReadKnownHosts(w)) /\ pc'[w] \in {"hosts", "access"}
         \/ CheckRepository(w) /\ pc'[w] = "clone"
         \/ pc'[w] = pc[w] /\ auth'[w] = auth[w] /\ Url(w)' = Url(w)
<1>1. ASSUME NEW v \in Workers, WorkerStep(v)
      PROVE  \/ (ReadSecret(w) \/ ReadKnownHosts(w)) /\ pc'[w] \in {"hosts", "access"}
             \/ CheckRepository(w) /\ pc'[w] = "clone"
             \/ pc'[w] = pc[w] /\ auth'[w] = auth[w] /\ obj'[w] = obj[w]
  <2>1. CASE v # w
    <3>1. CASE ReadSecret(v) \/ ReadKnownHosts(v) \/ CheckRepository(v) \/ Clone(v) \/ CloneFails(v)
               \/ Synthesize(v) \/ SynthesizeFails(v)
      BY <2>1, <3>1 DEF ReadSecret, ReadKnownHosts, CheckRepository, Clone, CloneFails, Synthesize,
                        SynthesizeFails, Return, Goto, SetCondition, TypeOK, locals
    <3>2. CASE ApplyClusterList(v) \/ ApplyClusterClient(v) \/ ApplyResource(v)
               \/ ApplyResourceFails(v)
      BY <2>1, <3>2 DEF ApplyClusterList, ApplyClusterClient, ApplyResource,
                        ApplyResourceFails, Return, Goto, SetCondition, TypeOK
    <3>3. CASE CheckClusterList(v) \/ CheckClusterClient(v) \/ CheckResource(v)
      BY <2>1, <3>3 DEF CheckClusterList, CheckClusterClient, CheckResource, Return, Goto,
                        SetCondition, TypeOK
    <3>4. CASE StatusUpdate(v) \/ StatusUpdateFails(v) \/ Cleanup(v) \/ CleanupFails(v)
      BY <2>1, <3>4 DEF StatusUpdate, StatusUpdateFails, Cleanup, CleanupFails, Release,
                        Return, TypeOK
    <3> QED BY <1>1, <3>1, <3>2, <3>3, <3>4 DEF WorkerStep
  <2>2. CASE v = w
    <3>1. CASE ReadSecret(w) \/ ReadKnownHosts(w) \/ CheckRepository(w)
      BY <3>1 DEF ReadSecret, ReadKnownHosts, CheckRepository, Return, Goto, TypeOK
    <3>2. CASE Clone(w) \/ CloneFails(w) \/ Synthesize(w) \/ SynthesizeFails(w)
      BY <3>2 DEF Clone, CloneFails, Synthesize, SynthesizeFails, Return, Goto, TypeOK
    <3>3. CASE ApplyClusterList(w) \/ ApplyClusterClient(w) \/ ApplyResource(w)
               \/ ApplyResourceFails(w)
      BY <3>3 DEF ApplyClusterList, ApplyClusterClient, ApplyResource,
                  ApplyResourceFails, Return, Goto, TypeOK
    <3>4. CASE CheckClusterList(w) \/ CheckClusterClient(w) \/ CheckResource(w)
      BY <3>4 DEF CheckClusterList, CheckClusterClient, CheckResource, Return, Goto, TypeOK
    <3>5. CASE StatusUpdate(w) \/ StatusUpdateFails(w) \/ Cleanup(w) \/ CleanupFails(w)
      BY <3>5 DEF StatusUpdate, StatusUpdateFails, Cleanup, CleanupFails, Release,
                  Return, TypeOK
    <3> QED BY <1>1, <2>2, <3>1, <3>2, <3>3, <3>4, <3>5 DEF WorkerStep
  <2> QED BY <2>1, <2>2
<1>2. ASSUME NEW p \in Proxies, CacheSync(p) \/ Resync(p) \/ Backoff(p) \/ Take(p)
      PROVE  pc'[w] = pc[w] /\ auth'[w] = auth[w] /\ obj'[w] = obj[w]
  BY <1>2 DEF CacheSync, Resync, Backoff, Take, Get, GetNotFound, Goto, locals, TypeOK
<1>3. CASE Environment
  <2>1. ~Crash
    BY DEF Crash
  <2>2. UNCHANGED <<pc, auth, obj>>
    BY <1>3, <2>1 DEF Environment, CreateProxy, UpdateProxy, WriteSpec, DeleteProxy, SetSecret,
                      Push, ClusterEvent, SetKube, Drift, locals
  <2> QED BY <2>2 DEF Url
<1>4. CASE UNCHANGED vars
  BY <1>4 DEF vars, Url
<1> QED BY <1>1, <1>2, <1>3, <1>4 DEF Next, Manager, Url

LEMMA AuthStep ==
  ASSUME TypeOK, AuthInv, [Next]_vars
  PROVE  AuthInv'
<1>1. ASSUME NEW w \in Workers, pc'[w] \in {"hosts", "access"}
      PROVE  auth'[w].cred \in Credentials
  <2>1. CASE ReadSecret(w)
    <3>1. secrets[key[w]] \in Secrets /\ obj[w].spec.git \in Git
      BY <2>1, BusyTypes, ProxyReconcilerConstants DEF ReadSecret, TypeOK
    <3>2. ~FetchSecret(obj[w].spec.git, secrets[key[w]]).err
          /\ auth'[w].cred = FetchSecret(obj[w].spec.git, secrets[key[w]]).val
      BY <1>1, <2>1 DEF ReadSecret, Return, TypeOK
    <3> QED BY <3>1, <3>2, FetchTypes
  <2>3. CASE ReadKnownHosts(w)
    <3>1. pc[w] = "hosts" /\ auth'[w].cred = auth[w].cred
      BY <1>1, <2>3 DEF ReadKnownHosts, Return, TypeOK
    <3> QED BY <3>1 DEF AuthInv
  <2>2. CASE pc'[w] = pc[w] /\ auth'[w] = auth[w]
    BY <1>1, <2>2 DEF AuthInv
  <2> QED BY <1>1, <2>1, <2>2, <2>3, ReachesClone
<1>2. ASSUME NEW w \in Workers, pc'[w] = "clone"
      PROVE  LET a == CloneAuth(Url(w)', auth'[w].cred, auth'[w].hosts)
             IN ~a.err /\ Serves(Url(w)', a.val, auth'[w].hosts)
  <2>1. CASE CheckRepository(w)
    <3>1. PICK up1 \in BOOLEAN, up2 \in BOOLEAN :
            LET a == CheckAccess(Url(w), auth[w].cred, auth[w].hosts, up1, up2) IN
            /\ pc[w] = "access" /\ obj' = obj
            /\ \/ Return(w, IF a.err THEN "err" ELSE "nil")
               \/ /\ ~a.err /\ a.accessible
                  /\ auth' = [auth EXCEPT ![w] = [cred  |-> CloneCredential(w, a.requiresAuth),
                                                  hosts |-> auth[w].hosts]]
      BY <2>1 DEF CheckRepository
    <3> DEFINE a == CheckAccess(Url(w), auth[w].cred, auth[w].hosts, up1, up2)
    <3>2. ~a.err /\ a.accessible
          /\ auth'[w].cred = CloneCredential(w, a.requiresAuth) /\ auth'[w].hosts = auth[w].hosts
      BY <1>2, <3>1 DEF Return, TypeOK
    <3>3. auth[w].cred \in Credentials /\ Url(w)' = Url(w)
      BY <3>1 DEF AuthInv, Url
    <3> QED BY <3>2, <3>3, AccessGivesClone DEF CloneCredential
  <2>2. CASE pc'[w] = pc[w] /\ auth'[w] = auth[w] /\ Url(w)' = Url(w)
    BY <1>2, <2>2 DEF AuthInv, CloneAuthWorks
  <2> QED BY <1>2, <2>1, <2>2, ReachesClone
<1> QED BY <1>1, <1>2 DEF AuthInv, CloneAuthWorks

(* Whatever kind of credential the Secret holds for whatever URL, a         *)
(* repository that passed CheckAccess is cloned with a transport its server *)
(* accepts.                                                                 *)
THEOREM CloneAuthCorrect == Spec => []CloneAuthWorks
<1>1. Init => AuthInv
  BY DEF Init, AuthInv, CloneAuthWorks
<1>2. TypeOK /\ AuthInv /\ [Next]_vars => AuthInv'
  BY AuthStep
<1>3. AuthInv => CloneAuthWorks
  BY DEF AuthInv
<1> QED BY <1>1, <1>2, <1>3, TypeCorrect, PTL DEF Spec

-----------------------------------------------------------------------------
(* x is a version of p's object: older than the next one, and the stored    *)
(* one only if it has its spec.                                             *)
VersionOf(x, p) ==
  /\ x.rv < nextRv[p]
  /\ api[p] # None /\ api[p].rv = x.rv => api[p].spec = x.spec

VersionInv ==
  /\ \A p \in Proxies : api[p] # None => VersionOf(api[p], p)
  /\ \A p \in Proxies : cache[p] # None => VersionOf(cache[p], p)
  /\ \A w \in Workers : obj[w] # None => VersionOf(obj[w], key[w])

(* A write by a user or of the status makes a version nobody holds a copy   *)
(* of, or leaves the spec alone.                                            *)
LEMMA WriteVersion ==
  ASSUME TypeOK, VersionInv, NEW p \in Proxies, NEW new \in Object,
         api' = [api EXCEPT ![p] = new], UNCHANGED <<cache, key, obj>>,
         \/ nextRv' = nextRv /\ new = api[p]
         \/ nextRv' = [nextRv EXCEPT ![p] = nextRv[p] + 1] /\ new.rv = nextRv[p]
  PROVE  VersionInv'
<1>1. CASE nextRv' = nextRv /\ new = api[p]
  <2>1. api' = api
    BY <1>1 DEF TypeOK
  <2> QED BY <1>1, <2>1 DEF VersionInv, VersionOf
<1>2. CASE nextRv' = [nextRv EXCEPT ![p] = nextRv[p] + 1] /\ new.rv = nextRv[p]
  <2>1. nextRv[p] \in Nat /\ nextRv'[p] = nextRv[p] + 1 /\ api'[p] = new
    BY <1>2 DEF TypeOK
  <2>2. \A q \in Proxies \ {p} : nextRv'[q] = nextRv[q] /\ api'[q] = api[q]
    BY <1>2 DEF TypeOK
  <2>3. ASSUME NEW x \in Object, NEW q \in Proxies, VersionOf(x, q)
        PROVE  VersionOf(x, q)'
    <3>1. x.rv \in Nat /\ x.rv < nextRv[q]
      BY <2>3 DEF VersionOf, Object
    <3>2. CASE q = p
      BY <1>2, <2>1, <3>1, <3>2 DEF VersionOf
    <3>3. CASE q # p
      BY <2>2, <2>3, <3>3 DEF VersionOf
    <3> QED BY <3>2, <3>3
  <2>4. VersionOf(new, p)'
    BY <1>2, <2>1 DEF VersionOf
  <2>5. \A q \in Proxies : api'[q] # None => VersionOf(api[q], q)'
    BY <2>1, <2>2, <2>3, <2>4 DEF VersionInv, VersionOf, TypeOK
  <2>6. \A q \in Proxies : cache'[q] # None => VersionOf(cache[q], q)'
    BY <2>3 DEF VersionInv, VersionOf, TypeOK
  <2>7. \A w \in Workers : obj'[w] # None => VersionOf(obj[w], key[w])'
    BY <2>3, NoneIsNoValue DEF VersionInv, VersionOf, TypeOK, WorkerShape
  <2> QED BY <2>5, <2>6, <2>7 DEF VersionInv
<1> QED BY <1>1, <1>2

(* A step that writes no object and only copies versions about.             *)
LEMMA CopyVersion ==
  ASSUME VersionInv, UNCHANGED store,
         \A p \in Proxies : cache'[p] \in {cache[p], api[p], None},
         \A w \in Workers :
           \/ obj'[w] = None
           \/ key'[w] = key[w] /\ obj[w] # None /\ obj'[w].rv = obj[w].rv /\ obj'[w].spec = obj[w].spec
           \/ key'[w] \in Proxies /\ obj'[w] = cache[key'[w]]
  PROVE  VersionInv'
<1>1. \A p \in Proxies : api'[p] # None => VersionOf(api[p], p)'
  BY DEF VersionInv, VersionOf, store
<1>2. \A p \in Proxies : cache'[p] # None => VersionOf(cache[p], p)'
  BY DEF VersionInv, VersionOf, store
<1>3. \A w \in Workers : obj'[w] # None => VersionOf(obj[w], key[w])'
  BY DEF VersionInv, VersionOf, store
<1> QED BY <1>1, <1>2, <1>3 DEF VersionInv

LEMMA StatusVersion ==
  ASSUME TypeOK, VersionInv, NEW w \in Workers, StatusUpdate(w)
  PROVE  VersionInv'
<1>1. /\ key[w] \in Proxies /\ api[key[w]] \in Object /\ obj[w] \in Object
      /\ api' = [api EXCEPT ![key[w]] = Stored(w)] /\ UNCHANGED <<cache, key, obj>>
  BY BusyTypes DEF StatusUpdate, Storable, TypeOK
<1>2. nextRv[key[w]] \in Nat
  BY <1>1 DEF TypeOK
<1>3. Stored(w) \in Object
  BY <1>1, <1>2 DEF Stored, Object
<1>4. \/ nextRv' = nextRv /\ Stored(w) = api[key[w]]
      \/ /\ nextRv' = [nextRv EXCEPT ![key[w]] = nextRv[key[w]] + 1]
         /\ Stored(w).rv = nextRv[key[w]]
  <2>1. CASE api' = api
    <3>1. Stored(w) = api[key[w]]
      BY <1>1, <2>1 DEF TypeOK
    <3> QED BY <2>1, <3>1 DEF StatusUpdate
  <2>2. CASE api' # api
    <3>1. Stored(w) # api[key[w]]
      BY <1>1, <2>2 DEF TypeOK
    <3>2. Stored(w).rv = nextRv[key[w]]
      BY <1>1, <1>2, <3>1 DEF Stored, Object
    <3> QED BY <2>2, <3>2 DEF StatusUpdate
  <2> QED BY <2>1, <2>2
<1> QED BY <1>1, <1>3, <1>4, WriteVersion

LEMMA VersionStep ==
  ASSUME TypeOK, VersionInv, [Next]_vars
  PROVE  VersionInv'
<1>1. CASE UNCHANGED <<api, nextRv, cache, obj, key>>
  BY <1>1 DEF VersionInv, VersionOf
<1>2. ASSUME NEW w \in Workers, LocalStep(w), UNCHANGED <<api, nextRv, cache>>
      PROVE  VersionInv'
  <2>1. obj[w] \in Object /\ key' = key
    BY <1>2, BusyTypes DEF LocalStep
  <2>2. \A v \in Workers : \/ obj'[v] = obj[v]
                           \/ /\ obj[v] # None /\ obj'[v].spec = obj[v].spec
                              /\ obj'[v].rv = obj[v].rv
    BY <1>2, <2>1, SetConditionType, NoneIsNoValue DEF LocalStep
  <2> QED BY <1>2, <2>1, <2>2, CopyVersion DEF store
<1>3. ASSUME NEW w \in Workers, NEW p \in Proxies, Get(w, p)
      PROVE  VersionInv'
  <2>1. UNCHANGED store /\ cache' = cache
    BY <1>3 DEF Get
  <2>2. \A v \in Workers : \/ v = w /\ key'[v] = p /\ obj'[v] = cache[p]
                           \/ v # w /\ key'[v] = key[v] /\ obj'[v] = obj[v]
    BY <1>3 DEF Get, TypeOK
  <2> QED BY <2>1, <2>2, CopyVersion
<1>4. ASSUME NEW w \in Workers, NEW err, Release(w, err), UNCHANGED <<api, nextRv, cache>>
      PROVE  VersionInv'
  <2>1. \A v \in Workers : \/ obj'[v] = None
                           \/ key'[v] = key[v] /\ obj'[v] = obj[v]
    BY <1>4 DEF Release, TypeOK
  <2> QED BY <1>4, <2>1, CopyVersion DEF store
<1>5. ASSUME NEW p \in Proxies, CacheSync(p)
      PROVE  VersionInv'
  <2>1. UNCHANGED <<api, nextRv, obj, key>>
        /\ \A q \in Proxies : cache'[q] \in {cache[q], api[q], None}
    BY <1>5 DEF CacheSync, store, locals, TypeOK
  <2> QED BY <2>1, CopyVersion DEF store
<1>6. CASE Crash
  <2>1. UNCHANGED store /\ (\A q \in Proxies : cache'[q] = None)
        /\ (\A v \in Workers : obj'[v] = None)
    BY <1>6 DEF Crash
  <2> QED BY <2>1, CopyVersion
<1>7. ASSUME NEW p \in Proxies, NEW s \in ProxySpecs[p], CreateProxy(p, s) \/ UpdateProxy(p, s)
      PROVE  VersionInv'
  <2>1. PICK ready \in {"Unknown", "True", "False"}, available \in {"Unknown", "False"} :
          WriteSpec(p, s, ready, available)
    BY <1>7 DEF CreateProxy, UpdateProxy, TypeOK, Object
  <2>2. [spec |-> s, ready |-> ready, available |-> available, rv |-> nextRv[p]] \in Object
    BY ProxyReconcilerConstants DEF Object, TypeOK
  <2> QED BY <2>1, <2>2, WriteVersion DEF WriteSpec, locals
<1>8. ASSUME NEW p \in Proxies, DeleteProxy(p)
      PROVE  VersionInv'
  BY <1>8 DEF DeleteProxy, locals, VersionInv, VersionOf, TypeOK
<1>9. ASSUME NEW w \in Workers, WorkerStep(w)
      PROVE  VersionInv'
  <2>1. CASE Clone(w) \/ Synthesize(w)
    BY <1>1, <2>1 DEF Clone, Synthesize, store, locals
  <2>2. CASE Cleanup(w) \/ CleanupFails(w)
    BY <1>4, <2>2 DEF Cleanup, CleanupFails, store
  <2>3. CASE \/ ReadSecret(w) \/ ReadKnownHosts(w) \/ CheckRepository(w) \/ CloneFails(w) \/ SynthesizeFails(w)
             \/ ApplyClusterList(w) \/ ApplyClusterClient(w)
             \/ ApplyResource(w) \/ ApplyResourceFails(w)
             \/ CheckClusterList(w) \/ CheckResource(w) \/ StatusUpdateFails(w)
    <3>1. LocalStep(w)
      BY <2>3, WorkIsLocal
    <3>2. UNCHANGED <<api, nextRv, cache>>
      BY <2>3 DEF ReadSecret, ReadKnownHosts, CheckRepository, CloneFails, SynthesizeFails, ApplyClusterList,
                  ApplyClusterClient, ApplyResource, ApplyResourceFails, CheckClusterList,
                  CheckResource, StatusUpdateFails, store
    <3> QED BY <1>2, <3>1, <3>2
  <2>4. CASE CheckClusterClient(w)
    <3>1. LocalStep(w)
      BY <2>4, WorkIsLocal
    <3>2. UNCHANGED <<api, nextRv, cache>>
      BY <2>4 DEF CheckClusterClient, store
    <3> QED BY <1>2, <3>1, <3>2
  <2> QED BY <1>9, <2>1, <2>2, <2>3, <2>4, StatusVersion DEF WorkerStep
<1>10. ASSUME NEW p \in Proxies, Resync(p) \/ Backoff(p) \/ Take(p)
       PROVE  VersionInv'
  <2>1. ASSUME NEW w \in Workers, GetNotFound(w, p)
        PROVE  VersionInv'
    BY <1>1, <2>1 DEF GetNotFound, store, locals
  <2>2. CASE Resync(p) \/ Backoff(p)
    BY <1>1, <2>2 DEF Resync, Backoff, store, locals
  <2> QED BY <1>3, <1>10, <2>1, <2>2 DEF Take
<1>11. CASE Environment
  <2>1. CASE /\ ~Crash
             /\ \A p \in Proxies : ~DeleteProxy(p)
             /\ \A p \in Proxies : \A s \in ProxySpecs[p] : ~CreateProxy(p, s) /\ ~UpdateProxy(p, s)
    <3>1. UNCHANGED <<api, nextRv, cache, obj, key>>
      BY <1>11, <2>1 DEF Environment, SetSecret, Push, ClusterEvent, SetKube, Drift, store, locals
    <3> QED BY <1>1, <3>1
  <2> QED BY <1>6, <1>7, <1>8, <2>1
<1>12. CASE UNCHANGED vars
  BY <1>1, <1>12 DEF vars
<1> QED BY <1>5, <1>9, <1>10, <1>11, <1>12 DEF Next, Manager

(* Only a status update makes an object Ready.                              *)
LEMMA ReadyByStatus ==
  ASSUME TypeOK, [Next]_vars, NEW p \in Proxies, BecomesReady(p)
  PROVE  \E w \in Workers : StatusUpdate(w) /\ key[w] = p
<1>1. api'[p] # api[p]
  BY DEF BecomesReady
<1>2. ASSUME NEW q \in Proxies, NEW s \in ProxySpecs[q], CreateProxy(q, s) \/ UpdateProxy(q, s)
      PROVE  FALSE
  BY <1>2 DEF CreateProxy, UpdateProxy, WriteSpec, BecomesReady, TypeOK
<1>3. ASSUME NEW q \in Proxies, DeleteProxy(q)
      PROVE  FALSE
  BY <1>3 DEF DeleteProxy, BecomesReady, TypeOK
<1>4. ASSUME NEW w \in Workers, WorkerStep(w)
      PROVE  StatusUpdate(w) /\ key[w] = p
  <2>1. CASE StatusUpdate(w)
    BY <1>1, <2>1 DEF StatusUpdate, TypeOK
  <2>2. CASE ~StatusUpdate(w)
    <3>1. api' = api
      BY <1>4, <2>2 DEF WorkerStep, ReadSecret, ReadKnownHosts, CheckRepository, Clone, CloneFails, Synthesize,
             SynthesizeFails, ApplyClusterList, ApplyClusterClient, ApplyResource,
             ApplyResourceFails, CheckClusterList, CheckClusterClient, CheckResource,
             StatusUpdateFails, Cleanup, CleanupFails, store
    <3> QED BY <1>1, <3>1
  <2> QED BY <2>1, <2>2
<1>5. CASE Environment
  BY <1>1, <1>2, <1>3, <1>5
  DEF Environment, SetSecret, Push, ClusterEvent, SetKube, Drift, Crash, store
<1>6. ASSUME NEW q \in Proxies, CacheSync(q) \/ Resync(q) \/ Backoff(q) \/ Take(q)
      PROVE  FALSE
  BY <1>1, <1>6 DEF CacheSync, Resync, Backoff, Take, Get, GetNotFound, store
<1>7. ~UNCHANGED vars
  BY <1>1 DEF vars
<1> QED BY <1>4, <1>5, <1>6, <1>7 DEF Next, Manager

(* Where no two proxies share a directory, Ready is set by the worker that  *)
(* synthesized from the repository and branch of the spec now stored, and   *)
(* reconciled that very spec, whoever edited, deleted or created the object *)
(* meanwhile.                                                               *)
THEOREM ReadyDescribesSpecCorrect == DirectoriesApart /\ Spec => ReadyDescribesSpec
<1> SUFFICES ASSUME DirectoriesApart PROVE Spec => ReadyDescribesSpec
  OBVIOUS
<1>1. TypeOK /\ IsolationInv /\ [Next]_vars => IsolationInv'
  BY IsolationStep
<1>2. Init => VersionInv
  BY DEF Init, VersionInv
<1>3. TypeOK /\ VersionInv /\ [Next]_vars => VersionInv'
  BY VersionStep
<1> DEFINE SeenReady ==
      \A p \in Proxies : BecomesReady(p) =>
        \E w \in Workers : /\ pc[w] = "status" /\ key[w] = p
                           /\ obj[w].spec = api'[p].spec
                           /\ src[w].url = api'[p].spec.git.url
                           /\ src[w].ref = api'[p].spec.git.ref
<1>4. TypeOK /\ IsolationInv /\ VersionInv /\ [Next]_vars => [SeenReady]_vars
  <2> SUFFICES ASSUME TypeOK, IsolationInv, VersionInv, [Next]_vars,
                      NEW p \in Proxies, BecomesReady(p)
               PROVE  \E w \in Workers : /\ pc[w] = "status" /\ key[w] = p
                                         /\ obj[w].spec = api'[p].spec
                                         /\ src[w].url = api'[p].spec.git.url
                                         /\ src[w].ref = api'[p].spec.git.ref
    OBVIOUS
  <2>1. PICK w \in Workers : StatusUpdate(w) /\ key[w] = p
    BY ReadyByStatus
  <2>2. /\ pc[w] = "status" /\ obj[w] \in Object /\ obj[w] # None
        /\ api[p] \in Object /\ api[p].rv = obj[w].rv /\ api'[p] = Stored(w)
    BY <2>1, BusyTypes, NoneIsNoValue DEF StatusUpdate, Storable, TypeOK
  <2>3. api[p].spec = obj[w].spec
    BY <2>1, <2>2, NoneIsNoValue DEF VersionInv, VersionOf
  <2>4. api'[p].spec = api[p].spec
    BY <2>1, <2>2 DEF Stored, Object
  <2>5. Held(w) = src[w] /\ src[w] # None
    BY <2>2 DEF Held, TypeOK, WorkerShape
  <2>6. src[w].url = obj[w].spec.git.url /\ src[w].ref = obj[w].spec.git.ref
    BY <2>5 DEF IsolationInv, HoldsOwnSource, Url
  <2> QED BY <2>1, <2>2, <2>3, <2>4, <2>6
<1> QED BY <1>1, <1>2, <1>3, <1>4, IsolationInit, TypeCorrect, PTL DEF Spec, ReadyDescribesSpec

-----------------------------------------------------------------------------
(* Events that arrive during a reconciliation.                              *)

(* No stored spec makes the mapper give up.                                 *)
SelectorsParse == \A p \in Proxies : \A s \in ProxySpecs[p] : s.selValid

(* Equal resourceVersions mean equal specs, and no event is lost.           *)
CacheAgrees ==
  \A w \in Workers :
    obj[w] # None /\ cache[key[w]] # None /\ cache[key[w]].rv = obj[w].rv
      => cache[key[w]].spec = obj[w].spec

WakeInv == CacheAgrees /\ NoLostWakeup

Looping == {"apply", "checkList", "check", "status"}

(* What a worker's own step does to what NoLostWakeup reads of it: it goes  *)
(* on with the same version and the same clusters, or lists them anew.      *)
KeepsWatch(w) ==
  /\ UNCHANGED <<cache, label, dirty>>
  /\ \A v \in Workers \ {w} : /\ pc'[v] = pc[v] /\ key'[v] = key[v] /\ obj'[v] = obj[v]
                              /\ loop'[v] = loop[v]
  /\ \/ pc'[w] = "idle" /\ obj'[w] = None
     \/ /\ pc[w] # "idle" /\ key'[w] = key[w] /\ obj[w] # None
        /\ obj'[w].rv = obj[w].rv /\ obj'[w].spec = obj[w].spec
        /\ \/ pc'[w] \notin Looping
           \/ pc[w] \in Looping /\ loop'[w].items = loop[w].items
           \/ loop'[w].items = Selected(w)

LEMMA WorkKeepsWatch ==
  ASSUME TypeOK, NEW w \in Workers, WorkerStep(w)
  PROVE  KeepsWatch(w)
<1>1. pc[w] # "idle" /\ obj[w] \in Object /\ obj[w] # None /\ loop[w] \in Loops
  <2>1. pc[w] # "idle"
    BY DEF WorkerStep, ReadSecret, ReadKnownHosts, CheckRepository, Clone, CloneFails, Synthesize,
           SynthesizeFails, ApplyClusterList, ApplyClusterClient, ApplyResource,
           ApplyResourceFails, CheckClusterList, CheckClusterClient, CheckResource,
           StatusUpdate, StatusUpdateFails, Cleanup, CleanupFails
  <2> QED BY <2>1, BusyTypes, NoneIsNoValue DEF TypeOK
<1>2. ASSUME SetCondition(w, "ready", "True") \/ SetCondition(w, "ready", "False")
             \/ SetCondition(w, "available", "False")
      PROVE  /\ obj'[w].rv = obj[w].rv /\ obj'[w].spec = obj[w].spec
             /\ \A v \in Workers \ {w} : obj'[v] = obj[v]
  BY <1>1, <1>2, SetConditionType
<1>3. ASSUME NEW err, Return(w, err)
      PROVE  /\ pc'[w] \notin Looping
             /\ \A v \in Workers \ {w} : pc'[v] = pc[v] /\ loop'[v] = loop[v]
  BY <1>3 DEF Return, TypeOK, Looping
<1>4. CASE \/ ReadSecret(w) \/ ReadKnownHosts(w) \/ CheckRepository(w) \/ Clone(w) \/ CloneFails(w)
           \/ Synthesize(w) \/ SynthesizeFails(w)
  <2>1. UNCHANGED <<cache, label, dirty, key>>
    BY <1>4 DEF ReadSecret, ReadKnownHosts, CheckRepository, Clone, CloneFails, Synthesize, SynthesizeFails,
                queue, world
  <2>2. /\ obj'[w].rv = obj[w].rv /\ obj'[w].spec = obj[w].spec
        /\ \A v \in Workers \ {w} : obj'[v] = obj[v]
    BY <1>2, <1>4 DEF ReadSecret, ReadKnownHosts, CheckRepository, Clone, CloneFails, Synthesize,
                      SynthesizeFails, locals
  <2>3. /\ pc'[w] \notin Looping
        /\ \A v \in Workers \ {w} : pc'[v] = pc[v] /\ loop'[v] = loop[v]
    BY <1>3, <1>4 DEF ReadSecret, ReadKnownHosts, CheckRepository, Clone, CloneFails, Synthesize,
                      SynthesizeFails, locals, Goto, TypeOK, Looping
  <2> QED BY <1>1, <2>1, <2>2, <2>3 DEF KeepsWatch
<1>5. CASE ApplyClusterList(w) \/ CheckClusterList(w)
  <2>1. UNCHANGED <<cache, label, dirty, key>>
    BY <1>5 DEF ApplyClusterList, CheckClusterList, queue, world
  <2>2. /\ obj'[w].rv = obj[w].rv /\ obj'[w].spec = obj[w].spec
        /\ \A v \in Workers \ {w} : obj'[v] = obj[v]
    BY <1>2, <1>5 DEF ApplyClusterList, CheckClusterList
  <2>3. CASE StartLoop(w) /\ (Goto(w, "apply") \/ Goto(w, "check"))
    <3>1. loop'[w].items = Selected(w)
          /\ \A v \in Workers \ {w} : pc'[v] = pc[v] /\ loop'[v] = loop[v]
      BY <2>3 DEF StartLoop, Goto, TypeOK
    <3> QED BY <1>1, <2>1, <2>2, <3>1 DEF KeepsWatch
  <2>4. CASE Return(w, "err")
    BY <1>1, <1>3, <2>1, <2>2, <2>4 DEF KeepsWatch
  <2> QED BY <1>5, <2>3, <2>4 DEF ApplyClusterList, CheckClusterList
<1>6. CASE \/ ApplyClusterClient(w) \/ ApplyResource(w) \/ ApplyResourceFails(w)
           \/ CheckClusterClient(w) \/ CheckResource(w)
  <2>1. UNCHANGED <<cache, label, dirty, key>> /\ pc[w] \in Looping
    BY <1>6 DEF ApplyClusterClient, ApplyResource, ApplyResourceFails, CheckClusterClient,
                CheckResource, queue, world, Looping
  <2>2. /\ obj'[w].rv = obj[w].rv /\ obj'[w].spec = obj[w].spec
        /\ \A v \in Workers \ {w} : obj'[v] = obj[v]
    BY <1>2, <1>6 DEF ApplyClusterClient, ApplyResource, ApplyResourceFails, CheckClusterClient,
                CheckResource
  <2>3. Advanced(w).items = loop[w].items
        /\ \A m : [Advanced(w) EXCEPT !.missing = m].items = loop[w].items
    BY <1>1 DEF Advanced, Loops
  <2>4. CASE loop'[w].items = loop[w].items
             /\ \A v \in Workers \ {w} : pc'[v] = pc[v] /\ loop'[v] = loop[v]
    BY <1>1, <2>1, <2>2, <2>4 DEF KeepsWatch
  <2>5. CASE \E err \in {"nil", "err", "panic"} : Return(w, err)
    BY <1>1, <1>3, <2>1, <2>2, <2>5 DEF KeepsWatch
  <2>6. ASSUME NEW c, Skip(w, c) \/ Enter(w, c)
        PROVE  /\ loop'[w].items = loop[w].items
               /\ \A v \in Workers \ {w} : loop'[v] = loop[v]
    BY <1>1, <2>6 DEF Skip, Enter, Loops, TypeOK
  <2>7. CASE ApplyClusterClient(w)
    BY <2>4, <2>5, <2>6, <2>7 DEF ApplyClusterClient, Goto, TypeOK
  <2>8. CASE ApplyResource(w) \/ ApplyResourceFails(w)
    <3>1. CASE ApplyResource(w)
      BY <2>3, <2>4, <3>1 DEF ApplyResource, TypeOK
    <3>2. CASE ApplyResourceFails(w)
      <4>1. pc' = pc /\ loop' = [loop EXCEPT ![w].cur = None, ![w].idx = 0]
        BY <3>2 DEF ApplyResourceFails
      <4>2. /\ loop'[w].items = loop[w].items
            /\ \A v \in Workers \ {w} : pc'[v] = pc[v] /\ loop'[v] = loop[v]
        BY <1>1, <4>1 DEF Loops, TypeOK
      <4> QED BY <2>4, <4>2
    <3> QED BY <2>8, <3>1, <3>2
  <2>9. CASE CheckClusterClient(w)
    BY <2>4, <2>5, <2>6, <2>9 DEF CheckClusterClient, Goto, TypeOK
  <2>10. CASE CheckResource(w)
    <3>1. CASE Return(w, "err")
      BY <2>5, <3>1
    <3>2. CASE ~Return(w, "err")
      <4>1. /\ pc' = pc
            /\ \E m : loop' = [loop EXCEPT ![w] = [Advanced(w) EXCEPT !.missing = m]]
        BY <2>10, <3>2 DEF CheckResource
      <4>2. /\ loop'[w].items = loop[w].items
            /\ \A v \in Workers \ {w} : pc'[v] = pc[v] /\ loop'[v] = loop[v]
        BY <2>3, <4>1 DEF TypeOK
      <4> QED BY <2>4, <4>2
    <3> QED BY <3>1, <3>2
  <2> QED BY <1>6, <2>7, <2>8, <2>9, <2>10
<1>7. CASE StatusUpdate(w) \/ StatusUpdateFails(w)
  BY <1>1, <1>3, <1>7 DEF StatusUpdate, StatusUpdateFails, store, queue, world, KeepsWatch
<1>8. CASE Cleanup(w) \/ CleanupFails(w)
  BY <1>1, <1>8 DEF Cleanup, CleanupFails, Release, TypeOK, world, KeepsWatch
<1> QED BY <1>4, <1>5, <1>6, <1>7, <1>8 DEF WorkerStep

LEMMA WorkWakes ==
  ASSUME TypeOK, WakeInv, NEW w \in Workers, KeepsWatch(w)
  PROVE  WakeInv'
<1>1. ASSUME NEW v \in Workers, v # w
      PROVE  /\ (obj[v] # None /\ cache[key[v]] # None /\ cache[key[v]].rv = obj[v].rv
                   => cache[key[v]].spec = obj[v].spec)'
             /\ (pc[v] # "idle" /\ (OutdatedObject(v) \/ OutdatedClusters(v)) => key[v] \in dirty)'
  BY <1>1 DEF KeepsWatch, WakeInv, CacheAgrees, NoLostWakeup, OutdatedObject, OutdatedClusters
<1>2. (obj[w] # None /\ cache[key[w]] # None /\ cache[key[w]].rv = obj[w].rv
         => cache[key[w]].spec = obj[w].spec)'
  BY DEF KeepsWatch, WakeInv, CacheAgrees
<1>3. ASSUME pc'[w] # "idle", OutdatedObject(w)' \/ OutdatedClusters(w)'
      PROVE  key'[w] \in dirty'
  <2>1. /\ pc[w] # "idle" /\ key'[w] = key[w] /\ cache' = cache /\ label' = label /\ dirty' = dirty
        /\ obj'[w].rv = obj[w].rv /\ obj'[w].spec = obj[w].spec
    BY <1>3 DEF KeepsWatch
  <2>2. OutdatedObject(w)' => OutdatedObject(w)
    BY <2>1 DEF OutdatedObject
  <2>3. OutdatedClusters(w)' => OutdatedClusters(w)
    <3>1. SUFFICES ASSUME OutdatedClusters(w)' PROVE OutdatedClusters(w)
      OBVIOUS
    <3>2. pc'[w] \in Looping
      BY <3>1 DEF OutdatedClusters, Looping
    <3>3. loop'[w].items # Selected(w)
      BY <2>1, <3>1 DEF OutdatedClusters, Selected
    <3>4. pc[w] \in Looping /\ loop'[w].items = loop[w].items
      BY <1>3, <3>2, <3>3 DEF KeepsWatch
    <3> QED BY <2>1, <3>1, <3>4 DEF OutdatedClusters, Looping
  <2> QED BY <1>3, <2>1, <2>2, <2>3 DEF WakeInv, NoLostWakeup
<1> QED BY <1>1, <1>2, <1>3 DEF WakeInv, CacheAgrees, NoLostWakeup

(* Taking a key: no other worker has it, and this one reads the cache.      *)
LEMMA TakeWakes ==
  ASSUME TypeOK, WakeInv, NEW p \in Proxies, Take(p)
  PROVE  WakeInv'
<1>1. ASSUME NEW w \in Workers, Get(w, p)
      PROVE  WakeInv'
  <2>1. /\ cache' = cache /\ label' = label /\ loop' = loop /\ dirty' = dirty \ {p}
        /\ p \notin Processing /\ cache[p] # None
        /\ pc' = [pc EXCEPT ![w] = "secret"]
        /\ key' = [key EXCEPT ![w] = p] /\ obj' = [obj EXCEPT ![w] = cache[p]]
    BY <1>1 DEF Get, Goto, world
  <2>2. pc'[w] = "secret" /\ key'[w] = p /\ obj'[w] = cache[p]
    BY <2>1 DEF TypeOK
  <2>3. \A v \in Workers \ {w} : /\ pc'[v] = pc[v] /\ key'[v] = key[v] /\ obj'[v] = obj[v]
                                 /\ pc[v] # "idle" => key[v] # p
    BY <2>1 DEF TypeOK, Processing
  <2>4. CacheAgrees'
    BY <2>1, <2>2, <2>3 DEF WakeInv, CacheAgrees
  <2>5. ~OutdatedObject(w)' /\ ~OutdatedClusters(w)'
    BY <2>1, <2>2 DEF OutdatedObject, OutdatedClusters
  <2>6. \A v \in Workers \ {w} : /\ OutdatedObject(v)' => OutdatedObject(v)
                                 /\ OutdatedClusters(v)' => OutdatedClusters(v)
    BY <2>1, <2>3 DEF OutdatedObject, OutdatedClusters
  <2>7. NoLostWakeup'
    BY <2>1, <2>3, <2>5, <2>6 DEF WakeInv, NoLostWakeup
  <2> QED BY <2>4, <2>7 DEF WakeInv
<1>2. ASSUME NEW w \in Workers, GetNotFound(w, p)
      PROVE  WakeInv'
  <2>1. /\ UNCHANGED <<cache, label, loop, pc, key, obj>> /\ dirty' = dirty \ {p}
        /\ \A v \in Workers : pc[v] # "idle" => key[v] # p
    BY <1>2 DEF GetNotFound, world, locals, Processing
  <2> QED BY <2>1 DEF WakeInv, CacheAgrees, NoLostWakeup, OutdatedObject, OutdatedClusters
<1> QED BY <1>1, <1>2 DEF Take

(* The informer's news put the key in the queue.                            *)
LEMMA SyncWakes ==
  ASSUME TypeOK, WakeInv, VersionInv, NEW p \in Proxies, CacheSync(p)
  PROVE  WakeInv'
<1>1. /\ UNCHANGED <<label, pc, key, obj, loop, api>>
      /\ dirty' = dirty \cup {p} /\ cache' = [cache EXCEPT ![p] = api[p]]
  BY DEF CacheSync, store, world, locals
<1>2. cache'[p] = api[p] /\ \A q \in Proxies \ {p} : cache'[q] = cache[q]
  BY <1>1 DEF TypeOK
<1>3. ASSUME NEW w \in Workers, obj[w] # None
      PROVE  key[w] \in Proxies
  BY <1>3 DEF TypeOK, WorkerShape
<1>4. CacheAgrees'
  <2> SUFFICES ASSUME NEW w \in Workers, obj'[w] # None, cache'[key'[w]] # None,
                      cache'[key'[w]].rv = obj'[w].rv
               PROVE  cache'[key'[w]].spec = obj'[w].spec
    BY DEF CacheAgrees
  <2>1. CASE key[w] = p
    BY <1>1, <1>2, <2>1 DEF VersionInv, VersionOf
  <2>2. CASE key[w] # p
    BY <1>1, <1>2, <1>3, <2>2 DEF WakeInv, CacheAgrees
  <2> QED BY <2>1, <2>2
<1>5. NoLostWakeup'
  <2> SUFFICES ASSUME NEW w \in Workers, pc'[w] # "idle",
                      OutdatedObject(w)' \/ OutdatedClusters(w)', key[w] # p
               PROVE  key'[w] \in dirty'
    BY <1>1 DEF NoLostWakeup
  <2>1. key[w] \in Proxies
    BY <1>1 DEF TypeOK, WorkerShape
  <2>2. OutdatedObject(w) \/ OutdatedClusters(w)
    BY <1>1, <1>2, <2>1 DEF OutdatedObject, OutdatedClusters
  <2> QED BY <1>1, <2>2 DEF WakeInv, NoLostWakeup
<1> QED BY <1>4, <1>5 DEF WakeInv

(* A cluster's event puts every object of its namespace in the queue that   *)
(* selected it before or selects it now, by the cached spec.                *)
LEMMA ClusterWakes ==
  ASSUME SelectorsParse, TypeOK, WakeInv, KnownSpecs,
         NEW c \in Clusters, NEW l \in Labels \cup {Gone}, ClusterEvent(c, l)
  PROVE  WakeInv'
<1>1. PICK before \in ClusterToCdk8sAppProxyMapper(c, label[c]),
           after \in ClusterToCdk8sAppProxyMapper(c, l) :
        dirty' = dirty \cup before \cup after
  BY DEF ClusterEvent
<1>2. /\ UNCHANGED <<cache, pc, key, obj, loop>> /\ label' = [label EXCEPT ![c] = l]
  BY DEF ClusterEvent, locals
<1>3. label'[c] = l /\ \A d \in Clusters \ {c} : label'[d] = label[d]
  BY <1>2 DEF TypeOK
<1>4. \A p \in Listed(c) : cache[p].spec.selValid
  BY DEF Listed, KnownSpecs, SelectorsParse
<1>5. \A p \in Listed(c) : /\ label[c] \in cache[p].spec.sel => p \in before
                           /\ l \in cache[p].spec.sel => p \in after
  BY <1>1, <1>4 DEF ClusterToCdk8sAppProxyMapper
<1>6. CacheAgrees'
  BY <1>2 DEF WakeInv, CacheAgrees
<1>7. NoLostWakeup'
  <2> SUFFICES ASSUME NEW w \in Workers, pc'[w] # "idle",
                      OutdatedObject(w)' \/ OutdatedClusters(w)', key[w] \notin dirty
               PROVE  key'[w] \in dirty'
    BY <1>1, <1>2 DEF NoLostWakeup
  <2>1. ~OutdatedObject(w) /\ ~OutdatedClusters(w)
    BY <1>2 DEF WakeInv, NoLostWakeup
  <2>2. /\ key[w] \in Proxies /\ obj[w] # None
        /\ cache[key[w]] # None /\ cache[key[w]].spec = obj[w].spec
    <3>1. pc[w] # "idle"
      BY <1>2
    <3>2. key[w] \in Proxies /\ obj[w] # None
      BY <3>1 DEF TypeOK, WorkerShape
    <3>3. cache[key[w]] # None /\ cache[key[w]].rv = obj[w].rv
      BY <2>1 DEF OutdatedObject
    <3> QED BY <3>2, <3>3 DEF WakeInv, CacheAgrees
  <2>3. OutdatedClusters(w)'
    BY <1>2, <2>1 DEF OutdatedObject
  <2>4. PICK d \in Clusters : /\ ClusterNamespace[d] = Namespace[key[w]]
                              /\ (d \in loop[w].items) # (label'[d] \in obj[w].spec.sel)
    BY <1>2, <2>3 DEF OutdatedClusters
  <2>5. (d \in loop[w].items) <=> (label[d] \in obj[w].spec.sel)
    BY <1>2, <2>1, <2>3, <2>4 DEF OutdatedClusters
  <2>6. d = c /\ (label[c] \in obj[w].spec.sel \/ l \in obj[w].spec.sel)
    <3>1. CASE d # c
      <4>1. label'[d] = label[d]
        BY <1>3, <3>1
      <4> QED BY <2>4, <2>5, <4>1
    <3>2. CASE d = c
      <4>1. label'[d] = l
        BY <1>3, <3>2
      <4> QED BY <2>4, <2>5, <3>2, <4>1
    <3> QED BY <3>1, <3>2
  <2>7. key[w] \in Listed(c)
    BY <2>2, <2>4, <2>6 DEF Listed
  <2> QED BY <1>1, <1>2, <1>5, <2>2, <2>6, <2>7
<1> QED BY <1>6, <1>7 DEF WakeInv

LEMMA WakeStep ==
  ASSUME SelectorsParse, TypeOK, WakeInv, VersionInv, KnownSpecs, [Next]_vars
  PROVE  WakeInv'
<1>1. ASSUME UNCHANGED <<cache, label, pc, key, obj, loop>>, dirty \subseteq dirty'
      PROVE  WakeInv'
  BY <1>1 DEF WakeInv, CacheAgrees, NoLostWakeup, OutdatedObject, OutdatedClusters
<1>2. ASSUME NEW p \in Proxies, Resync(p) \/ Backoff(p)
      PROVE  WakeInv'
  BY <1>1, <1>2 DEF Resync, Backoff, world, locals
<1>3. ASSUME NEW p \in Proxies, CacheSync(p) \/ Resync(p) \/ Backoff(p) \/ Take(p)
      PROVE  WakeInv'
  BY <1>2, <1>3, SyncWakes, TakeWakes
<1>4. ASSUME NEW w \in Workers, WorkerStep(w)
      PROVE  WakeInv'
  BY <1>4, WorkKeepsWatch, WorkWakes
<1>5. CASE Crash
  BY <1>5 DEF Crash, WakeInv, CacheAgrees, NoLostWakeup
<1>6. CASE Environment /\ ~Crash /\ \A c \in Clusters, l \in Labels \cup {Gone} : ~ClusterEvent(c, l)
  <2>1. UNCHANGED <<cache, label, dirty, pc, key, obj, loop>>
    BY <1>6 DEF Environment, CreateProxy, UpdateProxy, WriteSpec, DeleteProxy, SetSecret, Push,
                SetKube, Drift, queue, world, locals
  <2> QED BY <1>1, <2>1
<1>7. CASE UNCHANGED vars
  BY <1>1, <1>7 DEF vars
<1> QED BY <1>3, <1>4, <1>5, <1>6, <1>7, ClusterWakes DEF Next, Manager, Environment

(* Where every selector parses, no event is lost to a reconciliation that   *)
(* is under way: an object changed, or a cluster joining or leaving its     *)
(* selection, since the worker read them has queued the key again (For,     *)
(* Watches, the mapper, the queue that keeps a key dirty).                  *)
THEOREM NoLostWakeupCorrect == SelectorsParse /\ Spec => []NoLostWakeup
<1> SUFFICES ASSUME SelectorsParse PROVE Spec => []NoLostWakeup
  OBVIOUS
<1>1. Init => WakeInv /\ VersionInv /\ KnownSpecs
  BY DEF Init, WakeInv, CacheAgrees, NoLostWakeup, VersionInv, KnownSpecs
<1>2. TypeOK /\ VersionInv /\ [Next]_vars => VersionInv'
  BY VersionStep
<1>3. TypeOK /\ KnownSpecs /\ [Next]_vars => KnownSpecs'
  BY KnownSpecsStep
<1>4. TypeOK /\ WakeInv /\ VersionInv /\ KnownSpecs /\ [Next]_vars => WakeInv'
  BY WakeStep
<1>5. WakeInv => NoLostWakeup
  BY DEF WakeInv
<1> QED BY <1>1, <1>2, <1>3, <1>4, <1>5, TypeCorrect, PTL DEF Spec

-----------------------------------------------------------------------------
(* What Ready says of the clusters. A copy that is Ready and has the stored *)
(* version is Ready in the store, too.                                      *)
Tells(x, p) ==
  x.ready = "True" /\ api[p] # None /\ api[p].rv = x.rv => api[p].ready = "True"

TellsInv ==
  /\ \A p \in Proxies : cache[p] # None => Tells(cache[p], p)
  /\ \A w \in Workers : obj[w] # None /\ pc[w] \notin {"status", "cleanup"}
                          => Tells(obj[w], key[w])

HasAll(w, c) == \A i \in DOMAIN Emitted(w) : Exists(c, Emitted(w)[i])

(* Check has found what it has visited so far.                              *)
Checked(w) ==
  pc[w] = "check" /\ ~loop[w].missing =>
    /\ \A c \in loop[w].items \ (loop[w].todo \cup {loop[w].cur}) : HasAll(w, c)
    /\ loop[w].cur # None =>
         \A i \in 1..(loop[w].idx - 1) : Exists(loop[w].cur, Emitted(w)[i])

(* A status update that makes its object Ready comes of a Check that found  *)
(* everything.                                                              *)
Declares(w) ==
  pc[w] = "status" => Tells(obj[w], key[w]) \/ \A c \in loop[w].items : HasAll(w, c)

Undrifted == left["drift"] = Budget["drift"]

PresentInv ==
  /\ left["drift"] <= Budget["drift"]
  /\ TellsInv
  /\ Undrifted => \A w \in Workers : Checked(w) /\ Declares(w)

-----------------------------------------------------------------------------
(* What a step leaves of the two relations that PresentInv is made of.      *)
TellsOn == \A x \in Object, p \in Proxies : VersionOf(x, p) /\ Tells(x, p) => Tells(x, p)'

LEMMA TellsOnWrite ==
  ASSUME TypeOK, NEW p \in Proxies, NEW new \in Object, api' = [api EXCEPT ![p] = new],
         new = api[p] \/ new.rv = nextRv[p]
  PROVE  TellsOn
<1> SUFFICES ASSUME NEW x \in Object, NEW q \in Proxies, VersionOf(x, q), Tells(x, q)
             PROVE  Tells(x, q)'
  BY DEF TellsOn
<1>1. x.rv \in Nat /\ x.rv < nextRv[q] /\ nextRv[q] \in Nat
  BY DEF VersionOf, Object, TypeOK
<1>2. api'[q] = IF q = p THEN new ELSE api[q]
  BY DEF TypeOK
<1>3. CASE api'[q] = api[q]
  BY <1>3 DEF Tells
<1>4. CASE q = p /\ new.rv = nextRv[p]
  BY <1>1, <1>2, <1>4 DEF Tells
<1> QED BY <1>2, <1>3, <1>4

LEMMA TellsOnStep ==
  ASSUME TypeOK, [Next]_vars
  PROVE  TellsOn
<1>1. CASE UNCHANGED api
  BY <1>1 DEF TellsOn, Tells
<1>2. ASSUME NEW w \in Workers, StatusUpdate(w)
      PROVE  TellsOn
  <2>1. /\ key[w] \in Proxies /\ api[key[w]] \in Object /\ obj[w] \in Object
        /\ api' = [api EXCEPT ![key[w]] = Stored(w)]
    BY <1>2, BusyTypes DEF StatusUpdate, Storable, TypeOK
  <2>2. nextRv[key[w]] \in Nat
    BY <2>1 DEF TypeOK
  <2>3. Stored(w) \in Object /\ (Stored(w) = api[key[w]] \/ Stored(w).rv = nextRv[key[w]])
    BY <2>1, <2>2 DEF Stored, Object
  <2> QED BY <2>1, <2>3, TellsOnWrite
<1>3. ASSUME NEW p \in Proxies, NEW s \in ProxySpecs[p], CreateProxy(p, s) \/ UpdateProxy(p, s)
      PROVE  TellsOn
  <2>1. PICK ready \in {"Unknown", "True", "False"}, available \in {"Unknown", "False"} :
          WriteSpec(p, s, ready, available)
    BY <1>3 DEF CreateProxy, UpdateProxy, TypeOK, Object
  <2>2. [spec |-> s, ready |-> ready, available |-> available, rv |-> nextRv[p]] \in Object
    BY ProxyReconcilerConstants DEF Object, TypeOK
  <2> QED BY <2>1, <2>2, TellsOnWrite DEF WriteSpec
<1>4. ASSUME NEW p \in Proxies, DeleteProxy(p)
      PROVE  TellsOn
  <2>1. \A q \in Proxies : api'[q] = api[q] \/ api'[q] = None
    BY <1>4 DEF DeleteProxy, TypeOK
  <2> QED BY <2>1 DEF TellsOn, Tells
<1>5. ASSUME NEW w \in Workers, WorkerStep(w), ~StatusUpdate(w)
      PROVE  UNCHANGED api
  BY <1>5 DEF WorkerStep, ReadSecret, ReadKnownHosts, CheckRepository, Clone, CloneFails, Synthesize,
       SynthesizeFails, ApplyClusterList, ApplyClusterClient, ApplyResource,
       ApplyResourceFails, CheckClusterList, CheckClusterClient, CheckResource,
       StatusUpdateFails, Cleanup, CleanupFails, store
<1>6. ASSUME NEW p \in Proxies, CacheSync(p) \/ Resync(p) \/ Backoff(p) \/ Take(p)
      PROVE  UNCHANGED api
  BY <1>6 DEF CacheSync, Resync, Backoff, Take, Get, GetNotFound, store
<1>7. CASE Environment
  BY <1>1, <1>3, <1>4, <1>7 DEF Environment, SetSecret, Push, ClusterEvent, SetKube, Drift, Crash, store
<1>8. CASE UNCHANGED vars
  BY <1>1, <1>8 DEF vars
<1> QED BY <1>1, <1>2, <1>5, <1>6, <1>7, <1>8 DEF Next, Manager

(* Only Drift spends its budget, and only Drift takes a resource away.      *)
LEMMA SpendsOtherwise ==
  ASSUME [Next]_vars, \A c \in Clusters, r \in Resources : ~Drift(c, r)
  PROVE  UNCHANGED left \/ \E kind \in Kinds \ {"drift"} : Spend(kind)
<1>1. ASSUME NEW w \in Workers, WorkerStep(w)
      PROVE  UNCHANGED left \/ Spend("fault") \/ Spend("crash")
  <2>1. CASE \/ ReadSecret(w) \/ ReadKnownHosts(w) \/ CheckRepository(w) \/ Clone(w) \/ CloneFails(w)
             \/ Synthesize(w) \/ SynthesizeFails(w)
    BY <2>1 DEF ReadSecret, ReadKnownHosts, CheckRepository, Clone, CloneFails, Synthesize, SynthesizeFails
  <2>2. CASE ApplyClusterList(w) \/ ApplyClusterClient(w) \/ CheckClusterList(w)
             \/ ApplyResource(w) \/ ApplyResourceFails(w)
    BY <2>2 DEF ApplyClusterList, ApplyClusterClient, CheckClusterList, ApplyResource,
                ApplyResourceFails
  <2>3. CASE CheckClusterClient(w)
    BY <2>3 DEF CheckClusterClient
  <2>4. CASE \/ CheckResource(w) \/ StatusUpdate(w) \/ StatusUpdateFails(w)
             \/ Cleanup(w) \/ CleanupFails(w)
    BY <2>4 DEF CheckResource, StatusUpdate, StatusUpdateFails, Cleanup, CleanupFails
  <2> QED BY <1>1, <2>1, <2>2, <2>3, <2>4 DEF WorkerStep
<1>2. ASSUME NEW p \in Proxies, CacheSync(p) \/ Resync(p) \/ Backoff(p) \/ Take(p)
      PROVE  UNCHANGED left
  BY <1>2 DEF CacheSync, Resync, Backoff, Take, Get, GetNotFound
<1>3. CASE Environment
  BY <1>3 DEF Environment, CreateProxy, UpdateProxy, WriteSpec, DeleteProxy, SetSecret,
                    Push, ClusterEvent, SetKube, Crash, Kinds
<1>4. CASE UNCHANGED vars
  BY <1>4 DEF vars
<1> QED BY <1>1, <1>2, <1>3, <1>4 DEF Next, Manager, Kinds

LEMMA DriftBounded ==
  ASSUME TypeOK, left["drift"] <= Budget["drift"], [Next]_vars
  PROVE  left'["drift"] <= Budget["drift"]
<1>1. left["drift"] \in Nat /\ Budget["drift"] \in Nat
  BY ProxyReconcilerConstants DEF TypeOK, Kinds
<1>2. CASE \E kind \in Kinds : Spend(kind)
  BY <1>1, <1>2 DEF Spend, TypeOK, Kinds
<1>3. CASE UNCHANGED left
  BY <1>3
<1>4. CASE \E c \in Clusters, r \in Resources : Drift(c, r)
  BY <1>2, <1>4 DEF Drift, Kinds
<1> QED BY <1>2, <1>3, <1>4, SpendsOtherwise

StaysDeployed ==
  \A c \in Clusters, r \in Resources : deployed[c][r] # None => deployed'[c][r] # None

LEMMA ResourcesStay ==
  ASSUME TypeOK, [Next]_vars, left["drift"] <= Budget["drift"], Undrifted'
  PROVE  Undrifted /\ StaysDeployed
<1>1. left["drift"] \in Nat /\ Budget["drift"] \in Nat /\ left'["drift"] = Budget["drift"]
  BY ProxyReconcilerConstants DEF TypeOK, Kinds, Undrifted
<1>2. ASSUME NEW c \in Clusters, NEW r \in Resources, Drift(c, r)
      PROVE  FALSE
  <2>1. left'["drift"] = left["drift"] - 1
    BY <1>2 DEF Drift, Spend, TypeOK, Kinds
  <2> QED BY <1>1, <2>1
<1>3. UNCHANGED left \/ \E kind \in Kinds \ {"drift"} : Spend(kind)
  BY <1>2, SpendsOtherwise
<1>4. Undrifted
  BY <1>1, <1>3 DEF Spend, TypeOK, Kinds, Undrifted
<1>5. ASSUME NEW c \in Clusters, NEW r \in Resources, deployed[c][r] # None, deployed'[c][r] = None
      PROVE  FALSE
  <2>1. ASSUME NEW w \in Workers, ApplyResource(w) \/ ApplyResourceFails(w)
        PROVE  FALSE
    <3>1. loop[w].cur # None /\ pc[w] = "apply"
      BY <2>1 DEF ApplyResource, ApplyResourceFails
    <3>2. /\ loop[w].cur \in Clusters /\ Emitted(w)[loop[w].idx] \in Resources
          /\ src[w] # None
      BY <3>1, AdvancedType
    <3>3. \/ UNCHANGED deployed
          \/ deployed' = [deployed EXCEPT ![loop[w].cur][Emitted(w)[loop[w].idx]] = src[w]]
      BY <2>1 DEF ApplyResource, ApplyResourceFails
    <3>4. deployed \in [Clusters -> [Resources -> Content \cup {None}]]
      BY DEF TypeOK
    <3> QED BY <1>5, <3>2, <3>3, <3>4
  <2>2. ASSUME NEW w \in Workers, WorkerStep(w)
        PROVE  UNCHANGED deployed
    <3>1. CASE \/ ReadSecret(w) \/ ReadKnownHosts(w) \/ CheckRepository(w) \/ Clone(w) \/ CloneFails(w)
               \/ Synthesize(w) \/ SynthesizeFails(w)
      BY <3>1 DEF ReadSecret, ReadKnownHosts, CheckRepository, Clone, CloneFails, Synthesize, SynthesizeFails
    <3>2. CASE ApplyClusterList(w) \/ ApplyClusterClient(w) \/ CheckClusterList(w)
      BY <3>2 DEF ApplyClusterList, ApplyClusterClient, CheckClusterList
    <3>3. CASE CheckClusterClient(w)
      BY <3>3 DEF CheckClusterClient
    <3>4. CASE \/ CheckResource(w) \/ StatusUpdate(w) \/ StatusUpdateFails(w)
               \/ Cleanup(w) \/ CleanupFails(w)
      BY <3>4 DEF CheckResource, StatusUpdate, StatusUpdateFails, Cleanup, CleanupFails
    <3> QED BY <2>1, <2>2, <3>1, <3>2, <3>3, <3>4 DEF WorkerStep
  <2>3. ASSUME NEW p \in Proxies, CacheSync(p) \/ Resync(p) \/ Backoff(p) \/ Take(p)
        PROVE  UNCHANGED deployed
    BY <2>3 DEF CacheSync, Resync, Backoff, Take, Get, GetNotFound
  <2>4. ASSUME Environment
        PROVE  UNCHANGED deployed
    BY <1>2, <2>4 DEF Environment, CreateProxy, UpdateProxy, WriteSpec, DeleteProxy, SetSecret,
                      Push, ClusterEvent, SetKube, Crash
  <2> QED BY <1>5, <2>2, <2>3, <2>4 DEF Next, Manager, vars
<1> QED BY <1>4, <1>5 DEF StaysDeployed

(* Besides the update itself, a worker's step keeps its copy, or is on the  *)
(* way to the update or out.                                                *)
LEMMA WorkTells ==
  ASSUME TypeOK, NEW w \in Workers, WorkerStep(w), obj'[w] # None,
         pc'[w] \notin {"status", "cleanup"}
  PROVE  pc[w] \notin {"status", "cleanup"} /\ obj'[w] = obj[w] /\ key'[w] = key[w]
<1>1. ASSUME NEW err, Return(w, err)
      PROVE  FALSE
  BY <1>1 DEF Return, TypeOK
<1>2. CASE \/ ReadSecret(w) \/ ReadKnownHosts(w) \/ CheckRepository(w) \/ Clone(w) \/ Synthesize(w)
           \/ ApplyClusterClient(w) \/ ApplyResource(w) \/ ApplyResourceFails(w)
           \/ CheckClusterList(w) \/ CheckResource(w)
  BY <1>2 DEF ReadSecret, ReadKnownHosts, CheckRepository, Clone, Synthesize, ApplyClusterClient, ApplyResource,
              ApplyResourceFails, CheckClusterList, CheckResource, locals
<1>3. CASE CloneFails(w) \/ SynthesizeFails(w) \/ StatusUpdate(w) \/ StatusUpdateFails(w)
  BY <1>1, <1>3 DEF CloneFails, SynthesizeFails, StatusUpdate, StatusUpdateFails
<1>4. CASE ApplyClusterList(w)
  BY <1>1, <1>4 DEF ApplyClusterList
<1>5. CASE CheckClusterClient(w)
  <2>1. ~Goto(w, "status")
    BY DEF Goto, TypeOK
  <2> QED BY <1>5, <2>1 DEF CheckClusterClient
<1>6. CASE Cleanup(w) \/ CleanupFails(w)
  BY <1>6 DEF Cleanup, CleanupFails, Release, TypeOK
<1> QED BY <1>2, <1>3, <1>4, <1>5, <1>6 DEF WorkerStep

LEMMA TellsCopy ==
  ASSUME TypeOK, VersionInv, TellsInv, TellsOn,
         \A p \in Proxies : cache'[p] \in {cache[p], None} \/ (cache'[p] = api[p] /\ api' = api),
         \A w \in Workers :
           \/ obj'[w] = None \/ pc'[w] \in {"status", "cleanup"}
           \/ key'[w] = key[w] /\ obj'[w] = obj[w] /\ pc[w] \notin {"status", "cleanup"}
           \/ key'[w] \in Proxies /\ obj'[w] = cache[key'[w]]
  PROVE  TellsInv'
<1>1. ASSUME NEW p \in Proxies, cache[p] # None
      PROVE  Tells(cache[p], p)'  \/ cache'[p] # cache[p]
  <2>1. cache[p] \in Object /\ VersionOf(cache[p], p) /\ Tells(cache[p], p)
    BY <1>1 DEF VersionInv, TellsInv, TypeOK
  <2> QED BY <2>1 DEF TellsOn, Tells
<1>2. \A p \in Proxies : cache'[p] # None => Tells(cache[p], p)'
  BY <1>1 DEF Tells
<1>3. ASSUME NEW w \in Workers, obj'[w] # None, pc'[w] \notin {"status", "cleanup"}
      PROVE  Tells(obj[w], key[w])'
  <2>1. PICK x \in Object, p \in Proxies :
               /\ obj'[w] = x /\ key'[w] = p /\ VersionOf(x, p) /\ Tells(x, p)
    <3>1. CASE key'[w] = key[w] /\ obj'[w] = obj[w] /\ pc[w] \notin {"status", "cleanup"}
      <4>1. obj[w] \in Object /\ key[w] \in Proxies
        BY <1>3, <3>1 DEF TypeOK, WorkerShape
      <4> QED BY <1>3, <3>1, <4>1 DEF VersionInv, TellsInv
    <3>2. CASE key'[w] \in Proxies /\ obj'[w] = cache[key'[w]]
      BY <1>3, <3>2 DEF VersionInv, TellsInv, TypeOK
    <3> QED BY <1>3, <3>1, <3>2
  <2> QED BY <2>1 DEF TellsOn, Tells
<1> QED BY <1>2, <1>3 DEF TellsInv

LEMMA TellsStep ==
  ASSUME TypeOK, VersionInv, TellsInv, [Next]_vars
  PROVE  TellsInv'
<1>1. TellsOn
  BY TellsOnStep
<1>2. ASSUME NEW w \in Workers, WorkerStep(w)
      PROVE  TellsInv'
  BY <1>1, <1>2, WorkTells, WorkKeepsWatch, TellsCopy DEF KeepsWatch
<1>3. ASSUME NEW p \in Proxies, NEW w \in Workers, Get(w, p)
      PROVE  TellsInv'
  <2>1. \A v \in Workers : \/ v = w /\ key'[v] = p /\ obj'[v] = cache[p]
                           \/ v # w /\ key'[v] = key[v] /\ obj'[v] = obj[v] /\ pc'[v] = pc[v]
    BY <1>3 DEF Get, Goto, TypeOK
  <2> QED BY <1>1, <1>3, <2>1, TellsCopy DEF Get
<1>4. ASSUME NEW p \in Proxies, CacheSync(p)
      PROVE  TellsInv'
  <2>1. /\ UNCHANGED <<api, obj, key, pc>>
        /\ \A q \in Proxies : cache'[q] = cache[q] \/ cache'[q] = api[q]
    BY <1>4 DEF CacheSync, store, locals, TypeOK
  <2> QED BY <1>1, <2>1, TellsCopy
<1>5. ASSUME NEW p \in Proxies, CacheSync(p) \/ Resync(p) \/ Backoff(p) \/ Take(p)
      PROVE  TellsInv'
  <2>1. ASSUME UNCHANGED <<cache, obj, key, pc>>
        PROVE  TellsInv'
    BY <1>1, <2>1, TellsCopy
  <2>2. ASSUME NEW w \in Workers, GetNotFound(w, p)
        PROVE  TellsInv'
    BY <2>1, <2>2 DEF GetNotFound, locals
  <2>3. CASE Resync(p) \/ Backoff(p)
    BY <2>1, <2>3 DEF Resync, Backoff, locals
  <2> QED BY <1>3, <1>4, <1>5, <2>2, <2>3 DEF Take
<1>6. CASE Crash
  BY <1>6 DEF Crash, TellsInv
<1>7. CASE Environment /\ ~Crash
  <2>1. UNCHANGED <<cache, obj, key, pc>>
    BY <1>7 DEF Environment, CreateProxy, UpdateProxy, WriteSpec, DeleteProxy, SetSecret, Push,
                ClusterEvent, SetKube, Drift, locals
  <2> QED BY <1>1, <2>1, TellsCopy
<1>8. CASE UNCHANGED vars
  BY <1>1, <1>8, TellsCopy DEF vars
<1> QED BY <1>2, <1>5, <1>6, <1>7, <1>8 DEF Next, Manager

-----------------------------------------------------------------------------
(* A worker that stands still loses nothing that it has found.              *)
Standing(v) ==
  /\ pc'[v] = pc[v] /\ key'[v] = key[v] /\ obj'[v] = obj[v]
  /\ src'[v] = src[v] /\ loop'[v] = loop[v]

LEMMA EmittedResources ==
  ASSUME TypeOK, NEW w \in Workers, src[w] # None, NEW i \in DOMAIN Emitted(w)
  PROVE  Emitted(w)[i] \in Resources
BY EmittedTypes

LEMMA StandingFound ==
  ASSUME TypeOK, VersionInv, TellsOn, StaysDeployed, NEW v \in Workers, Standing(v),
         Checked(v), Declares(v)
  PROVE  Checked(v)' /\ Declares(v)'
<1> SUFFICES ASSUME pc[v] \in {"check", "status"}
             PROVE  Checked(v)' /\ Declares(v)'
  BY DEF Standing, Checked, Declares
<1>1. src[v] # None /\ loop[v] \in Loops /\ obj[v] \in Object /\ obj[v] # None
      /\ key[v] \in Proxies
  BY BusyTypes, NoneIsNoValue DEF TypeOK, WorkerShape
<1>2. Emitted(v)' = Emitted(v)
  BY DEF Standing, Emitted
<1>3. \A c \in Clusters, i \in DOMAIN Emitted(v) :
        Exists(c, Emitted(v)[i]) => Exists(c, Emitted(v)[i])'
  BY <1>1, <1>2, EmittedResources DEF Exists, StaysDeployed
<1>4. \A c \in Clusters : HasAll(v, c) => HasAll(v, c)'
  BY <1>2, <1>3 DEF HasAll
<1>5. Checked(v)'
  <2>1. loop[v].items \subseteq Clusters /\ (loop[v].cur # None => loop[v].cur \in Clusters)
    BY <1>1 DEF Loops
  <2>2. ASSUME loop[v].cur # None
        PROVE  1..(loop[v].idx - 1) \subseteq DOMAIN Emitted(v)
    <3>1. loop[v].idx \in 1..Len(Emitted(v)) /\ Emitted(v) \in Seq(Resources)
      BY <1>1, <2>2, AdvancedType, EmittedTypes
    <3> QED BY <3>1
  <2> QED BY <1>2, <1>3, <1>4, <2>1, <2>2 DEF Checked, Standing
<1>6. Declares(v)'
  <2>1. Tells(obj[v], key[v]) => Tells(obj[v], key[v])'
    <3>1. VersionOf(obj[v], key[v])
      BY <1>1 DEF VersionInv
    <3> QED BY <1>1, <3>1 DEF TellsOn, Tells, Standing
  <2>2. loop[v].items \subseteq Clusters
    BY <1>1 DEF Loops
  <2> QED BY <1>4, <2>1, <2>2 DEF Declares, Standing
<1> QED BY <1>5, <1>6

(* What a worker's own step finds.                                          *)
LEMMA CheckFinds ==
  ASSUME TypeOK, NEW w \in Workers, CheckResource(w), Checked(w)
  PROVE  Checked(w)'
<1> SUFFICES ASSUME pc'[w] = "check", ~loop'[w].missing
             PROVE  Checked(w)'
  BY DEF Checked
<1> DEFINE d == loop[w].cur
           n == loop[w].idx
<1>1. /\ pc[w] = "check" /\ d # None /\ UNCHANGED <<src, deployed>>
      /\ loop' = [loop EXCEPT ![w] = [Advanced(w) EXCEPT !.missing = Missing(w, d, Emitted(w)[n])]]
  BY DEF CheckResource, Return, TypeOK
<1>2. /\ loop[w] \in Loops /\ n \in 1..Len(Emitted(w)) /\ Advanced(w) \in Loops
      /\ Emitted(w) \in Seq(Resources) /\ Len(Emitted(w)) \in Nat
  BY <1>1, AdvancedType, EmittedTypes
<1>3. loop'[w] = [Advanced(w) EXCEPT !.missing = Missing(w, d, Emitted(w)[n])]
  BY <1>1 DEF TypeOK
<1>4. /\ loop'[w].items = Advanced(w).items /\ loop'[w].todo = Advanced(w).todo
      /\ loop'[w].cur = Advanced(w).cur /\ loop'[w].idx = Advanced(w).idx
      /\ loop'[w].missing <=> Missing(w, d, Emitted(w)[n])
  BY <1>2, <1>3 DEF Loops
<1>5. ~loop[w].missing /\ Exists(d, Emitted(w)[n])
  BY <1>4 DEF Missing
<1>6. /\ \A c \in loop[w].items \ (loop[w].todo \cup {d}) : HasAll(w, c)
      /\ \A i \in 1..n : Exists(d, Emitted(w)[i])
  <2>1. \A i \in 1..(n - 1) : Exists(d, Emitted(w)[i])
    BY <1>1, <1>5 DEF Checked
  <2>2. \A i \in 1..n : i \in 1..(n - 1) \/ i = n
    BY <1>2
  <2>3. \A c \in loop[w].items \ (loop[w].todo \cup {d}) : HasAll(w, c)
    BY <1>1, <1>5 DEF Checked
  <2>4. \A i \in 1..n : Exists(d, Emitted(w)[i])
    <3> TAKE i \in 1..n
    <3>1. CASE i = n
      BY <1>5, <3>1
    <3>2. CASE i # n
      BY <2>1, <2>2, <3>2
    <3> QED BY <3>1, <3>2
  <2> QED BY <2>3, <2>4
<1>7. /\ \A c, i : Exists(c, Emitted(w)[i])' <=> Exists(c, Emitted(w)[i])
      /\ \A c : HasAll(w, c)' <=> HasAll(w, c)
  BY <1>1 DEF Emitted, Exists, HasAll
<1>8. CASE n < Len(Emitted(w))
  <2>1. /\ Advanced(w).items = loop[w].items /\ Advanced(w).todo = loop[w].todo
        /\ Advanced(w).cur = d /\ Advanced(w).idx = n + 1
    BY <1>2, <1>8 DEF Advanced, Loops
  <2>2. \A c \in loop'[w].items \ (loop'[w].todo \cup {loop'[w].cur}) : HasAll(w, c)'
    BY <1>4, <1>6, <1>7, <2>1
  <2>3. n \in Nat /\ (n + 1) - 1 = n
    BY <1>2
  <2>4. ASSUME NEW c, c = d, NEW i \in 1..((n + 1) - 1)
        PROVE  Exists(c, Emitted(w)[i])'
    <3>1. i \in 1..n
      BY <2>3
    <3>2. Exists(c, Emitted(w)[i])
      BY <1>6, <2>4, <3>1
    <3> QED BY <1>7, <3>2
  <2>5. loop'[w].idx = n + 1 /\ loop'[w].cur = d
    BY <1>4, <2>1
  <2> QED BY <2>2, <2>4, <2>5 DEF Checked
<1>9. CASE ~(n < Len(Emitted(w)))
  <2>1. /\ Advanced(w).items = loop[w].items /\ Advanced(w).todo = loop[w].todo
        /\ Advanced(w).cur = None
    BY <1>2, <1>9 DEF Advanced, Loops
  <2>2. HasAll(w, d)
    BY <1>2, <1>6, <1>9 DEF HasAll
  <2> QED BY <1>4, <1>6, <1>7, <2>1, <2>2 DEF Checked
<1> QED BY <1>8, <1>9

LEMMA VisitFinds ==
  ASSUME TypeOK, TellsInv, TellsOn, VersionInv, NEW w \in Workers, CheckClusterClient(w), Checked(w)
  PROVE  Checked(w)' /\ Declares(w)'
<1>1. /\ pc[w] = "check" /\ loop[w].cur = None /\ loop[w] \in Loops
      /\ UNCHANGED <<api, key, deployed>>
  BY DEF CheckClusterClient, store, TypeOK
<1>2. CASE /\ loop[w].todo = {} /\ Goto(w, "status") /\ UNCHANGED <<src, loop>>
           /\ IF loop[w].missing THEN UNCHANGED obj ELSE SetCondition(w, "ready", "True")
  <2>1. pc'[w] = "status"
    BY <1>2 DEF Goto, TypeOK
  <2>2. CASE loop[w].missing
    <3>1. obj[w] # None /\ Tells(obj[w], key[w]) /\ obj' = obj
      BY <1>1, <1>2, <2>2, BusyTypes, NoneIsNoValue DEF TellsInv
    <3> QED BY <1>1, <2>1, <3>1 DEF Checked, Declares, Tells
  <2>3. CASE ~loop[w].missing
    <3>1. \A c \in loop[w].items : HasAll(w, c)
      <4>1. loop[w].items \subseteq Clusters /\ None \notin Clusters
        BY <1>1, NoneIsNoValue DEF Loops
      <4> QED BY <1>1, <1>2, <2>3, <4>1 DEF Checked
    <3>2. \A c \in loop'[w].items : HasAll(w, c)'
      BY <1>1, <1>2, <3>1 DEF HasAll, Exists, Emitted
    <3> QED BY <2>1, <3>2 DEF Checked, Declares
  <2> QED BY <2>2, <2>3
<1>3. ASSUME NEW err, Return(w, err)
      PROVE  Checked(w)' /\ Declares(w)'
  BY <1>3 DEF Return, TypeOK, Checked, Declares
<1>4. ASSUME NEW c \in loop[w].todo, Emitted(w) = <<>>, Skip(w, c), UNCHANGED <<pc, src>>
      PROVE  Checked(w)' /\ Declares(w)'
  <2>1. loop'[w] = [loop[w] EXCEPT !.todo = loop[w].todo \ {c}]
    BY <1>4 DEF Skip, TypeOK
  <2>2. loop'[w].cur = None
    BY <1>1, <2>1 DEF Loops
  <2>3. \A b : HasAll(w, b)'
    BY <1>4 DEF HasAll, Emitted
  <2> QED BY <1>1, <1>4, <2>2, <2>3 DEF Checked, Declares
<1>5. ASSUME NEW c \in loop[w].todo, Enter(w, c), UNCHANGED <<pc, src>>
      PROVE  Checked(w)' /\ Declares(w)'
  <2>1. loop'[w] = [loop[w] EXCEPT !.todo = loop[w].todo \ {c}, !.cur = c, !.idx = 1]
    BY <1>5 DEF Enter, TypeOK
  <2>2. /\ loop'[w].cur = c /\ loop'[w].idx = 1 /\ loop'[w].items = loop[w].items
        /\ loop'[w].todo = loop[w].todo \ {c} /\ loop'[w].missing = loop[w].missing
    BY <1>1, <2>1 DEF Loops
  <2>3. loop[w].items \subseteq Clusters /\ None \notin Clusters
    BY <1>1, NoneIsNoValue DEF Loops
  <2>4. \A b : HasAll(w, b) => HasAll(w, b)'
    BY <1>1, <1>5 DEF HasAll, Exists, Emitted
  <2> QED BY <1>1, <1>5, <2>2, <2>3, <2>4 DEF Checked, Declares
<1> QED BY <1>2, <1>3, <1>4, <1>5 DEF CheckClusterClient

LEMMA WorkFinds ==
  ASSUME TypeOK, TellsInv, TellsOn, VersionInv, NEW w \in Workers, WorkerStep(w), Checked(w)
  PROVE  Checked(w)' /\ Declares(w)'
<1>1. CASE CheckClusterClient(w)
  BY <1>1, VisitFinds
<1>2. CASE CheckResource(w)
  <2>1. pc'[w] # "status"
    BY <1>2 DEF CheckResource, Return, TypeOK
  <2> QED BY <1>2, <2>1, CheckFinds DEF Declares
<1>3. CASE CheckClusterList(w)
  <2>1. /\ pc'[w] = "check" /\ loop'[w].cur = None /\ loop'[w].items = loop'[w].todo
    BY <1>3 DEF CheckClusterList, StartLoop, Goto, TypeOK
  <2> QED BY <2>1 DEF Checked, Declares
<1>4. CASE ~(CheckClusterClient(w) \/ CheckResource(w) \/ CheckClusterList(w))
  <2>1. pc'[w] \notin {"check", "status"}
    <3>1. ASSUME NEW err, Return(w, err)
          PROVE  pc'[w] = "cleanup"
      BY <3>1 DEF Return, TypeOK
    <3>2. CASE \/ ReadSecret(w) \/ ReadKnownHosts(w) \/ CheckRepository(w) \/ Clone(w) \/ CloneFails(w)
               \/ Synthesize(w) \/ SynthesizeFails(w)
      BY <3>1, <3>2 DEF ReadSecret, ReadKnownHosts, CheckRepository, Clone, CloneFails, Synthesize,
                        SynthesizeFails, Goto, TypeOK
    <3>3. CASE \/ ApplyClusterList(w) \/ ApplyClusterClient(w)
               \/ ApplyResource(w) \/ ApplyResourceFails(w)
      BY <3>1, <3>3 DEF ApplyClusterList, ApplyClusterClient, ApplyResource, ApplyResourceFails,
                        Goto, TypeOK
    <3>4. CASE StatusUpdate(w) \/ StatusUpdateFails(w) \/ Cleanup(w) \/ CleanupFails(w)
      BY <3>1, <3>4 DEF StatusUpdate, StatusUpdateFails, Cleanup, CleanupFails, Release, TypeOK
    <3> QED BY <1>4, <3>2, <3>3, <3>4 DEF WorkerStep
  <2> QED BY <2>1 DEF Checked, Declares
<1> QED BY <1>1, <1>2, <1>3, <1>4

LEMMA OthersStand ==
  ASSUME TypeOK, NEW w \in Workers, WorkerStep(w), NEW v \in Workers, v # w
  PROVE  Standing(v)
<1>1. pc'[v] = pc[v] /\ key'[v] = key[v] /\ obj'[v] = obj[v] /\ loop'[v] = loop[v]
  BY WorkKeepsWatch DEF KeepsWatch
<1>2. src'[v] = src[v]
  <2>1. CASE Clone(w) \/ Synthesize(w) \/ Cleanup(w) \/ CleanupFails(w)
    BY <2>1 DEF Clone, Synthesize, Cleanup, CleanupFails, locals, TypeOK
  <2>2. CASE LocalStep(w)
    BY <2>2 DEF LocalStep, Return, TypeOK
  <2> QED BY <2>1, <2>2, WorkIsLocal DEF WorkerStep
<1> QED BY <1>1, <1>2 DEF Standing

LEMMA PresentStep ==
  ASSUME TypeOK, VersionInv, PresentInv, [Next]_vars
  PROVE  PresentInv'
<1>1. left'["drift"] <= Budget["drift"] /\ TellsInv' /\ TellsOn
  BY DriftBounded, TellsStep, TellsOnStep DEF PresentInv
<1>2. ASSUME Undrifted'
      PROVE  \A w \in Workers : Checked(w)' /\ Declares(w)'
  <2>1. /\ StaysDeployed /\ TellsInv
        /\ \A w \in Workers : Checked(w) /\ Declares(w)
    BY <1>2, ResourcesStay DEF PresentInv
  <2>2. \A v \in Workers : Standing(v) => Checked(v)' /\ Declares(v)'
    BY <1>1, <2>1, StandingFound
  <2>3. ASSUME NEW v \in Workers, pc'[v] \notin {"check", "status"}
        PROVE  Checked(v)' /\ Declares(v)'
    BY <2>3 DEF Checked, Declares
  <2>4. ASSUME NEW w \in Workers, WorkerStep(w)
        PROVE  \A v \in Workers : Checked(v)' /\ Declares(v)'
    BY <1>1, <2>1, <2>2, <2>4, WorkFinds, OthersStand
  <2>5. ASSUME NEW w \in Workers, NEW p \in Proxies, Get(w, p)
        PROVE  \A v \in Workers : Standing(v) \/ pc'[v] \notin {"check", "status"}
    BY <2>5 DEF Get, Goto, Standing, TypeOK
  <2>6. ASSUME NEW p \in Proxies, CacheSync(p) \/ Resync(p) \/ Backoff(p) \/ Take(p)
        PROVE  \A v \in Workers : Checked(v)' /\ Declares(v)'
    <3>1. ASSUME NEW w \in Workers, GetNotFound(w, p)
          PROVE  \A v \in Workers : Standing(v)
      BY <3>1 DEF GetNotFound, Standing, locals
    <3>2. CASE CacheSync(p) \/ Resync(p) \/ Backoff(p)
      BY <2>2, <3>2 DEF CacheSync, Resync, Backoff, Standing, locals
    <3> QED BY <2>2, <2>3, <2>5, <2>6, <3>1, <3>2 DEF Take
  <2>7. CASE Crash
    BY <2>3, <2>7 DEF Crash
  <2>8. CASE Environment /\ ~Crash
    <3>1. UNCHANGED <<pc, key, obj, src, loop>>
      BY <2>8 DEF Environment, CreateProxy, UpdateProxy, WriteSpec, DeleteProxy, SetSecret, Push,
                  ClusterEvent, SetKube, Drift, locals
    <3> QED BY <2>2, <3>1 DEF Standing
  <2>9. CASE UNCHANGED vars
    BY <2>2, <2>9 DEF vars, Standing
  <2> QED BY <2>4, <2>6, <2>7, <2>8, <2>9 DEF Next, Manager
<1> QED BY <1>1, <1>2 DEF PresentInv

(* As long as nobody deletes deployed resources, an object becomes Ready    *)
(* only by the update of a worker whose Check found every resource on every *)
(* cluster it listed (the missing flag across the two loops of Check, its   *)
(* early returns, and the resourceVersion, without which the update of an   *)
(* old copy that says Ready could declare what nobody checked).             *)
THEOREM ReadyMeansPresentCorrect == Spec => ReadyMeansPresent
<1>1. Init => VersionInv /\ PresentInv
  BY ProxyReconcilerConstants
  DEF Init, VersionInv, PresentInv, TellsInv, Checked, Declares, Kinds
<1>2. TypeOK /\ VersionInv /\ [Next]_vars => VersionInv'
  BY VersionStep
<1>3. TypeOK /\ VersionInv /\ PresentInv /\ [Next]_vars => PresentInv'
  BY PresentStep
<1> DEFINE FoundReady ==
      left["drift"] = Budget["drift"] =>
        \A p \in Proxies : BecomesReady(p) =>
          \E w \in Workers : /\ pc[w] = "status" /\ key[w] = p
                             /\ \A c \in loop[w].items :
                                  \A i \in DOMAIN Emitted(w) : Exists(c, Emitted(w)[i])
<1>4. TypeOK /\ PresentInv /\ [Next]_vars => [FoundReady]_vars
  <2> SUFFICES ASSUME TypeOK, PresentInv, [Next]_vars, Undrifted, NEW p \in Proxies, BecomesReady(p)
               PROVE  \E w \in Workers : /\ pc[w] = "status" /\ key[w] = p
                                         /\ \A c \in loop[w].items : HasAll(w, c)
    BY DEF Undrifted, HasAll
  <2>1. PICK w \in Workers : StatusUpdate(w) /\ key[w] = p
    BY ReadyByStatus
  <2>2. /\ pc[w] = "status" /\ obj[w] \in Object
        /\ api[p] \in Object /\ api[p] # None /\ api[p].rv = obj[w].rv /\ api'[p] = Stored(w)
    BY <2>1, BusyTypes, NoneIsNoValue DEF StatusUpdate, Storable, TypeOK
  <2>3. Stored(w).ready = obj[w].ready
    BY <2>1, <2>2 DEF Stored, Object
  <2>4. ~Tells(obj[w], p)
    BY <2>2, <2>3 DEF Tells, BecomesReady
  <2> QED BY <2>1, <2>2, <2>4 DEF PresentInv, Declares
<1> QED BY <1>1, <1>2, <1>3, <1>4, TypeCorrect, PTL DEF Spec, ReadyMeansPresent

-----------------------------------------------------------------------------
(* A failure is noted in the object in memory, on the way out only.         *)
Clean(x) == x.ready # "False" /\ x.available = "Unknown"

NoFailureStored == \A p \in Proxies : api[p] # None => Clean(api[p])

CleanInv ==
  /\ NoFailureStored
  /\ \A p \in Proxies : cache[p] # None => Clean(cache[p])
  /\ \A w \in Workers : obj[w] # None /\ pc[w] # "cleanup" => Clean(obj[w])

LEMMA WorkStaysClean ==
  ASSUME TypeOK, CleanInv, NEW w \in Workers, WorkerStep(w), obj'[w] # None, pc'[w] # "cleanup"
  PROVE  Clean(obj[w])'
<1> USE DEF CleanInv, Clean
<1>1. ASSUME NEW err, Return(w, err)
      PROVE  FALSE
  BY <1>1 DEF Return, TypeOK
<1>2. CASE \/ ReadSecret(w) \/ ReadKnownHosts(w) \/ CheckRepository(w) \/ Clone(w) \/ Synthesize(w)
           \/ ApplyClusterClient(w) \/ ApplyResource(w) \/ ApplyResourceFails(w)
           \/ CheckClusterList(w) \/ CheckResource(w)
  <2>1. obj' = obj /\ pc[w] # "cleanup"
    BY <1>2 DEF ReadSecret, ReadKnownHosts, CheckRepository, Clone, Synthesize, ApplyClusterClient, ApplyResource,
                ApplyResourceFails, CheckClusterList, CheckResource, locals
  <2> QED BY <2>1
<1>3. CASE CloneFails(w) \/ SynthesizeFails(w) \/ StatusUpdate(w) \/ StatusUpdateFails(w)
  BY <1>1, <1>3 DEF CloneFails, SynthesizeFails, StatusUpdate, StatusUpdateFails
<1>4. CASE ApplyClusterList(w) \/ CheckClusterClient(w)
  <2>1. /\ obj' = obj \/ SetCondition(w, "ready", "True")
        /\ obj[w] \in Object /\ pc[w] # "cleanup"
    <3>1. CASE ApplyClusterList(w)
      BY <1>1, <3>1, BusyTypes DEF ApplyClusterList
    <3>2. CASE CheckClusterClient(w)
      BY <1>1, <3>2, BusyTypes DEF CheckClusterClient
    <3> QED BY <1>4, <3>1, <3>2
  <2>2. Clean(obj[w])
    BY <2>1, NoneIsNoValue
  <2>3. CASE SetCondition(w, "ready", "True")
    <3>1. obj'[w] = [obj[w] EXCEPT !["ready"] = "True"]
      BY <2>3 DEF SetCondition, TypeOK
    <3>2. obj'[w].ready = "True" /\ obj'[w].available = obj[w].available
      BY <2>1, <3>1 DEF Object
    <3> QED BY <2>2, <3>2
  <2> QED BY <2>1, <2>2, <2>3
<1>5. CASE Cleanup(w) \/ CleanupFails(w)
  BY <1>5 DEF Cleanup, CleanupFails, Release, TypeOK
<1> QED BY <1>2, <1>3, <1>4, <1>5 DEF WorkerStep

(* A write of clean conditions.                                             *)
LEMMA WriteStaysClean ==
  ASSUME TypeOK, CleanInv, NEW p \in Proxies, NEW new, Clean(new),
         api' = [api EXCEPT ![p] = new], UNCHANGED <<cache, obj>>,
         \A w \in Workers : pc'[w] \in {pc[w], "cleanup"}
  PROVE  CleanInv'
<1>1. NoFailureStored'
  BY DEF CleanInv, NoFailureStored, Clean, TypeOK
<1> QED BY <1>1 DEF CleanInv, Clean

LEMMA CleanStep ==
  ASSUME TypeOK, CleanInv, [Next]_vars
  PROVE  CleanInv'
<1>1. CASE UNCHANGED <<api, cache, obj, pc>>
  BY <1>1 DEF CleanInv, NoFailureStored, Clean
<1>2. ASSUME NEW w \in Workers, StatusUpdate(w)
      PROVE  CleanInv'
  <2>1. /\ key[w] \in Proxies /\ api[key[w]] \in Object /\ obj[w] \in Object
        /\ pc[w] = "status"
        /\ api' = [api EXCEPT ![key[w]] = Stored(w)] /\ UNCHANGED <<cache, obj>>
    BY <1>2, BusyTypes DEF StatusUpdate, Storable, TypeOK
  <2>2. Stored(w).ready = obj[w].ready /\ Stored(w).available = obj[w].available
    BY <2>1 DEF Stored, Object
  <2>3. Clean(Stored(w))
    BY <2>1, <2>2, NoneIsNoValue DEF CleanInv, Clean
  <2>4. \A v \in Workers : pc'[v] \in {pc[v], "cleanup"}
    BY <1>2 DEF StatusUpdate, Return, TypeOK
  <2> QED BY <2>1, <2>3, <2>4, WriteStaysClean
<1>3. ASSUME NEW w \in Workers, WorkerStep(w), ~StatusUpdate(w)
      PROVE  CleanInv'
  <2>1. UNCHANGED <<api, cache>>
    BY <1>3 DEF WorkerStep, ReadSecret, ReadKnownHosts, CheckRepository, Clone, CloneFails, Synthesize,
           SynthesizeFails, ApplyClusterList, ApplyClusterClient, ApplyResource,
           ApplyResourceFails, CheckClusterList, CheckClusterClient, CheckResource,
           StatusUpdateFails, Cleanup, CleanupFails, store
  <2>2. \A v \in Workers \ {w} : pc'[v] = pc[v] /\ obj'[v] = obj[v]
    BY <1>3, WorkKeepsWatch DEF KeepsWatch
  <2> QED BY <1>3, <2>1, <2>2, WorkStaysClean DEF CleanInv, NoFailureStored, Clean
<1>4. ASSUME NEW p \in Proxies, CacheSync(p) \/ Resync(p) \/ Backoff(p) \/ Take(p)
      PROVE  CleanInv'
  <2>1. CASE CacheSync(p)
    BY <2>1 DEF CacheSync, store, locals, CleanInv, NoFailureStored, Clean, TypeOK
  <2>2. ASSUME NEW w \in Workers, Get(w, p)
        PROVE  CleanInv'
    BY <2>2 DEF Get, Goto, store, CleanInv, NoFailureStored, Clean, TypeOK
  <2>3. ASSUME NEW w \in Workers, GetNotFound(w, p)
        PROVE  CleanInv'
    BY <1>1, <2>3 DEF GetNotFound, store, locals
  <2>4. CASE Resync(p) \/ Backoff(p)
    BY <1>1, <2>4 DEF Resync, Backoff, store, locals
  <2> QED BY <1>4, <2>1, <2>2, <2>3, <2>4 DEF Take
<1>5. CASE Crash
  BY <1>5 DEF Crash, store, CleanInv, NoFailureStored, Clean
<1>6. ASSUME NEW p \in Proxies, NEW s \in ProxySpecs[p], CreateProxy(p, s) \/ UpdateProxy(p, s)
      PROVE  CleanInv'
  <2>1. PICK ready, available :
          WriteSpec(p, s, ready, available) /\ ready # "False" /\ available = "Unknown"
    BY <1>6 DEF CreateProxy, UpdateProxy, CleanInv, NoFailureStored, Clean
  <2> DEFINE new == [spec |-> s, ready |-> ready, available |-> available, rv |-> nextRv[p]]
  <2>2. Clean(new)
    BY <2>1 DEF Clean
  <2>3. api' = [api EXCEPT ![p] = new] /\ UNCHANGED <<cache, obj, pc>>
    BY <2>1 DEF WriteSpec, locals
  <2> HIDE DEF new
  <2> QED BY <2>2, <2>3, WriteStaysClean
<1>7. ASSUME NEW p \in Proxies, DeleteProxy(p)
      PROVE  CleanInv'
  BY <1>7 DEF DeleteProxy, locals, CleanInv, NoFailureStored, Clean, TypeOK
<1>8. CASE Environment
  <2>1. CASE /\ ~Crash
             /\ \A p \in Proxies : ~DeleteProxy(p)
             /\ \A p \in Proxies : \A s \in ProxySpecs[p] : ~CreateProxy(p, s) /\ ~UpdateProxy(p, s)
    <3>1. UNCHANGED <<api, cache, obj, pc>>
      BY <1>8, <2>1 DEF Environment, SetSecret, Push, ClusterEvent, SetKube, Drift, store, locals
    <3> QED BY <1>1, <3>1
  <2> QED BY <1>5, <1>6, <1>7, <2>1
<1>9. CASE UNCHANGED vars
  BY <1>1, <1>9 DEF vars
<1> QED BY <1>2, <1>3, <1>4, <1>8, <1>9 DEF Next, Manager

(* No failure is ever told to a user: whatever goes wrong, and however      *)
(* often, no stored object has a condition that is False (the conditions    *)
(* Reconcile sets for a failed clone, synthesis, apply or check, each       *)
(* followed by a return that leaves before Status().Update).                *)
THEOREM FailuresAreNeverStored == Spec => []NoFailureStored
<1>1. Init => CleanInv
  BY DEF Init, CleanInv, NoFailureStored
<1>2. TypeOK /\ CleanInv /\ [Next]_vars => CleanInv'
  BY CleanStep
<1>3. CleanInv => NoFailureStored
  BY DEF CleanInv
<1> QED BY <1>1, <1>2, <1>3, TypeCorrect, PTL DEF Spec
=============================================================================
