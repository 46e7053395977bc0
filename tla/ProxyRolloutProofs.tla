-------------------------- MODULE ProxyRolloutProofs --------------------------
(***************************************************************************)
(* The proxy controller implements Rollout, for every value of the          *)
(* constants. Beside the invariants of the other proofs it takes two: a     *)
(* loop stays among the clusters it listed, and a worker that holds the     *)
(* stored version of an object has not forgotten that it is Ready.          *)
(***************************************************************************)
EXTENDS ProxyReconcilerStatus, ProxyRollout

(* The loops of Apply and Check visit what clusterList gave them.           *)
LoopFits(w) ==
  /\ loop[w].todo \subseteq loop[w].items
  /\ loop[w].cur # None => loop[w].cur \in loop[w].items

LoopInv == \A w \in Workers : LoopFits(w)

(* If x is the version that is stored, and Ready, then x says so.           *)
Remembers(x, p) ==
  api[p] # None /\ api[p].rv = x.rv /\ api[p].ready = "True" => x.ready = "True"

ReadyInv ==
  /\ \A p \in Proxies : cache[p] # None => Remembers(cache[p], p)
  /\ \A w \in Workers : obj[w] # None /\ pc[w] # "cleanup" => Remembers(obj[w], key[w])

-----------------------------------------------------------------------------
(* What a worker's step leaves other workers.                               *)
Untouched(v) ==
  /\ pc'[v] = pc[v] /\ key'[v] = key[v] /\ obj'[v] = obj[v]
  /\ src'[v] = src[v] /\ loop'[v] = loop[v]
  /\ pc[v] = "synth" => dirs'[Dir(v)] = dirs[Dir(v)]

LEMMA OnlyThisWorker ==
  ASSUME TypeOK, OneWorkerPerProxy, DirectoriesApart,
         NEW w \in Workers, WorkerStep(w), NEW v \in Workers, v # w
  PROVE  Untouched(v)
<1> USE DEF Untouched
<1>1. CASE ReadSecret(w) \/ ReadKnownHosts(w) \/ CheckRepository(w) \/ CloneFails(w)
           \/ Synthesize(w) \/ SynthesizeFails(w)
  BY <1>1 DEF ReadSecret, ReadKnownHosts, CheckRepository, CloneFails, Synthesize,
              SynthesizeFails, Return, Goto, SetCondition, TypeOK, locals
<1>2. CASE ApplyClusterList(w) \/ ApplyClusterClient(w)
  BY <1>2 DEF ApplyClusterList, ApplyClusterClient, StartLoop, Skip, Enter, Return, Goto,
              SetCondition, TypeOK
<1>3. CASE ApplyResource(w) \/ ApplyResourceFails(w) \/ CheckClusterList(w) \/ CheckResource(w)
  BY <1>3 DEF ApplyResource, ApplyResourceFails, CheckClusterList, CheckResource, StartLoop,
              Return, Goto, TypeOK
<1>4. CASE CheckClusterClient(w)
  BY <1>4 DEF CheckClusterClient, Skip, Enter, Return, Goto, SetCondition, TypeOK
<1>5. CASE StatusUpdate(w) \/ StatusUpdateFails(w)
  BY <1>5 DEF StatusUpdate, StatusUpdateFails, Return, TypeOK
<1>6. CASE Clone(w) \/ Cleanup(w) \/ CleanupFails(w)
  <2>1. /\ pc'[v] = pc[v] /\ key'[v] = key[v] /\ obj'[v] = obj[v]
        /\ src'[v] = src[v] /\ loop'[v] = loop[v]
    BY <1>6 DEF Clone, Cleanup, CleanupFails, Release, Goto, locals, TypeOK
  <2>2. ASSUME pc[v] = "synth" PROVE dirs'[Dir(v)] = dirs[Dir(v)]
    <3>1. Dir(v) # Dir(w) /\ Dir(v) \notin Under(Dir(w)) /\ Dir(v) \in Directories
      BY <1>6, <2>2, OwnDirectory, BusyTypes DEF Clone, Cleanup, CleanupFails
    <3>2. \/ \E content : dirs' = [dirs EXCEPT ![Dir(w)] = content]
          \/ \E gone \in SUBSET Under(Dir(w)) : dirs' = Without(gone)
      BY <1>6 DEF Clone, Cleanup, CleanupFails
    <3>3. CASE \E gone \in SUBSET Under(Dir(w)) : dirs' = Without(gone)
      BY <3>1, <3>3, WithoutType
    <3> QED BY <3>1, <3>2, <3>3 DEF TypeOK
  <2> QED BY <2>1, <2>2
<1> QED BY <1>1, <1>2, <1>3, <1>4, <1>5, <1>6 DEF WorkerStep

-----------------------------------------------------------------------------
(* How a loop goes on, in a worker's step.                                  *)
LEMMA LoopGoesOn ==
  ASSUME TypeOK, NEW w \in Workers, LoopFits(w),
         \/ loop' = loop
         \/ \E err : Return(w, err)
         \/ StartLoop(w)
         \/ \E c \in loop[w].todo : Skip(w, c) \/ Enter(w, c)
         \/ loop' = [loop EXCEPT ![w] = Advanced(w)]
         \/ loop' = [loop EXCEPT ![w].cur = None, ![w].idx = 0]
         \/ /\ loop[w].cur # None
            /\ \E m : loop' = [loop EXCEPT ![w] = [Advanced(w) EXCEPT !.missing = m]]
  PROVE  LoopFits(w)'
<1>1. loop[w] \in Loops /\ loop \in [Workers -> Loops]
  BY DEF TypeOK
<1>2. ASSUME NEW err, Return(w, err)
      PROVE  LoopFits(w)'
  <2>1. loop'[w] = NoLoop
    BY <1>1, <1>2 DEF Return
  <2> QED BY <2>1 DEF NoLoop, LoopFits
<1>3. CASE StartLoop(w)
  <2>1. loop'[w] = [items |-> Selected(w), todo |-> Selected(w),
                    cur |-> None, idx |-> 0, missing |-> FALSE]
    BY <1>1, <1>3 DEF StartLoop
  <2> QED BY <2>1 DEF LoopFits
<1>4. ASSUME NEW c \in loop[w].todo, Skip(w, c)
      PROVE  LoopFits(w)'
  <2>1. loop'[w] = [loop[w] EXCEPT !.todo = loop[w].todo \ {c}]
    BY <1>1, <1>4 DEF Skip
  <2>2. /\ loop'[w].items = loop[w].items /\ loop'[w].cur = loop[w].cur
        /\ loop'[w].todo = loop[w].todo \ {c}
    BY <1>1, <2>1 DEF Loops
  <2> QED BY <2>2 DEF LoopFits
<1>5. ASSUME NEW c \in loop[w].todo, Enter(w, c)
      PROVE  LoopFits(w)'
  <2>1. loop'[w] = [loop[w] EXCEPT !.todo = loop[w].todo \ {c}, !.cur = c, !.idx = 1]
    BY <1>1, <1>5 DEF Enter
  <2>2. /\ loop'[w].items = loop[w].items /\ loop'[w].cur = c
        /\ loop'[w].todo = loop[w].todo \ {c}
    BY <1>1, <2>1 DEF Loops
  <2> QED BY <1>5, <2>2 DEF LoopFits
<1>6. ASSUME \/ loop' = [loop EXCEPT ![w] = Advanced(w)]
             \/ loop' = [loop EXCEPT ![w].cur = None, ![w].idx = 0]
             \/ /\ loop[w].cur # None
                /\ \E m : loop' = [loop EXCEPT ![w] = [Advanced(w) EXCEPT !.missing = m]]
      PROVE  LoopFits(w)'
  <2>1. /\ Advanced(w).items = loop[w].items /\ Advanced(w).todo = loop[w].todo
        /\ Advanced(w).cur = loop[w].cur \/ Advanced(w).cur = None
    BY <1>1 DEF Advanced, Loops
  <2>2. CASE loop' = [loop EXCEPT ![w] = Advanced(w)]
    BY <1>1, <2>1, <2>2 DEF LoopFits
  <2>3. CASE loop' = [loop EXCEPT ![w].cur = None, ![w].idx = 0]
    <3>1. loop'[w] = [loop[w] EXCEPT !.cur = None, !.idx = 0]
      BY <1>1, <2>3
    <3>2. loop'[w].items = loop[w].items /\ loop'[w].cur = None /\ loop'[w].todo = loop[w].todo
      BY <1>1, <3>1 DEF Loops
    <3> QED BY <3>2 DEF LoopFits
  <2>4. ASSUME NEW m, loop[w].cur # None,
               loop' = [loop EXCEPT ![w] = [Advanced(w) EXCEPT !.missing = m]]
        PROVE  LoopFits(w)'
    <3>1. loop'[w] = [Advanced(w) EXCEPT !.missing = m]
      BY <1>1, <2>4
    <3>2. Advanced(w) \in Loops
      BY <2>4, AdvancedType
    <3>3. /\ loop'[w].items = Advanced(w).items /\ loop'[w].todo = Advanced(w).todo
          /\ loop'[w].cur = Advanced(w).cur
      BY <3>1, <3>2 DEF Loops
    <3> QED BY <2>1, <3>3 DEF LoopFits
  <2> QED BY <1>6, <2>2, <2>3, <2>4
<1>7. CASE loop' = loop
  BY <1>7 DEF LoopFits
<1> QED BY <1>2, <1>3, <1>4, <1>5, <1>6, <1>7

LEMMA LoopOfWorker ==
  ASSUME TypeOK, NEW w \in Workers, LoopFits(w), WorkerStep(w)
  PROVE  LoopFits(w)'
<1>1. CASE ReadSecret(w) \/ ReadKnownHosts(w) \/ CheckRepository(w) \/ CloneFails(w)
           \/ Synthesize(w) \/ SynthesizeFails(w) \/ Clone(w)
  <2>1. loop' = loop \/ (\E err : Return(w, err))
    BY <1>1 DEF ReadSecret, ReadKnownHosts, CheckRepository, CloneFails, Synthesize, Clone,
                SynthesizeFails, locals
  <2> QED BY <2>1, LoopGoesOn
<1>2. CASE ApplyClusterList(w) \/ CheckClusterList(w)
  <2>1. StartLoop(w) \/ (\E err : Return(w, err))
    BY <1>2 DEF ApplyClusterList, CheckClusterList
  <2> QED BY <2>1, LoopGoesOn
<1>3. CASE ApplyClusterClient(w) \/ CheckClusterClient(w)
  <2>1. \/ loop' = loop \/ (\E err : Return(w, err))
        \/ \E c \in loop[w].todo : Skip(w, c) \/ Enter(w, c)
    <3>1. CASE ApplyClusterClient(w)
      BY <3>1, Zenon DEF ApplyClusterClient
    <3>2. CASE CheckClusterClient(w)
      BY <3>2, Zenon DEF CheckClusterClient
    <3> QED BY <1>3, <3>1, <3>2
  <2> QED BY <2>1, LoopGoesOn
<1>4. CASE ApplyResource(w) \/ ApplyResourceFails(w) \/ CheckResource(w)
  <2>1. \/ \E err : Return(w, err)
        \/ loop' = [loop EXCEPT ![w] = Advanced(w)]
        \/ loop' = [loop EXCEPT ![w].cur = None, ![w].idx = 0]
        \/ /\ loop[w].cur # None
           /\ \E m : loop' = [loop EXCEPT ![w] = [Advanced(w) EXCEPT !.missing = m]]
    BY <1>4, Zenon DEF ApplyResource, ApplyResourceFails, CheckResource
  <2> QED BY <2>1, LoopGoesOn
<1>5. CASE StatusUpdate(w) \/ StatusUpdateFails(w) \/ Cleanup(w) \/ CleanupFails(w)
  <2>1. loop' = loop \/ (\E err : Return(w, err))
    BY <1>5 DEF StatusUpdate, StatusUpdateFails, Cleanup, CleanupFails
  <2> QED BY <2>1, LoopGoesOn
<1> QED BY <1>1, <1>2, <1>3, <1>4, <1>5 DEF WorkerStep

LEMMA LoopStep ==
  ASSUME TypeOK, OneWorkerPerProxy, DirectoriesApart, LoopInv, [Next]_vars
  PROVE  LoopInv'
<1>1. CASE UNCHANGED loop
  BY <1>1 DEF LoopInv, LoopFits
<1>2. ASSUME NEW w \in Workers, WorkerStep(w)
      PROVE  LoopInv'
  <2>1. LoopFits(w)'
    BY <1>2, LoopOfWorker DEF LoopInv
  <2>2. \A v \in Workers : v # w => loop'[v] = loop[v]
    BY <1>2, OnlyThisWorker DEF Untouched
  <2> QED BY <2>1, <2>2 DEF LoopInv, LoopFits
<1>3. ASSUME NEW p \in Proxies, CacheSync(p) \/ Resync(p) \/ Backoff(p) \/ Take(p)
      PROVE  LoopInv'
  BY <1>1, <1>3 DEF CacheSync, Resync, Backoff, Take, Get, GetNotFound, locals
<1>4. CASE Crash
  BY <1>4 DEF Crash, NoLoop, LoopInv, LoopFits
<1>5. CASE Environment /\ ~Crash
  BY <1>1, <1>5 DEF Environment, CreateProxy, UpdateProxy, WriteSpec, DeleteProxy, SetSecret,
                    Push, ClusterEvent, SetKube, Drift, locals
<1>6. CASE UNCHANGED vars
  BY <1>1, <1>6 DEF vars
<1> QED BY <1>2, <1>3, <1>4, <1>5, <1>6 DEF Next, Manager

-----------------------------------------------------------------------------
(* A copy of an object older than the next version stays good when a user   *)
(* or a status update writes that version.                                  *)
LEMMA ReadyWrite ==
  ASSUME TypeOK, VersionInv, ReadyInv, NEW p \in Proxies, NEW new \in Object,
         api' = [api EXCEPT ![p] = new], UNCHANGED <<cache, key, obj>>,
         \A w \in Workers : pc'[w] \in {pc[w], "cleanup"},
         new = api[p] \/ new.rv = nextRv[p]
  PROVE  ReadyInv'
<1>1. ASSUME NEW x \in Object, NEW q \in Proxies, VersionOf(x, q), Remembers(x, q)
      PROVE  Remembers(x, q)'
  <2>1. x.rv \in Nat /\ x.rv < nextRv[q] /\ nextRv[q] \in Nat
    BY <1>1 DEF VersionOf, Object, TypeOK
  <2>2. api'[q] = IF q = p THEN new ELSE api[q]
    BY DEF TypeOK
  <2>3. CASE api'[q] = api[q]
    BY <1>1, <2>3 DEF Remembers
  <2>4. CASE q = p /\ new.rv = nextRv[p]
    BY <2>1, <2>2, <2>4 DEF Remembers
  <2> QED BY <2>2, <2>3, <2>4
<1>2. \A q \in Proxies : cache'[q] # None => Remembers(cache[q], q)'
  <2> SUFFICES ASSUME NEW q \in Proxies, cache[q] # None
               PROVE  Remembers(cache[q], q)'
    OBVIOUS
  <2>1. cache[q] \in Object /\ VersionOf(cache[q], q) /\ Remembers(cache[q], q)
    BY DEF VersionInv, ReadyInv, TypeOK
  <2>2. \A x \in Object : VersionOf(x, q) /\ Remembers(x, q)
                           => (api'[q] # None /\ api'[q].rv = x.rv /\ api'[q].ready = "True"
                                 => x.ready = "True")
    BY <1>1 DEF Remembers
  <2> QED BY <2>1, <2>2 DEF Remembers
<1>3. \A w \in Workers : obj'[w] # None /\ pc'[w] # "cleanup" => Remembers(obj[w], key[w])'
  <2> SUFFICES ASSUME NEW w \in Workers, obj[w] # None, pc[w] # "cleanup"
               PROVE  Remembers(obj[w], key[w])'
    OBVIOUS
  <2>1. key[w] \in Proxies /\ obj[w] \in Object
    BY NoneIsNoValue DEF TypeOK, WorkerShape
  <2>2. VersionOf(obj[w], key[w]) /\ Remembers(obj[w], key[w])
    BY DEF VersionInv, ReadyInv
  <2>3. \A x \in Object, q \in Proxies : VersionOf(x, q) /\ Remembers(x, q)
                           => (api'[q] # None /\ api'[q].rv = x.rv /\ api'[q].ready = "True"
                                 => x.ready = "True")
    BY <1>1 DEF Remembers
  <2> QED BY <2>1, <2>2, <2>3 DEF Remembers
<1> QED BY <1>2, <1>3 DEF ReadyInv

(* A step that writes no object, and forgets no Ready but on the way out.   *)
LEMMA ReadyCopy ==
  ASSUME ReadyInv, UNCHANGED api,
         \A p \in Proxies : cache'[p] \in {cache[p], api[p], None},
         \A w \in Workers :
           \/ obj'[w] = None \/ pc'[w] = "cleanup"
           \/ /\ key'[w] = key[w] /\ obj[w] # None /\ pc[w] # "cleanup"
              /\ obj'[w].rv = obj[w].rv /\ obj'[w].ready \in {obj[w].ready, "True"}
           \/ key'[w] \in Proxies /\ obj'[w] = cache[key'[w]]
  PROVE  ReadyInv'
<1>1. \A p \in Proxies : cache'[p] # None => Remembers(cache[p], p)'
  BY DEF ReadyInv, Remembers
<1>2. \A w \in Workers : obj'[w] # None /\ pc'[w] # "cleanup" => Remembers(obj[w], key[w])'
  BY DEF ReadyInv, Remembers
<1> QED BY <1>1, <1>2 DEF ReadyInv

(* A worker's copy keeps its version, and loses Ready on the way out only.  *)
LEMMA WorkRemembers ==
  ASSUME TypeOK, NEW w \in Workers, WorkerStep(w), ~StatusUpdate(w), obj'[w] # None
  PROVE  /\ obj[w] # None /\ key'[w] = key[w] /\ obj'[w].rv = obj[w].rv
         /\ \/ pc'[w] = "cleanup"
            \/ pc[w] # "cleanup" /\ obj'[w].ready \in {obj[w].ready, "True"}
<1>1. CASE \/ ReadSecret(w) \/ ReadKnownHosts(w) \/ CheckRepository(w) \/ Clone(w) \/ Synthesize(w)
           \/ ApplyClusterClient(w) \/ ApplyResource(w) \/ ApplyResourceFails(w)
           \/ CheckClusterList(w) \/ CheckResource(w) \/ StatusUpdateFails(w)
  <2>1. obj' = obj /\ key' = key /\ pc[w] # "cleanup"
    BY <1>1 DEF ReadSecret, ReadKnownHosts, CheckRepository, Clone, Synthesize, ApplyClusterClient,
                ApplyResource, ApplyResourceFails, CheckClusterList, CheckResource,
                StatusUpdateFails, locals
  <2> QED BY <2>1
<1>2. CASE CloneFails(w) \/ SynthesizeFails(w)
           \/ ApplyClusterList(w) \/ CheckClusterClient(w)
  <2>1. /\ pc[w] \notin {"idle", "cleanup"} /\ key' = key /\ obj[w] \in Object
        /\ \/ obj' = obj \/ SetCondition(w, "ready", "True")
           \/ /\ SetCondition(w, "ready", "False") \/ SetCondition(w, "available", "False")
              /\ \E err : Return(w, err)
    <3>1. CASE CloneFails(w) \/ SynthesizeFails(w)
      BY <3>1, BusyTypes DEF CloneFails, SynthesizeFails
    <3>2. CASE ApplyClusterList(w)
      BY <3>2, BusyTypes DEF ApplyClusterList
    <3>3. CASE CheckClusterClient(w)
      BY <3>3, BusyTypes DEF CheckClusterClient
    <3> QED BY <1>2, <3>1, <3>2, <3>3
  <2>2. ASSUME NEW err, Return(w, err)
        PROVE  pc'[w] = "cleanup"
    BY <2>2 DEF Return, TypeOK
  <2>3. CASE SetCondition(w, "ready", "True")
    <3>1. obj'[w] = [obj[w] EXCEPT !["ready"] = "True"]
      BY <2>3 DEF SetCondition, TypeOK
    <3>2. obj'[w].rv = obj[w].rv /\ obj'[w].ready = "True"
      BY <2>1, <3>1 DEF Object
    <3> QED BY <2>1, <3>2, NoneIsNoValue
  <2>4. ASSUME NEW type \in {"ready", "available"}, SetCondition(w, type, "False")
        PROVE  obj'[w].rv = obj[w].rv
    <3>1. obj'[w] = [obj[w] EXCEPT ![type] = "False"]
      BY <2>4 DEF SetCondition, TypeOK
    <3> QED BY <2>1, <3>1 DEF Object
  <2> QED BY <2>1, <2>2, <2>3, <2>4, NoneIsNoValue
<1>3. CASE Cleanup(w) \/ CleanupFails(w)
  BY <1>3 DEF Cleanup, CleanupFails, Release, TypeOK
<1> QED BY <1>1, <1>2, <1>3 DEF WorkerStep

LEMMA ReadyStep ==
  ASSUME TypeOK, OneWorkerPerProxy, DirectoriesApart, VersionInv, ReadyInv, [Next]_vars
  PROVE  ReadyInv'
<1>1. CASE UNCHANGED <<api, cache, obj, key, pc>>
  BY <1>1 DEF ReadyInv, Remembers
<1>2. ASSUME NEW w \in Workers, StatusUpdate(w)
      PROVE  ReadyInv'
  <2>1. /\ key[w] \in Proxies /\ api[key[w]] \in Object /\ obj[w] \in Object
        /\ api' = [api EXCEPT ![key[w]] = Stored(w)] /\ UNCHANGED <<cache, key, obj>>
    BY <1>2, BusyTypes DEF StatusUpdate, Storable, TypeOK
  <2>2. nextRv[key[w]] \in Nat
    BY <2>1 DEF TypeOK
  <2>3. Stored(w) \in Object /\ (Stored(w) = api[key[w]] \/ Stored(w).rv = nextRv[key[w]])
    BY <2>1, <2>2 DEF Stored, Object
  <2>4. \A v \in Workers : pc'[v] \in {pc[v], "cleanup"}
    BY <1>2 DEF StatusUpdate, Return, TypeOK
  <2> QED BY <2>1, <2>3, <2>4, ReadyWrite
<1>3. ASSUME NEW w \in Workers, WorkerStep(w), ~StatusUpdate(w)
      PROVE  ReadyInv'
  <2>1. UNCHANGED <<api, cache>>
    BY <1>3 DEF WorkerStep, ReadSecret, ReadKnownHosts, CheckRepository, Clone, CloneFails, Synthesize,
           SynthesizeFails, ApplyClusterList, ApplyClusterClient, ApplyResource,
           ApplyResourceFails, CheckClusterList, CheckClusterClient, CheckResource,
           StatusUpdateFails, Cleanup, CleanupFails, store
  <2>2. \A v \in Workers : v # w => pc'[v] = pc[v] /\ key'[v] = key[v] /\ obj'[v] = obj[v]
    BY <1>3, OnlyThisWorker DEF Untouched
  <2> QED BY <1>3, <2>1, <2>2, WorkRemembers, ReadyCopy
<1>4. ASSUME NEW p \in Proxies, CacheSync(p)
      PROVE  ReadyInv'
  <2>1. UNCHANGED <<api, obj, key, pc>>
        /\ \A q \in Proxies : cache'[q] \in {cache[q], api[q], None}
    BY <1>4 DEF CacheSync, store, locals, TypeOK
  <2> QED BY <2>1, ReadyCopy
<1>5. ASSUME NEW w \in Workers, NEW p \in Proxies, Get(w, p)
      PROVE  ReadyInv'
  <2>1. UNCHANGED <<api, cache>>
    BY <1>5 DEF Get, store
  <2>2. \A v \in Workers : \/ v = w /\ key'[v] = p /\ obj'[v] = cache[p]
                           \/ v # w /\ key'[v] = key[v] /\ obj'[v] = obj[v] /\ pc'[v] = pc[v]
    BY <1>5 DEF Get, Goto, TypeOK
  <2> QED BY <2>1, <2>2, ReadyCopy
<1>6. ASSUME NEW p \in Proxies, Resync(p) \/ Backoff(p) \/ Take(p)
      PROVE  ReadyInv'
  <2>1. ASSUME NEW w \in Workers, GetNotFound(w, p)
        PROVE  ReadyInv'
    BY <1>1, <2>1 DEF GetNotFound, store, locals
  <2>2. CASE Resync(p) \/ Backoff(p)
    BY <1>1, <2>2 DEF Resync, Backoff, store, locals
  <2> QED BY <1>5, <1>6, <2>1, <2>2 DEF Take
<1>7. CASE Crash
  BY <1>7 DEF Crash, ReadyInv
<1>8. ASSUME NEW p \in Proxies, NEW s \in ProxySpecs[p], CreateProxy(p, s) \/ UpdateProxy(p, s)
      PROVE  ReadyInv'
  <2>1. PICK ready \in {"Unknown", "True", "False"}, available \in {"Unknown", "False"} :
          WriteSpec(p, s, ready, available)
    BY <1>8 DEF CreateProxy, UpdateProxy, TypeOK, Object
  <2>2. [spec |-> s, ready |-> ready, available |-> available, rv |-> nextRv[p]] \in Object
    BY ProxyReconcilerConstants DEF Object, TypeOK
  <2> QED BY <2>1, <2>2, ReadyWrite DEF WriteSpec, locals
<1>9. ASSUME NEW p \in Proxies, DeleteProxy(p)
      PROVE  ReadyInv'
  BY <1>9 DEF DeleteProxy, locals, ReadyInv, Remembers, TypeOK
<1>10. CASE Environment
  <2>1. CASE /\ ~Crash
             /\ \A p \in Proxies : ~DeleteProxy(p)
             /\ \A p \in Proxies : \A s \in ProxySpecs[p] : ~CreateProxy(p, s) /\ ~UpdateProxy(p, s)
    <3>1. UNCHANGED <<api, cache, obj, key, pc>>
      BY <1>10, <2>1 DEF Environment, SetSecret, Push, ClusterEvent, SetKube, Drift, store, locals
    <3> QED BY <1>1, <3>1
  <2> QED BY <1>7, <1>8, <1>9, <2>1
<1>11. CASE UNCHANGED vars
  BY <1>1, <1>11 DEF vars
<1> QED BY <1>2, <1>3, <1>4, <1>6, <1>10, <1>11 DEF Next, Manager

-----------------------------------------------------------------------------
(* How Passes follows the workers.                                          *)
Kept(v) == Held(v)' = Held(v) /\ (Held(v) # None => PassOf(v)' = PassOf(v))

LEMMA UntouchedKept ==
  ASSUME NEW v \in Workers, Untouched(v)
  PROVE  Kept(v)
BY DEF Untouched, Kept, Held, PassOf, Targets, Dir

LEMMA PassesKept ==
  ASSUME \A v \in Workers : Kept(v)
  PROVE  Passes' = Passes
<1>1. \A x : x \in Passes <=> \E v \in Workers : Held(v) # None /\ x = PassOf(v)
  BY DEF Passes
<1>2. \A x : x \in Passes' <=> \E v \in Workers : Held(v)' # None /\ x = PassOf(v)'
  BY DEF Passes
<1>3. \A x : x \in Passes' <=> x \in Passes
  BY <1>1, <1>2 DEF Kept
<1> QED BY <1>3

LEMMA PassesIdle ==
  ASSUME NEW w \in Workers, Held(w) = None, Held(w)' = None,
         \A v \in Workers \ {w} : Kept(v)
  PROVE  Passes' = Passes
BY PassesKept DEF Kept

(* Different workers, different passes.                                     *)
LEMMA OnePassPerProxy ==
  ASSUME TypeOK, OneWorkerPerProxy, NEW v \in Workers, NEW w \in Workers, v # w,
         Held(v) # None
  PROVE  key[v] \in Proxies /\ key[v] # key[w] /\ PassOf(v) # PassOf(w)
<1>1. pc[v] # "idle"
  BY DEF Held, TypeOK, WorkerShape
<1>2. key[v] \in Proxies /\ key[v] # key[w]
  BY <1>1, BusyTypes, NoneIsNoValue DEF OneWorkerPerProxy
<1>3. PassOf(v).proxy = key[v] /\ PassOf(w).proxy = key[w]
  BY DEF PassOf
<1> QED BY <1>2, <1>3

LEMMA PassBegins ==
  ASSUME NEW w \in Workers, Held(w) = None, Held(w)' # None,
         \A v \in Workers \ {w} : Kept(v)
  PROVE  Passes' = Passes \cup {PassOf(w)'}
<1>1. \A x : x \in Passes <=> \E v \in Workers \ {w} : Held(v) # None /\ x = PassOf(v)
  BY DEF Passes
<1>2. \A x : x \in Passes' <=> x = PassOf(w)' \/ \E v \in Workers \ {w} : Held(v)' # None /\ x = PassOf(v)'
  BY DEF Passes
<1>3. \A x : x \in Passes' <=> x \in Passes \cup {PassOf(w)'}
  BY <1>1, <1>2 DEF Kept
<1> QED BY <1>3

LEMMA OtherPasses ==
  ASSUME TypeOK, OneWorkerPerProxy, NEW w \in Workers, Held(w) # None
  PROVE  /\ PassOf(w) \in Passes
         /\ \A x : x \in Passes \ {PassOf(w)}
                  <=> \E v \in Workers \ {w} : Held(v) # None /\ x = PassOf(v)
<1>1. \A x : x \in Passes <=> \E v \in Workers : Held(v) # None /\ x = PassOf(v)
  BY DEF Passes
<1>2. \A v \in Workers \ {w} : Held(v) # None => PassOf(v) # PassOf(w)
  BY OnePassPerProxy
<1> QED BY <1>1, <1>2

LEMMA PassEnds ==
  ASSUME TypeOK, OneWorkerPerProxy, NEW w \in Workers, Held(w) # None, Held(w)' = None,
         \A v \in Workers \ {w} : Kept(v)
  PROVE  PassOf(w) \in Passes /\ Passes' = Passes \ {PassOf(w)}
<1>1. \A x : x \in Passes' <=> \E v \in Workers \ {w} : Held(v)' # None /\ x = PassOf(v)'
  BY DEF Passes
<1>2. \A x : x \in Passes' <=> x \in Passes \ {PassOf(w)}
  BY <1>1, OtherPasses DEF Kept
<1> QED BY <1>2, OtherPasses

LEMMA PassGoesOn ==
  ASSUME TypeOK, OneWorkerPerProxy, NEW w \in Workers, Held(w) # None, Held(w)' # None,
         \A v \in Workers \ {w} : Kept(v)
  PROVE  PassOf(w) \in Passes /\ Passes' = (Passes \ {PassOf(w)}) \cup {PassOf(w)'}
<1>1. \A x : x \in Passes' <=>
              x = PassOf(w)' \/ \E v \in Workers \ {w} : Held(v)' # None /\ x = PassOf(v)'
  BY DEF Passes
<1>2. \A x : x \in Passes' <=> x \in (Passes \ {PassOf(w)}) \cup {PassOf(w)'}
  BY <1>1, OtherPasses DEF Kept
<1> QED BY <1>2, OtherPasses

-----------------------------------------------------------------------------
(* The step of Rollout that each step of the controller is.                 *)
AbstractStep == R!Step \/ R!Look

LEMMA ApiKept == UNCHANGED api => UNCHANGED <<Wanted, DeclaredReady>>
BY DEF Wanted, DeclaredReady

LEMMA Stutters ==
  ASSUME UNCHANGED <<api, head, label, deployed>>, Passes' = Passes
  PROVE  AbstractStep
BY ApiKept DEF AbstractStep, R!Look

LEMMA PassStep ==
  ASSUME NEW x \in Passes, R!Pass(x)
  PROVE  AbstractStep
BY DEF AbstractStep, R!Step

LEMMA ReturnAbandons ==
  ASSUME TypeOK, OneWorkerPerProxy, NEW w \in Workers, NEW err, Return(w, err),
         UNCHANGED <<api, head, label, deployed>>, \A v \in Workers \ {w} : Kept(v)
  PROVE  AbstractStep
<1>1. Held(w)' = None
  BY DEF Return, Held, TypeOK
<1>2. CASE Held(w) = None
  BY <1>1, <1>2, PassesIdle, Stutters
<1>3. CASE Held(w) # None
  <2>1. PassOf(w) \in Passes /\ Passes' = Passes \ {PassOf(w)}
    BY <1>1, <1>3, PassEnds
  <2>2. R!Abandon(PassOf(w))
    BY <2>1, ApiKept DEF R!Abandon
  <2> QED BY <2>1, <2>2, PassStep DEF R!Pass
<1> QED BY <1>2, <1>3

LEMMA CloneBegins ==
  ASSUME TypeOK, IsolationInv, KnownSpecs, DirectoriesApart, NEW w \in Workers, Clone(w)
  PROVE  AbstractStep
<1> DEFINE s == obj[w].spec
           commit == [url |-> s.git.url, ref |-> s.git.ref, rev |-> head[s.git.url][s.git.ref]]
<1>1. /\ pc[w] = "clone" /\ head[s.git.url][s.git.ref] > 0
      /\ UNCHANGED <<api, head, label, deployed, key, obj>>
  BY DEF Clone, Cloneable, BranchHead, Url, store, world, locals
<1>2. /\ key[w] \in Proxies /\ s \in ProxySpecs[key[w]] /\ commit \in Content
  BY <1>1, BusyTypes, NoneIsNoValue DEF KnownSpecs, Content, BranchHead, Url
<1>3. Held(w) = None
  BY <1>1 DEF Held, TypeOK, WorkerShape
<1>4. pc'[w] = "synth" /\ Held(w)' = commit
  BY KeepsClone DEF IsolationInv, Url, BranchHead
<1>5. \A v \in Workers \ {w} : Kept(v)
  BY OnlyThisWorker, UntouchedKept DEF IsolationInv, WorkerStep
<1>6. Passes' = Passes \cup {PassOf(w)'}
  BY <1>2, <1>3, <1>4, <1>5, PassBegins, NoneIsNoValue
<1>7. PassOf(w)' = [proxy |-> key[w], spec |-> s, targets |-> {}, commit |-> commit]
  BY <1>1, <1>4 DEF PassOf, Targets
<1>8. \A x \in Passes : x.proxy # key[w]
  <2> SUFFICES ASSUME NEW v \in Workers, Held(v) # None
               PROVE  PassOf(v).proxy # key[w]
    BY DEF Passes
  <2>1. v # w /\ PassOf(v).proxy = key[v]
    BY <1>3 DEF PassOf
  <2> QED BY <2>1, OnePassPerProxy DEF IsolationInv
<1>9. R!Begin(key[w], s)
  BY <1>1, <1>6, <1>7, <1>8, ApiKept DEF R!Begin
<1>10. s \in Shown[key[w]]
  BY <1>2, <1>1, BusyTypes, NoneIsNoValue DEF Shown, Copies
<1> QED BY <1>2, <1>9, <1>10 DEF AbstractStep, R!Step

(* A worker that has listed the clusters holds the parsed resources.        *)
LEMMA ListingHolds ==
  ASSUME TypeOK, NEW w \in Workers,
         pc[w] \in {"applyList", "apply", "checkList", "check", "status"}
  PROVE  /\ Held(w) = src[w] /\ src[w] # None /\ src[w] \in Content
         /\ obj[w] \in Object /\ obj[w] # None
BY BusyTypes, NoneIsNoValue DEF Held, TypeOK, WorkerShape

LEMMA ListAims ==
  ASSUME TypeOK, OneWorkerPerProxy, NEW w \in Workers,
         pc[w] \in {"applyList", "checkList"}, pc'[w] \in {"apply", "check"}, StartLoop(w),
         UNCHANGED <<api, head, label, deployed, key, obj, src>>,
         \A v \in Workers \ {w} : Kept(v)
  PROVE  AbstractStep
<1>1. Held(w) = src[w] /\ Held(w)' = src[w] /\ src[w] # None
  BY ListingHolds DEF Held
<1>2. PassOf(w) \in Passes /\ Passes' = (Passes \ {PassOf(w)}) \cup {PassOf(w)'}
  BY <1>1, PassGoesOn
<1>3. loop'[w].items = Selected(w)
  BY DEF StartLoop, TypeOK
<1>4. PassOf(w)' = [PassOf(w) EXCEPT !.targets =
                      {c \in Clusters : label[c] \in PassOf(w).spec.sel}]
  BY <1>1, <1>3 DEF PassOf, Targets, Selected
<1>5. R!Aim(PassOf(w))
  BY <1>2, <1>4, ApiKept DEF R!Aim
<1> QED BY <1>2, <1>5, PassStep DEF R!Pass

(* Steps inside the loops change no pass.                                   *)
LEMMA LoopKeepsPass ==
  ASSUME TypeOK, NEW w \in Workers, UNCHANGED <<key, src>>,
         obj'[w].spec = obj[w].spec, loop'[w].items = loop[w].items,
         pc[w] \in {"apply", "check"}, pc'[w] \in {"apply", "checkList", "check", "status"}
  PROVE  Kept(w)
BY DEF Kept, Held, PassOf, Targets

LEMMA AdvancedItems ==
  ASSUME TypeOK, NEW w \in Workers, loop[w].cur # None,
         \/ loop' = [loop EXCEPT ![w] = Advanced(w)]
         \/ loop' = [loop EXCEPT ![w].cur = None, ![w].idx = 0]
         \/ \E m \in BOOLEAN : loop' = [loop EXCEPT ![w] = [Advanced(w) EXCEPT !.missing = m]]
  PROVE  loop'[w].items = loop[w].items
<1>1. loop[w] \in Loops /\ loop \in [Workers -> Loops] /\ Advanced(w) \in Loops
  BY AdvancedType DEF TypeOK
<1>2. Advanced(w).items = loop[w].items
  BY <1>1 DEF Advanced, Loops
<1>3. CASE loop' = [loop EXCEPT ![w] = Advanced(w)]
  BY <1>1, <1>2, <1>3
<1>4. CASE loop' = [loop EXCEPT ![w].cur = None, ![w].idx = 0]
  <2>1. loop'[w] = [loop[w] EXCEPT !.cur = None, !.idx = 0]
    BY <1>1, <1>4
  <2> QED BY <1>1, <2>1 DEF Loops
<1>5. ASSUME NEW m \in BOOLEAN, loop' = [loop EXCEPT ![w] = [Advanced(w) EXCEPT !.missing = m]]
      PROVE  loop'[w].items = loop[w].items
  <2>1. loop'[w] = [Advanced(w) EXCEPT !.missing = m]
    BY <1>1, <1>5
  <2> QED BY <1>1, <1>2, <2>1 DEF Loops
<1> QED BY <1>3, <1>4, <1>5

LEMMA VisitItems ==
  ASSUME TypeOK, NEW w \in Workers, NEW c, Skip(w, c) \/ Enter(w, c)
  PROVE  loop'[w].items = loop[w].items
<1>1. loop[w] \in Loops /\ loop \in [Workers -> Loops]
  BY DEF TypeOK
<1>2. CASE Skip(w, c)
  <2>1. loop'[w] = [loop[w] EXCEPT !.todo = loop[w].todo \ {c}]
    BY <1>1, <1>2 DEF Skip
  <2> QED BY <1>1, <2>1 DEF Loops
<1>3. CASE Enter(w, c)
  <2>1. loop'[w] = [loop[w] EXCEPT !.todo = loop[w].todo \ {c}, !.cur = c, !.idx = 1]
    BY <1>1, <1>3 DEF Enter
  <2> QED BY <1>1, <2>1 DEF Loops
<1> QED BY <1>2, <1>3

LEMMA ClientStep ==
  ASSUME TypeOK, OneWorkerPerProxy, NEW w \in Workers,
         ApplyClusterClient(w) \/ CheckClusterClient(w),
         \A v \in Workers \ {w} : Kept(v)
  PROVE  AbstractStep
<1>1. /\ pc[w] \in {"apply", "check"} /\ UNCHANGED <<api, head, label, deployed, key>>
      /\ obj[w] \in Object
  <2>1. CASE ApplyClusterClient(w)
    BY <2>1, BusyTypes DEF ApplyClusterClient, store, world
  <2>2. CASE CheckClusterClient(w)
    BY <2>2, BusyTypes DEF CheckClusterClient, store, world
  <2> QED BY <2>1, <2>2
<1>2. \/ \E err : Return(w, err)
      \/ /\ src' = src /\ (obj' = obj \/ SetCondition(w, "ready", "True"))
         /\ loop' = loop \/ (\E c : Skip(w, c) \/ Enter(w, c))
         /\ pc' = pc \/ Goto(w, "checkList") \/ Goto(w, "status")
  <2>1. CASE ApplyClusterClient(w)
    BY <2>1, Zenon DEF ApplyClusterClient
  <2>2. CASE CheckClusterClient(w)
    BY <2>2, Zenon DEF CheckClusterClient
  <2> QED BY <2>1, <2>2
<1>3. ASSUME NEW err, Return(w, err)
      PROVE  AbstractStep
  BY <1>1, <1>3, ReturnAbandons
<1>4. CASE /\ src' = src /\ (obj' = obj \/ SetCondition(w, "ready", "True"))
           /\ loop' = loop \/ (\E c : Skip(w, c) \/ Enter(w, c))
           /\ pc' = pc \/ Goto(w, "checkList") \/ Goto(w, "status")
  <2>1. obj'[w].spec = obj[w].spec
    BY <1>1, <1>4, SetConditionType
  <2>2. loop'[w].items = loop[w].items
    BY <1>4, VisitItems
  <2>3. pc'[w] \in {"apply", "checkList", "check", "status"}
    BY <1>1, <1>4 DEF Goto, TypeOK
  <2>4. Kept(w)
    BY <1>1, <1>4, <2>1, <2>2, <2>3, LoopKeepsPass
  <2> QED BY <1>1, <2>4, PassesKept, Stutters
<1> QED BY <1>2, <1>3, <1>4

LEMMA ApplyPuts ==
  ASSUME TypeOK, OneWorkerPerProxy, LoopInv, NEW w \in Workers,
         ApplyResource(w) \/ ApplyResourceFails(w), \A v \in Workers \ {w} : Kept(v)
  PROVE  AbstractStep
<1> DEFINE c == loop[w].cur
           i == loop[w].idx
<1>1. /\ pc[w] = "apply" /\ c # None /\ pc' = pc
      /\ UNCHANGED <<api, head, label, key, obj, src>>
  BY DEF ApplyResource, ApplyResourceFails, store, world
<1>2. loop'[w].items = loop[w].items
  BY <1>1, AdvancedItems DEF ApplyResource, ApplyResourceFails
<1>3. Kept(w)
  BY <1>1, <1>2, LoopKeepsPass
<1>4. Passes' = Passes
  BY <1>3, PassesKept
<1>5. \/ UNCHANGED deployed
      \/ deployed' = [deployed EXCEPT ![c][Emitted(w)[i]] = src[w]]
  BY DEF ApplyResource, ApplyResourceFails
<1>6. CASE UNCHANGED deployed
  BY <1>1, <1>4, <1>6, Stutters
<1>7. CASE deployed' = [deployed EXCEPT ![c][Emitted(w)[i]] = src[w]]
  <2>1. Held(w) = src[w] /\ src[w] # None
    BY <1>1, ListingHolds
  <2>2. /\ PassOf(w) \in Passes /\ PassOf(w).commit = src[w]
        /\ PassOf(w).targets = loop[w].items
    BY <1>1, <2>1 DEF Passes, PassOf, Targets
  <2>3. /\ c \in Clusters /\ c \in loop[w].items
        /\ Manifests[src[w].url] \in Seq(Resources) /\ i \in DOMAIN Manifests[src[w].url]
    BY <1>1, <2>1, AdvancedType, EmittedTypes DEF LoopInv, LoopFits, Emitted
  <2>4. R!Put(PassOf(w), c, i)
    BY <1>1, <1>4, <1>7, <2>2, <2>3, ApiKept DEF R!Put, Emitted
  <2>5. R!Pass(PassOf(w))
    BY <2>2, <2>3, <2>4 DEF R!Pass
  <2> QED BY <2>2, <2>5, PassStep
<1> QED BY <1>5, <1>6, <1>7

(* Ready is set by a pass of the stored spec; a status update that sets     *)
(* nothing does not take Ready back either.                                 *)
LEMMA StatusDeclares ==
  ASSUME TypeOK, OneWorkerPerProxy, VersionInv, ReadyInv, NEW w \in Workers, StatusUpdate(w),
         \A v \in Workers \ {w} : Kept(v)
  PROVE  AbstractStep
<1> DEFINE p == key[w]
<1>1. /\ pc[w] = "status" /\ p \in Proxies /\ obj[w] \in Object /\ obj[w] # None
      /\ api[p] \in Object /\ api[p] # None /\ api[p].rv = obj[w].rv
      /\ api' = [api EXCEPT ![p] = Stored(w)] /\ UNCHANGED <<head, label, deployed>>
  BY BusyTypes, NoneIsNoValue DEF StatusUpdate, Storable, TypeOK, world
<1>2. nextRv[p] \in Nat /\ Stored(w) \in Object
  <2>1. nextRv[p] \in Nat
    BY <1>1 DEF TypeOK
  <2> QED BY <1>1, <2>1 DEF Stored, Object
<1>3. Stored(w).spec = api[p].spec /\ Stored(w).ready = obj[w].ready
  BY <1>1 DEF Stored, Object
<1>4. Wanted' = Wanted
  BY <1>1, <1>2, <1>3, NoneIsNoValue DEF Wanted, TypeOK
<1>5. DeclaredReady' = [DeclaredReady EXCEPT ![p] = (obj[w].ready = "True")]
  BY <1>1, <1>2, <1>3, NoneIsNoValue DEF DeclaredReady, TypeOK
<1>6. \E err : Return(w, err)
  BY DEF StatusUpdate
<1>7. Held(w) # None /\ Held(w)' = None
  BY <1>1, <1>6, ListingHolds DEF Return, Held, TypeOK
<1>8. PassOf(w) \in Passes /\ Passes' = Passes \ {PassOf(w)}
  BY <1>7, PassEnds
<1>9. PassOf(w).proxy = p /\ PassOf(w).spec = obj[w].spec
  BY DEF PassOf
<1>10. CASE obj[w].ready = "True"
  <2>1. Wanted[p] = obj[w].spec
    BY <1>1 DEF VersionInv, VersionOf, Wanted
  <2>2. R!Declare(PassOf(w))
    BY <1>1, <1>4, <1>5, <1>8, <1>9, <1>10, <2>1 DEF R!Declare
  <2> QED BY <1>8, <2>2, PassStep DEF R!Pass
<1>11. CASE obj[w].ready # "True"
  <2>1. api[p].ready # "True"
    BY <1>1, <1>11 DEF ReadyInv, Remembers
  <2>2. DeclaredReady' = DeclaredReady
    BY <1>1, <1>5, <1>11, <2>1 DEF DeclaredReady
  <2>3. R!Abandon(PassOf(w))
    BY <1>1, <1>4, <1>8, <2>2 DEF R!Abandon
  <2> QED BY <1>8, <2>3, PassStep DEF R!Pass
<1> QED BY <1>10, <1>11

LEMMA WorkerRefines ==
  ASSUME TypeOK, IsolationInv, KnownSpecs, VersionInv, ReadyInv, LoopInv, DirectoriesApart,
         NEW w \in Workers, WorkerStep(w)
  PROVE  AbstractStep
<1>1. OneWorkerPerProxy /\ (\A v \in Workers \ {w} : Kept(v))
  BY OnlyThisWorker, UntouchedKept DEF IsolationInv
<1>2. CASE ReadSecret(w) \/ ReadKnownHosts(w) \/ CheckRepository(w)
  <2>1. src[w] = None /\ Held(w) = None
    BY <1>2 DEF ReadSecret, ReadKnownHosts, CheckRepository, Held, TypeOK, WorkerShape
  <2>2. UNCHANGED <<api, head, label, deployed>>
    BY <1>2 DEF ReadSecret, ReadKnownHosts, CheckRepository, store, world
  <2>3. pc'[w] # "synth" /\ src'[w] = None
    BY <1>2, <2>1 DEF ReadSecret, ReadKnownHosts, CheckRepository, Return, Goto, TypeOK
  <2> QED BY <1>1, <2>1, <2>2, <2>3, PassesIdle, Stutters DEF Held
<1>3. CASE Synthesize(w)
  <2>1. /\ pc[w] = "synth" /\ pc'[w] = "applyList" /\ src'[w] = dirs[Dir(w)]
        /\ UNCHANGED <<api, head, label, deployed, key, obj>>
    BY <1>3 DEF Synthesize, Goto, store, world, TypeOK
  <2>2. Kept(w)
    BY <2>1 DEF Kept, Held, PassOf, Targets
  <2> QED BY <1>1, <2>1, <2>2, PassesKept, Stutters
<1>4. CASE CloneFails(w) \/ SynthesizeFails(w) \/ StatusUpdateFails(w)
  <2>1. UNCHANGED <<api, head, label, deployed>> /\ (\E err : Return(w, err))
    BY <1>4 DEF CloneFails, SynthesizeFails, StatusUpdateFails, store, world
  <2> QED BY <1>1, <2>1, ReturnAbandons
<1>5. CASE ApplyClusterList(w) \/ CheckClusterList(w)
  <2>1. pc[w] \in {"applyList", "checkList"} /\ UNCHANGED <<api, head, label, deployed, key>>
    BY <1>5 DEF ApplyClusterList, CheckClusterList, store, world
  <2>2. \/ \E err : Return(w, err)
        \/ /\ StartLoop(w) /\ UNCHANGED <<obj, src>>
           /\ Goto(w, "apply") \/ Goto(w, "check")
    BY <1>5 DEF ApplyClusterList, CheckClusterList
  <2>3. CASE StartLoop(w) /\ UNCHANGED <<obj, src>> /\ (Goto(w, "apply") \/ Goto(w, "check"))
    <3>1. pc'[w] \in {"apply", "check"}
      BY <2>3 DEF Goto, TypeOK
    <3> QED BY <1>1, <2>1, <2>3, <3>1, ListAims
  <2> QED BY <1>1, <2>1, <2>2, <2>3, ReturnAbandons
<1>6. CASE CheckResource(w)
  <2>1. /\ pc[w] = "check" /\ loop[w].cur # None
        /\ UNCHANGED <<api, head, label, deployed, key, obj>>
    BY <1>6 DEF CheckResource, store, world
  <2>2. \/ \E err : Return(w, err)
        \/ /\ UNCHANGED <<pc, src>>
           /\ loop' = [loop EXCEPT ![w] = [Advanced(w) EXCEPT !.missing =
                                Missing(w, loop[w].cur, Emitted(w)[loop[w].idx])]]
    BY <1>6 DEF CheckResource
  <2>3. ASSUME UNCHANGED <<pc, src>>,
               loop' = [loop EXCEPT ![w] = [Advanced(w) EXCEPT !.missing =
                                Missing(w, loop[w].cur, Emitted(w)[loop[w].idx])]]
        PROVE  AbstractStep
    <3>1. Missing(w, loop[w].cur, Emitted(w)[loop[w].idx]) \in BOOLEAN
      BY DEF Missing, TypeOK, Loops, Exists
    <3>2. Kept(w)
      BY <2>1, <2>3, <3>1, AdvancedItems, LoopKeepsPass
    <3> QED BY <1>1, <2>1, <3>2, PassesKept, Stutters
  <2> QED BY <1>1, <2>1, <2>2, <2>3, ReturnAbandons
<1>7. CASE Cleanup(w) \/ CleanupFails(w)
  <2>1. src[w] = None /\ Held(w) = None /\ src' = src
    BY <1>7 DEF Cleanup, CleanupFails, Held, TypeOK, WorkerShape
  <2>2. UNCHANGED <<api, head, label, deployed>> /\ pc'[w] # "synth"
    BY <1>7 DEF Cleanup, CleanupFails, Release, store, world, TypeOK
  <2> QED BY <1>1, <2>1, <2>2, PassesIdle, Stutters DEF Held
<1> QED BY <1>1, <1>2, <1>3, <1>4, <1>5, <1>6, <1>7,
           CloneBegins, ClientStep, ApplyPuts, StatusDeclares DEF WorkerStep

(* The queue and the cache are the controller's own affair.                 *)
LEMMA QueueRefines ==
  ASSUME TypeOK, NEW p \in Proxies, CacheSync(p) \/ Resync(p) \/ Backoff(p) \/ Take(p)
  PROVE  AbstractStep
<1>1. CASE UNCHANGED <<api, head, label, deployed, pc, key, obj, src, loop, dirs>>
  <2>1. \A v \in Workers : Kept(v)
    BY <1>1, UntouchedKept DEF Untouched
  <2> QED BY <1>1, <2>1, PassesKept, Stutters
<1>2. ASSUME NEW w \in Workers, Get(w, p)
      PROVE  AbstractStep
  <2>1. /\ UNCHANGED <<api, head, label, deployed, src, loop, dirs>> /\ pc[w] = "idle"
        /\ \A v \in Workers \ {w} : pc'[v] = pc[v] /\ key'[v] = key[v] /\ obj'[v] = obj[v]
        /\ pc'[w] = "secret"
    BY <1>2 DEF Get, Goto, store, world, TypeOK
  <2>2. \A v \in Workers \ {w} : Kept(v)
    BY <2>1, UntouchedKept DEF Untouched
  <2>3. Held(w) = None /\ Held(w)' = None
    BY <2>1 DEF Held, TypeOK, WorkerShape
  <2> QED BY <2>1, <2>2, <2>3, PassesIdle, Stutters
<1>3. ASSUME NEW w \in Workers, GetNotFound(w, p)
      PROVE  AbstractStep
  BY <1>1, <1>3 DEF GetNotFound, store, world, locals
<1>4. CASE CacheSync(p) \/ Resync(p) \/ Backoff(p)
  BY <1>1, <1>4 DEF CacheSync, Resync, Backoff, store, world, locals
<1> QED BY <1>2, <1>3, <1>4 DEF Take

LEMMA UserRefines ==
  ASSUME TypeOK, TypeOK', NEW p \in Proxies, NEW s \in ProxySpecs[p],
         CreateProxy(p, s) \/ UpdateProxy(p, s), Passes' = Passes
  PROVE  AbstractStep
<1>1. PICK ready \in {"Unknown", "True", "False"}, available \in {"Unknown", "False"} :
        /\ WriteSpec(p, s, ready, available)
        /\ (ready = "True") = DeclaredReady[p]
  <2>1. CASE CreateProxy(p, s)
    BY <2>1 DEF CreateProxy, DeclaredReady
  <2>2. CASE UpdateProxy(p, s)
    <3>1. api[p] \in Object /\ api[p] # None
      BY <2>2 DEF UpdateProxy, TypeOK
    <3>2. /\ api[p].ready \in {"Unknown", "True", "False"}
          /\ api[p].available \in {"Unknown", "False"}
      BY <3>1 DEF Object
    <3> QED BY <2>2, <3>1, <3>2 DEF UpdateProxy, DeclaredReady
  <2> QED BY <2>1, <2>2
<1>2. /\ api' = [api EXCEPT ![p] = [spec |-> s, ready |-> ready, available |-> available,
                                    rv |-> nextRv[p]]]
      /\ UNCHANGED <<head, label, deployed>>
  BY <1>1 DEF WriteSpec, world
<1>3. [spec |-> s, ready |-> ready, available |-> available, rv |-> nextRv[p]] \in Object
  BY ProxyReconcilerConstants DEF Object, TypeOK
<1>4. Wanted' = [Wanted EXCEPT ![p] = s]
  BY <1>2, <1>3, NoneIsNoValue DEF Wanted, TypeOK
<1>5. DeclaredReady' = DeclaredReady
  BY <1>1, <1>2, <1>3, NoneIsNoValue DEF DeclaredReady, TypeOK
<1>6. R!Want(p, s)
  BY <1>2, <1>4, <1>5 DEF R!Want
<1> QED BY <1>6 DEF AbstractStep, R!Step

LEMMA EnvironmentRefines ==
  ASSUME TypeOK, TypeOK', Environment
  PROVE  AbstractStep
<1>1. CASE Crash
  <2>1. UNCHANGED <<api, head, label, deployed>> /\ (\A w \in Workers : Held(w)' = None)
    BY <1>1 DEF Crash, Held, store, world
  <2>2. Passes' = {}
    BY <2>1 DEF Passes
  <2>3. R!Restart
    BY <2>1, <2>2, ApiKept DEF R!Restart
  <2> QED BY <2>3 DEF AbstractStep, R!Step
<1>2. ASSUME ~Crash PROVE Passes' = Passes
  <2>1. UNCHANGED <<pc, key, obj, src, loop, dirs>>
    BY <1>2 DEF Environment, CreateProxy, UpdateProxy, WriteSpec, DeleteProxy, SetSecret, Push,
                ClusterEvent, SetKube, Drift, locals
  <2>2. \A v \in Workers : Kept(v)
    BY <2>1, UntouchedKept DEF Untouched
  <2> QED BY <2>2, PassesKept
<1>3. ASSUME ~Crash, NEW p \in Proxies, DeleteProxy(p)
      PROVE  AbstractStep
  <2>1. api' = [api EXCEPT ![p] = None] /\ UNCHANGED <<head, label, deployed>>
    BY <1>3 DEF DeleteProxy, world
  <2>2. Wanted' = [Wanted EXCEPT ![p] = None]
    BY <2>1 DEF Wanted, TypeOK
  <2>3. DeclaredReady' = [DeclaredReady EXCEPT ![p] = FALSE]
    BY <2>1 DEF DeclaredReady, TypeOK
  <2>4. R!Withdraw(p)
    BY <1>2, <1>3, <2>1, <2>2, <2>3 DEF R!Withdraw
  <2> QED BY <2>4 DEF AbstractStep, R!Step
<1>4. ASSUME ~Crash, NEW u \in Urls, NEW ref \in Refs, Push(u, ref)
      PROVE  AbstractStep
  <2>1. R!Push(u, ref)
    BY <1>2, <1>4, ApiKept DEF Push, R!Push, store
  <2> QED BY <2>1 DEF AbstractStep, R!Step
<1>5. ASSUME ~Crash, NEW c \in Clusters, NEW l \in Labels \cup {Gone}, ClusterEvent(c, l)
      PROVE  AbstractStep
  <2>1. R!Relabel(c, l)
    BY <1>2, <1>5, ApiKept DEF ClusterEvent, R!Relabel, store
  <2> QED BY <2>1 DEF AbstractStep, R!Step
<1>6. ASSUME ~Crash, NEW c \in Clusters, NEW r \in Resources, Drift(c, r)
      PROVE  AbstractStep
  <2>1. R!Lose(c, r)
    BY <1>2, <1>6, ApiKept DEF Drift, R!Lose, store, world
  <2> QED BY <2>1 DEF AbstractStep, R!Step
<1>7. ASSUME ~Crash, NEW p \in Proxies, NEW s \in SecretStates, SetSecret(p, s)
      PROVE  AbstractStep
  BY <1>2, <1>7, Stutters DEF SetSecret, store
<1>8. ASSUME ~Crash, NEW c \in Clusters, NEW k \in KubeStates, SetKube(c, k)
      PROVE  AbstractStep
  BY <1>2, <1>8, Stutters DEF SetKube, store
<1>9. ASSUME ~Crash, NEW p \in Proxies, NEW s \in ProxySpecs[p],
             CreateProxy(p, s) \/ UpdateProxy(p, s)
      PROVE  AbstractStep
  BY <1>2, <1>9, UserRefines
<1> QED BY <1>1, <1>3, <1>4, <1>5, <1>6, <1>7, <1>8, <1>9 DEF Environment

-----------------------------------------------------------------------------
(* Specs travel from the store to the cache to a worker, and never from one *)
(* proxy to another.                                                        *)
NoNewSpec(p) ==
  \A o \in Copies(p)' : o # None =>
    o.spec \in Shown[p] \/ (api'[p] # None /\ o.spec = api'[p].spec)

LEMMA SightOf ==
  ASSUME TypeOK', \A p \in Proxies : NoNewSpec(p)
  PROVE  R!Sight
<1>1. DOMAIN Shown' = Proxies
  BY DEF Shown
<1>2. ASSUME NEW p \in Proxies, Wanted'[p] = None
      PROVE  Shown'[p] \subseteq Shown[p]
  <2>1. api'[p] = None
    BY <1>2, NoneIsNoValue DEF Wanted, TypeOK, Object
  <2>2. Shown'[p] = {o.spec : o \in Copies(p)' \ {None}}
    BY DEF Shown
  <2> QED BY <2>1, <2>2 DEF NoNewSpec
<1>3. ASSUME NEW p \in Proxies, Wanted'[p] # None
      PROVE  Wanted'[p] \in Shown'[p] /\ Shown'[p] \subseteq Shown[p] \cup {Wanted'[p]}
  <2>1. api'[p] # None /\ Wanted'[p] = api'[p].spec
    BY <1>3 DEF Wanted
  <2>2. Shown'[p] = {o.spec : o \in Copies(p)' \ {None}} /\ api'[p] \in Copies(p)'
    BY DEF Shown, Copies
  <2> QED BY <2>1, <2>2 DEF NoNewSpec
<1> QED BY <1>1, <1>2, <1>3 DEF R!Sight

LEMMA SpecTravels ==
  ASSUME \A q \in Proxies : cache'[q] \in {cache[q], api[q], None},
         \A w \in Workers :
           \/ obj'[w] = None
           \/ key'[w] = key[w] /\ obj[w] # None /\ obj'[w].spec = obj[w].spec
           \/ key'[w] \in Proxies /\ obj'[w] = cache[key'[w]],
         NEW p \in Proxies
  PROVE  NoNewSpec(p)
<1> SUFFICES ASSUME NEW o \in Copies(p)', o # None, o # api'[p]
             PROVE  o.spec \in Shown[p]
  BY DEF NoNewSpec
<1>1. Shown[p] = {c.spec : c \in Copies(p) \ {None}}
  BY DEF Shown
<1>2. CASE o = cache'[p]
  BY <1>1, <1>2 DEF Copies
<1>3. ASSUME NEW w \in Workers, key'[w] = p, o = obj'[w]
      PROVE  o.spec \in Shown[p]
  <2>1. CASE key'[w] = key[w] /\ obj[w] # None /\ obj'[w].spec = obj[w].spec
    <3>1. obj[w] \in Copies(p) \ {None}
      BY <1>3, <2>1 DEF Copies
    <3> QED BY <1>1, <1>3, <2>1, <3>1
  <2>2. CASE obj'[w] = cache[key'[w]]
    BY <1>1, <1>3, <2>2 DEF Copies
  <2> QED BY <1>3, <2>1, <2>2
<1> QED BY <1>2, <1>3 DEF Copies

LEMMA SightStep ==
  ASSUME TypeOK, TypeOK', [Next]_vars
  PROVE  R!Sight
<1> SUFFICES \A p \in Proxies : NoNewSpec(p)
  BY SightOf
<1>1. CASE UNCHANGED <<cache, obj, key>>
  BY <1>1, SpecTravels
<1>2. ASSUME NEW w \in Workers, WorkerStep(w)
      PROVE  \A p \in Proxies : NoNewSpec(p)
  <2>1. KeepsWatch(w)
    BY <1>2, WorkKeepsWatch
  <2> QED BY <2>1, SpecTravels DEF KeepsWatch
<1>3. ASSUME NEW p \in Proxies, CacheSync(p)
      PROVE  \A q \in Proxies : NoNewSpec(q)
  <2>1. UNCHANGED <<obj, key>> /\ \A q \in Proxies : cache'[q] \in {cache[q], api[q], None}
    BY <1>3 DEF CacheSync, locals, TypeOK
  <2> QED BY <2>1, SpecTravels
<1>4. ASSUME NEW w \in Workers, NEW p \in Proxies, Get(w, p)
      PROVE  \A q \in Proxies : NoNewSpec(q)
  <2>1. cache' = cache
    BY <1>4 DEF Get
  <2>2. \A v \in Workers : \/ v = w /\ key'[v] = p /\ obj'[v] = cache[p]
                           \/ v # w /\ key'[v] = key[v] /\ obj'[v] = obj[v]
    BY <1>4 DEF Get, TypeOK
  <2> QED BY <2>1, <2>2, SpecTravels
<1>5. ASSUME NEW p \in Proxies, Resync(p) \/ Backoff(p) \/ Take(p)
      PROVE  \A q \in Proxies : NoNewSpec(q)
  BY <1>1, <1>4, <1>5 DEF Resync, Backoff, Take, GetNotFound, store, locals
<1>6. CASE Crash
  BY <1>6, SpecTravels DEF Crash
<1>7. CASE Environment /\ ~Crash
  BY <1>1, <1>7 DEF Environment, CreateProxy, UpdateProxy, WriteSpec, DeleteProxy, SetSecret, Push,
                    ClusterEvent, SetKube, Drift, locals
<1>8. CASE UNCHANGED vars
  BY <1>1, <1>8 DEF vars
<1> QED BY <1>2, <1>3, <1>5, <1>6, <1>7, <1>8 DEF Next, Manager

LEMMA StepRefines ==
  ASSUME TypeOK, TypeOK', IsolationInv, KnownSpecs, VersionInv, ReadyInv, LoopInv,
         DirectoriesApart, [Next]_vars
  PROVE  R!Next
<1>1. CASE UNCHANGED vars
  <2>1. \A v \in Workers : Kept(v)
    BY <1>1, UntouchedKept DEF Untouched, vars
  <2> QED BY <1>1, <2>1, PassesKept, Stutters, SightStep DEF vars, AbstractStep, R!Next
<1> QED
  BY <1>1, WorkerRefines, QueueRefines, EnvironmentRefines, SightStep
  DEF Next, Manager, AbstractStep, R!Next

LEMMA InitRefines == Init => R!Init
<1> SUFFICES ASSUME Init PROVE R!Init
  OBVIOUS
<1>1. Wanted = [p \in Proxies |-> None] /\ DeclaredReady = [p \in Proxies |-> FALSE]
  BY DEF Init, Wanted, DeclaredReady
<1>2. Passes = {}
  BY DEF Init, Passes, Held
<1>3. Shown = [p \in Proxies |-> {}]
  BY NoneIsNoValue DEF Init, Shown, Copies
<1> QED BY <1>1, <1>2, <1>3 DEF Init, R!Init

(* Where no two proxies share a directory, the controller's workers, with   *)
(* their queue, cache, clones, retries and restarts, do nothing to the      *)
(* clusters and to Ready that one pass after another would not do.          *)
THEOREM RolloutImplemented == DirectoriesApart /\ Spec => ImplementsRollout
<1> SUFFICES ASSUME DirectoriesApart PROVE Spec => ImplementsRollout
  OBVIOUS
<1>1. Init => VersionInv /\ ReadyInv /\ LoopInv /\ KnownSpecs
  BY DEF Init, VersionInv, ReadyInv, LoopInv, LoopFits, KnownSpecs, NoLoop
<1>2. TypeOK /\ IsolationInv /\ [Next]_vars => IsolationInv'
  BY IsolationStep
<1>3. TypeOK /\ VersionInv /\ [Next]_vars => VersionInv'
  BY VersionStep
<1>4. TypeOK /\ KnownSpecs /\ [Next]_vars => KnownSpecs'
  BY KnownSpecsStep
<1>5. TypeOK /\ IsolationInv /\ VersionInv /\ ReadyInv /\ LoopInv /\ [Next]_vars
        => ReadyInv' /\ LoopInv'
  BY ReadyStep, LoopStep DEF IsolationInv
<1>6. TypeOK /\ TypeOK' /\ IsolationInv /\ KnownSpecs /\ VersionInv /\ ReadyInv /\ LoopInv
        /\ [Next]_vars => [R!Next]_(R!vars)
  BY StepRefines
<1> QED BY <1>1, <1>2, <1>3, <1>4, <1>5, <1>6, IsolationInit, InitRefines, TypeCorrect, PTL
        DEF Spec, ImplementsRollout, R!Spec

(* An object that has been declared Ready stays so until it is deleted:     *)
(* neither a failing reconciliation, nor a changed spec, nor a new commit   *)
(* takes Ready back (the copy of the conditions in Status().Update, which   *)
(* only successful reconciliations reach).                                  *)
ReadyStays ==
  [][\A p \in Proxies : DeclaredReady[p] /\ Wanted'[p] # None => DeclaredReady'[p]]_vars

LEMMA ReadyKept ==
  ASSUME R!Next, NEW p \in Proxies, DeclaredReady[p], Wanted'[p] # None
  PROVE  DeclaredReady'[p]
<1>1. DOMAIN DeclaredReady = Proxies /\ DOMAIN Wanted = Proxies
  BY DEF DeclaredReady, Wanted
<1> HIDE DEF DeclaredReady, Wanted
<1>2. ASSUME NEW x \in Passes, R!Pass(x)
      PROVE  DeclaredReady'[p]
  BY <1>1, <1>2 DEF R!Pass, R!Aim, R!Put, R!Declare, R!Abandon
<1>3. ASSUME NEW q \in Proxies, R!Withdraw(q)
      PROVE  DeclaredReady'[p]
  BY <1>1, <1>3 DEF R!Withdraw
<1>4. CASE \/ \E q \in Proxies : \E s \in ProxySpecs[q] : R!Want(q, s)
           \/ \E q \in Proxies : \E s \in Shown[q] : R!Begin(q, s)
           \/ R!Restart \/ R!Look
           \/ \E u \in Urls, ref \in Refs : R!Push(u, ref)
           \/ \E c \in Clusters : \/ \E l \in Labels \cup {Gone} : R!Relabel(c, l)
                                  \/ \E r \in Resources : R!Lose(c, r)
  BY <1>4 DEF R!Want, R!Begin, R!Restart, R!Look, R!Push, R!Relabel, R!Lose
<1> QED BY <1>2, <1>3, <1>4 DEF R!Next, R!Step

THEOREM ReadyStaysCorrect == DirectoriesApart /\ Spec => ReadyStays
<1> DEFINE Stays ==
      \A p \in Proxies : DeclaredReady[p] /\ Wanted'[p] # None => DeclaredReady'[p]
<1>1. [R!Next]_(R!vars) => [Stays]_vars
  <2>1. CASE R!Next
    BY <2>1, ReadyKept
  <2>2. CASE UNCHANGED R!vars
    <3>1. DeclaredReady' = DeclaredReady
      BY <2>2 DEF R!vars
    <3> HIDE DEF DeclaredReady, Wanted
    <3> QED BY <3>1
  <2> QED BY <2>1, <2>2
<1> QED BY <1>1, RolloutImplemented, PTL DEF ReadyStays, ImplementsRollout, R!Spec
=============================================================================
