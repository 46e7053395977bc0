---------------------- MODULE GeneratorReconcilerProofs ----------------------
(***************************************************************************)
(* Theorems about GeneratorReconciler, for every set of generators, pull    *)
(* requests, intervals and every budget of the environment: the types, that *)
(* a proxy never names another pull request's branch, and that no generator *)
(* sleeps past its poll.                                                    *)
(***************************************************************************)
EXTENDS GeneratorReconciler, TLAPS

LEMMA Constants ==
  /\ Horizon \in Nat /\ RetrySteps \in Nat /\ RetrySteps > 0
  /\ Requests \subseteq PullRequest
  /\ \A u \in Urls : PullRequests[u] \subseteq Requests
  /\ \A g \in Generators : GeneratorSpecs[g] \subseteq GeneratorSpec
  /\ InitOpen \in [Urls -> SUBSET Requests]
  /\ \A u \in Urls : InitOpen[u] \subseteq PullRequests[u]
  /\ SecretStates \subseteq Secrets /\ InitSecret \in SecretStates
<1>1. /\ Requests \subseteq PullRequest
      /\ \A u \in Urls : PullRequests[u] \subseteq Requests
  BY GeneratorReconcilerConstants DEF Requests
<1>2. InitOpen \in [Urls -> SUBSET Requests]
  BY <1>1, GeneratorReconcilerConstants
<1>3. \A g \in Generators : GeneratorSpecs[g] \subseteq GeneratorSpec
  BY GeneratorReconcilerConstants
<1>4. /\ \A u \in Urls : InitOpen[u] \subseteq PullRequests[u]
      /\ SecretStates \subseteq Secrets /\ InitSecret \in SecretStates
  BY GeneratorReconcilerConstants, Zenon
<1>5. Horizon \in Nat /\ RetrySteps \in Nat \ {0}
  BY GeneratorReconcilerConstants, Zenon
<1>6. RetrySteps \in Nat /\ RetrySteps > 0
  BY <1>5
<1> QED BY <1>1, <1>2, <1>3, <1>4, <1>5, <1>6, Zenon

LEMMA BudgetType == \A b \in Budgets : b \in [Kinds -> Nat]
BY GeneratorReconcilerConstants, Zenon

(* The value that stands for "none" is no object, no time, no request.      *)
LEMMA NoneIsNoValue ==
  /\ None \notin Generator /\ None \notin Proxy /\ None \notin Nat /\ None \notin Ages
  /\ None \notin Branches /\ None \notin Hands
<1>1. /\ None \notin Generator /\ None \notin Proxy /\ None \notin Nat
      /\ None \notin Branches /\ None \notin Hands
  BY GeneratorReconcilerConstants, Zenon
<1>2. Ages \subseteq Nat
  BY Constants DEF Ages
<1> QED BY <1>1, <1>2, Zenon

(* An environment action is only taken while the budget lasts.              *)
LEMMA SpendType ==
  ASSUME TypeOK, NEW kind \in Kinds, Spend(kind)
  PROVE  left' \in [Kinds -> Nat]
BY DEF Spend, TypeOK

(* What the work queue stores is a delay of at most Horizon ticks.          *)
LEMMA QueuedType ==
  ASSUME NEW q \in [Generators -> Ages \cup {None}], NEW g \in Generators, NEW after \in Ages
  PROVE  Queued(q, g, after) \in [Generators -> Ages \cup {None}]
BY DEF Queued, Earlier

LEMMA ZeroIsAge == 0 \in Ages /\ \A after \in 1..Horizon : after \in Ages
BY Constants DEF Ages

(* The time to the next poll is at most an interval.                        *)
LEMMA RemainingType ==
  ASSUME NEW gen \in Generator
  PROVE  Remaining(gen) \in Ages
<1>1. gen.lastPolled \in Ages \cup {None} /\ gen.spec \in GeneratorSpec
  BY DEF Generator
<1>2. gen.spec.interval \in Ages
  BY <1>1 DEF GeneratorSpec, Ages
<1> QED BY <1>1, <1>2, Constants, NoneIsNoValue DEF Ages, Remaining

LEMMA FetchType ==
  ASSUME NEW s \in Secrets, NEW ref \in BOOLEAN,
         ~FetchSecret([secretRef |-> ref], s).err
  PROVE  FetchSecret([secretRef |-> ref], s).val \in Credentials
BY DEF Secrets, FetchSecret, Failed, Got

(* A copy of a generator grows older, and stays one.                        *)
LEMMA AgedType ==
  ASSUME NEW objects \in [Generators -> Generator \cup {None}]
  PROVE  /\ Aged(objects) \in [Generators -> Generator \cup {None}]
         /\ \A g \in Generators : Aged(objects)[g] = None <=> objects[g] = None
<1>1. \A age \in Ages \cup {None} : Older(age) \in Ages \cup {None}
  BY Constants DEF Older, Ages
<1>2. ASSUME NEW gen \in Generator
      PROVE  [gen EXCEPT !.lastPolled = Older(@)] \in Generator
  BY <1>1 DEF Generator
<1> QED BY <1>2, NoneIsNoValue DEF Aged

LEMMA InitType == Init => TypeOK
<1> SUFFICES ASSUME Init PROVE TypeOK
  OBVIOUS
<1>1. \A g \in Generators : WorkerShape(g) /\ CacheShape(g)
  BY DEF Init, WorkerShape, CacheShape
<1>2. /\ 0 \in 0..RetrySteps /\ Horizon \in Ages /\ "idle" \in PCs
      /\ "empty" \in Credentials
  BY Constants DEF Ages, PCs, Credentials
<1> QED BY <1>1, <1>2, Constants, BudgetType DEF Init, TypeOK

(* The controller's own actions.                                            *)
LEMMA QueueType ==
  ASSUME TypeOK, NEW g \in Generators,
         GeneratorSync(g) \/ (\E n \in Numbers : ProxySync(g, n)) \/ Resync(g)
  PROVE  TypeOK'
<1>1. CASE GeneratorSync(g)
  BY <1>1, QueuedType, ZeroIsAge
  DEF TypeOK, WorkerShape, CacheShape, GeneratorSync, store, world, locals
<1>2. ASSUME NEW n \in Numbers, ProxySync(g, n)
      PROVE  TypeOK'
  <2>1. due' \in [Generators -> Ages \cup {None}]
    BY <1>2, QueuedType, ZeroIsAge DEF TypeOK, ProxySync
  <2>2. pcache' \in [Generators -> [Numbers -> Proxy \cup {None}]]
    BY <1>2 DEF TypeOK, ProxySync, store
  <2>3. ASSUME NEW h \in Generators, NEW m \in Numbers, <<h, m>> \notin pstale'
        PROVE  pcache'[h][m] = proxies'[h][m]
    <3>1. CASE h = g /\ m = n
      BY <1>2, <3>1 DEF TypeOK, ProxySync, store
    <3>2. CASE ~(h = g /\ m = n)
      <4>1. <<h, m>> \notin pstale
        BY <1>2, <2>3, <3>2 DEF ProxySync
      <4> QED BY <1>2, <3>2, <4>1 DEF TypeOK, CacheShape, ProxySync, store
    <3> QED BY <3>1, <3>2
  <2>4. \A h \in Generators : WorkerShape(h)' /\ CacheShape(h)'
    BY <1>2, <2>3 DEF TypeOK, WorkerShape, CacheShape, ProxySync, store, locals
  <2> QED BY <1>2, <2>1, <2>2, <2>4 DEF TypeOK, ProxySync, store, world, locals
<1>3. CASE Resync(g)
  BY <1>3, QueuedType, ZeroIsAge
  DEF TypeOK, WorkerShape, CacheShape, Resync, store, caches, world, locals
<1> QED BY <1>1, <1>2, <1>3

LEMMA TickType ==
  ASSUME TypeOK, Tick
  PROVE  TypeOK'
<1>1. /\ gens' \in [Generators -> Generator \cup {None}]
      /\ gcache' \in [Generators -> Generator \cup {None}]
      /\ obj' \in [Generators -> Generator \cup {None}]
      /\ \A g \in Generators : obj'[g] = None <=> obj[g] = None
  BY AgedType DEF TypeOK, Tick
<1>2. /\ due' \in [Generators -> Ages \cup {None}]
      /\ sinceList' \in [Generators -> Ages]
  <2>1. \A a \in Ages : a # 0 => a - 1 \in Ages
    BY Constants DEF Ages
  <2>2. \A a \in Ages : Older(a) \in Ages
    BY Constants, NoneIsNoValue DEF Older, Ages
  <2> QED BY <2>1, <2>2 DEF TypeOK, Tick
<1>3. \A g \in Generators : gcache[g] = gens[g] => gcache'[g] = gens'[g]
  BY DEF Tick, Aged
<1>4. \A g \in Generators : WorkerShape(g)' /\ CacheShape(g)'
  BY <1>1, <1>3 DEF TypeOK, WorkerShape, CacheShape, Tick
<1> QED BY <1>1, <1>2, <1>4 DEF TypeOK, Tick, world

(* The reconciliation's actions. A generator someone works on is typed.     *)
LEMMA BusyTypes ==
  ASSUME TypeOK, NEW g \in Generators, pc[g] # "idle"
  PROVE  /\ obj[g] \in Generator /\ obj[g].spec \in GeneratorSpec
         /\ Url(g) \in Urls /\ obj[g].uid \in Nat
<1>1. obj[g] \in Generator
  BY DEF TypeOK, WorkerShape
<1>2. obj[g].spec \in GeneratorSpec /\ obj[g].uid \in Nat
  BY <1>1 DEF Generator
<1> QED BY <1>1, <1>2 DEF GeneratorSpec, Url

(* Leaving Reconcile keeps what a worker holds in shape.                    *)
LEMMA LeaveType ==
  ASSUME TypeOK, NEW g \in Generators, Leave(g)
  PROVE  /\ pc' \in [Generators -> PCs] /\ obj' \in [Generators -> Generator \cup {None}]
         /\ cred' \in [Generators -> Credentials]
         /\ todo' \in [Generators -> SUBSET Requests]
         /\ hand' \in [Generators -> Hands \cup {None}]
         /\ attempts' \in [Generators -> 0..RetrySteps]
         /\ \A h \in Generators : WorkerShape(h)'
<1>1. /\ 0 \in 0..RetrySteps /\ "idle" \in PCs /\ "empty" \in Credentials
  BY Constants DEF PCs, Credentials
<1>2. /\ pc' \in [Generators -> PCs] /\ obj' \in [Generators -> Generator \cup {None}]
      /\ cred' \in [Generators -> Credentials]
      /\ todo' \in [Generators -> SUBSET Requests]
      /\ hand' \in [Generators -> Hands \cup {None}]
      /\ attempts' \in [Generators -> 0..RetrySteps]
  BY <1>1 DEF Leave, TypeOK
<1>3. \A h \in Generators : WorkerShape(h)'
  BY DEF Leave, TypeOK, WorkerShape
<1> QED BY <1>2, <1>3

LEMMA FailType ==
  ASSUME TypeOK, NEW g \in Generators, Fail(g)
  PROVE  Leave(g) /\ due' \in [Generators -> Ages \cup {None}]
BY QueuedType, ZeroIsAge DEF Fail, AddRateLimited, TypeOK

LEMMA AddAfterType ==
  ASSUME TypeOK, NEW g \in Generators, NEW after \in Ages, AddAfter(g, after)
  PROVE  due' \in [Generators -> Ages \cup {None}]
BY QueuedType DEF AddAfter, TypeOK

(* What a cache shows fits as long as neither it nor the store changes.     *)
LEMMA CacheStays ==
  ASSUME TypeOK, UNCHANGED <<gens, gcache, gstale, proxies, pcache, pstale>>
  PROVE  \A h \in Generators : CacheShape(h)'
BY DEF TypeOK, CacheShape

LEMMA TakeType ==
  ASSUME TypeOK, NEW g \in Generators, Take(g)
  PROVE  TypeOK'
<1>1. CASE Get(g)
  <2>1. gcache[g] \in Generator
    BY <1>1 DEF Get, TypeOK
  <2>2. "wait" \in PCs /\ "secret" \in PCs
    BY DEF PCs
  <2>3. \A h \in Generators : WorkerShape(h)' /\ CacheShape(h)'
    <3>1. \A h \in Generators : WorkerShape(h)'
      BY <1>1, <2>1, NoneIsNoValue DEF TypeOK, WorkerShape, Get, Goto
    <3> QED BY <1>1, <3>1, CacheStays DEF Get, store, caches
  <2> QED BY <1>1, <2>1, <2>2, <2>3 DEF TypeOK, Get, Goto, store, caches, world
<1>2. CASE GetNotFound(g)
  <2>1. due' \in [Generators -> Ages \cup {None}]
    BY <1>2, ZeroIsAge DEF GetNotFound, TypeOK
  <2> QED BY <1>2, <2>1
          DEF TypeOK, WorkerShape, CacheShape, GetNotFound, store, caches, world, locals
<1> QED BY <1>1, <1>2 DEF Take

LEMMA PrepareType ==
  ASSUME TypeOK, NEW g \in Generators,
         Wait(g) \/ FetchSecretRef(g) \/ CheckRepository(g) \/ ListPullRequests(g)
  PROVE  TypeOK'
<1> USE CacheStays
<1>1. CASE Wait(g)
  <2>1. Remaining(obj[g]) \in Ages
    BY <1>1, BusyTypes, RemainingType DEF Wait
  <2>2. due' \in [Generators -> Ages \cup {None}]
    BY <1>1, <2>1, AddAfterType DEF Wait
  <2> QED BY <1>1, <2>2, LeaveType DEF TypeOK, Wait, store, caches, world
<1>2. CASE FetchSecretRef(g)
  <2>1. CASE Fail(g)
    BY <1>2, <2>1, FailType, LeaveType DEF TypeOK, FetchSecretRef, store, caches, world
  <2>2. CASE ~Fail(g)
    <3>1. obj[g].spec.secretRef \in BOOLEAN /\ secret \in Secrets
      BY <1>2, BusyTypes, Constants DEF FetchSecretRef, GeneratorSpec, TypeOK
    <3>2. /\ cred' \in [Generators -> Credentials]
          /\ Goto(g, "access") /\ UNCHANGED <<obj, todo, hand, attempts, due>>
      BY <1>2, <2>2, <3>1, FetchType DEF FetchSecretRef, TypeOK
    <3>3. pc' \in [Generators -> PCs] /\ \A h \in Generators : WorkerShape(h)'
      BY <1>2, <3>2 DEF FetchSecretRef, TypeOK, WorkerShape, Goto, PCs
    <3> QED BY <1>2, <3>2, <3>3 DEF TypeOK, FetchSecretRef, store, caches, world
  <2> QED BY <2>1, <2>2
<1>3. CASE CheckRepository(g)
  <2>1. left' \in [Kinds -> Nat]
    BY <1>3, SpendType DEF CheckRepository, TypeOK, Kinds
  <2>2. CASE Leave(g) /\ (AddRateLimited(g) \/ UNCHANGED due)
    <3>1. due' \in [Generators -> Ages \cup {None}]
      BY <2>2, FailType DEF Fail, TypeOK
    <3> QED BY <1>3, <2>1, <2>2, <3>1, LeaveType
            DEF TypeOK, CheckRepository, store, caches, world
  <2>3. CASE Goto(g, "list") /\ UNCHANGED <<obj, cred, todo, hand, attempts, due>>
    <3>1. pc' \in [Generators -> PCs] /\ \A h \in Generators : WorkerShape(h)'
      BY <1>3, <2>3 DEF CheckRepository, TypeOK, WorkerShape, Goto, PCs
    <3> QED BY <1>3, <2>1, <2>3, <3>1 DEF TypeOK, CheckRepository, store, caches, world
  <2> QED BY <1>3, <2>2, <2>3 DEF CheckRepository
<1>4. CASE ListPullRequests(g)
  <2>1. CASE Fail(g) /\ UNCHANGED sinceList /\ (Spend("fault") \/ UNCHANGED left)
    <3>1. left' \in [Kinds -> Nat]
      BY <2>1, SpendType DEF TypeOK, Kinds
    <3> QED BY <1>4, <2>1, <3>1, FailType, LeaveType
            DEF TypeOK, ListPullRequests, store, caches, world
  <2>2. CASE /\ \E page \in FirstPages(open[Url(g)]) : todo' = [todo EXCEPT ![g] = page]
             /\ Goto(g, "pr")
             /\ sinceList' = [sinceList EXCEPT ![g] = 0]
             /\ UNCHANGED <<obj, cred, hand, attempts, due, left>>
    <3>1. PICK page \in FirstPages(open[Url(g)]) : todo' = [todo EXCEPT ![g] = page]
      BY <2>2
    <3>2. page \subseteq open[Url(g)]
      BY <3>1 DEF FirstPages
    <3>3. todo' \in [Generators -> SUBSET Requests] /\ sinceList' \in [Generators -> Ages]
      BY <1>4, <2>2, <3>1, <3>2, BusyTypes, ZeroIsAge DEF ListPullRequests, TypeOK
    <3>4. pc' \in [Generators -> PCs] /\ \A h \in Generators : WorkerShape(h)'
      BY <1>4, <2>2 DEF ListPullRequests, TypeOK, WorkerShape, Goto, PCs
    <3> QED BY <1>4, <2>2, <3>3, <3>4 DEF TypeOK, ListPullRequests, store, caches, world
  <2> QED BY <1>4, <2>1, <2>2 DEF ListPullRequests
<1> QED BY <1>1, <1>2, <1>3, <1>4

(* A write of a proxy leaves the cache behind, or changes nothing.          *)
LEMMA WriteProxyType ==
  ASSUME TypeOK, NEW g \in Generators, NEW n \in Numbers, NEW new \in Proxy \cup {None},
         WriteProxy(g, n, new), UNCHANGED <<gens, gcache, gstale, pcache>>
  PROVE  /\ proxies' \in [Generators -> [Numbers -> Proxy \cup {None}]]
         /\ pstale' \subseteq Generators \X Numbers
         /\ \A h \in Generators : CacheShape(h)'
<1>1. proxies' \in [Generators -> [Numbers -> Proxy \cup {None}]]
  BY DEF TypeOK, WriteProxy
<1>2. pstale' \subseteq Generators \X Numbers
  BY DEF TypeOK, WriteProxy
<1>3. ASSUME NEW h \in Generators, NEW m \in Numbers, <<h, m>> \notin pstale'
      PROVE  pcache'[h][m] = proxies'[h][m]
  <2>1. <<h, m>> \notin pstale
    BY <1>3 DEF WriteProxy
  <2>2. proxies'[h][m] = proxies[h][m]
    BY <1>3 DEF TypeOK, WriteProxy
  <2> QED BY <2>1, <2>2 DEF TypeOK, CacheShape
<1> QED BY <1>1, <1>2, <1>3 DEF TypeOK, CacheShape

(* The pull request in hand, while it is rendered and written.              *)
LEMMA HandTypes ==
  ASSUME TypeOK, NEW g \in Generators, hand[g] # None
  PROVE  /\ hand[g] \in Hands /\ hand[g].pr \in Requests
         /\ hand[g].pr.number \in Numbers /\ hand[g].spec \in Rendering
         /\ \A owner \in Nat : Owned(hand[g].spec, owner) \in Proxy
         /\ hand[g].existing # None => hand[g].existing.owner \in Nat
<1>1. hand[g] \in Hands
  BY DEF TypeOK
<1>2. hand[g].pr \in PullRequest /\ hand[g].pr \in Requests
  BY <1>1, Constants DEF Hands
<1>3. hand[g].pr.number \in Numbers
  BY <1>2 DEF PullRequest
<1>4. hand[g].spec \in Rendering /\ hand[g].existing \in Proxy \cup {None}
  BY <1>1 DEF Hands
<1>5. \A owner \in Nat : Owned(hand[g].spec, owner) \in Proxy
  BY <1>4 DEF Owned, Rendering, Proxy
<1> QED BY <1>1, <1>2, <1>3, <1>4, <1>5 DEF Proxy

(* Rest drops exactly the pull request in hand.                             *)
LEMMA ProcessedType ==
  ASSUME TypeOK, NEW g \in Generators, NEW err \in BOOLEAN, Processed(g, err),
         pc[g] # "idle", obj' = obj
  PROVE  /\ pc' \in [Generators -> PCs]
         /\ todo' \in [Generators -> SUBSET Requests]
         /\ hand' \in [Generators -> Hands \cup {None}]
         /\ \A h \in Generators : WorkerShape(h)'
<1>1. pc' \in [Generators -> PCs] /\ todo' \in [Generators -> SUBSET Requests]
  BY DEF TypeOK, Processed, Rest, Goto, PCs
<1>2. hand' \in [Generators -> Hands \cup {None}]
  BY DEF TypeOK, Processed
<1>3. \A h \in Generators : WorkerShape(h)'
  BY DEF TypeOK, WorkerShape, Processed, Goto
<1> QED BY <1>1, <1>2, <1>3

(* What a pull request's proxy is to say is made of its branch, the source  *)
(* and the template.                                                        *)
LEMMA RenderedType ==
  ASSUME NEW gen \in Generator, NEW pr \in Requests
  PROVE  /\ Rendered(gen, pr) \in Rendering /\ Reference(gen, pr) \in Branches
         /\ pr.number \in Numbers
<1>1. pr \in PullRequest
  BY Constants
<1>2. pr.branch \in Branches /\ pr.number \in Numbers
  BY <1>1 DEF PullRequest
<1>3. gen.spec.url \in Urls /\ gen.spec.template \in Templates
  BY DEF Generator, GeneratorSpec
<1> QED BY <1>2, <1>3 DEF Rendered, Reference, Rendering

LEMMA RenderType ==
  ASSUME TypeOK, NEW g \in Generators, Skip(g) \/ RenderAndGet(g)
  PROVE  TypeOK'
<1> USE CacheStays
<1>1. CASE Skip(g)
  <2>1. pc[g] = "pr" /\ todo' \in [Generators -> SUBSET Requests]
    BY <1>1 DEF Skip, TypeOK
  <2>2. \A h \in Generators : WorkerShape(h)'
    BY <1>1 DEF TypeOK, WorkerShape, Skip
  <2> QED BY <1>1, <2>1, <2>2 DEF TypeOK, Skip, store, caches, world
<1>2. CASE RenderAndGet(g)
  <2>1. PICK pr \in todo[g] :
          /\ pc[g] = "pr"
          /\ hand' = [hand EXCEPT ![g] =
                [pr |-> pr, spec |-> Rendered(obj[g], pr), existing |-> pcache[g][pr.number],
                 current |-> <<g, pr.number>> \notin pstale]]
          /\ obj' = IF obj[g].spec.tmplGit
                    THEN [obj EXCEPT ![g].spec.tmplRef = Reference(obj[g], pr)] ELSE obj
          /\ Goto(g, IF pcache[g][pr.number] = None THEN "create" ELSE "update")
          /\ UNCHANGED <<store, caches, world, due, cred, todo, attempts, sinceList, left>>
    BY <1>2 DEF RenderAndGet
  <2>2. pr \in Requests
    BY <2>1 DEF TypeOK
  <2>3. obj[g] \in Generator /\ obj[g].spec \in GeneratorSpec
    BY <2>1, BusyTypes
  <2>4. /\ Rendered(obj[g], pr) \in Rendering /\ Reference(obj[g], pr) \in Branches
        /\ pcache[g][pr.number] \in Proxy \cup {None}
    BY <2>2, <2>3, RenderedType DEF TypeOK
  <2>5. /\ hand' \in [Generators -> Hands \cup {None}]
        /\ hand'[g] \in Hands /\ hand'[g].pr = pr
        /\ hand'[g].existing = pcache[g][pr.number]
        /\ \A h \in Generators \ {g} : hand'[h] = hand[h]
    BY <2>1, <2>2, <2>4 DEF TypeOK, Hands
  <2>6. obj' \in [Generators -> Generator \cup {None}] /\ obj'[g] \in Generator
        /\ \A h \in Generators \ {g} : obj'[h] = obj[h]
    <3>1. [obj[g] EXCEPT !.spec.tmplRef = Reference(obj[g], pr)] \in Generator
      BY <2>3, <2>4 DEF Generator, GeneratorSpec
    <3> QED BY <2>1, <2>3, <3>1 DEF TypeOK
  <2>7. pc' \in [Generators -> PCs]
    BY <2>1 DEF TypeOK, Goto, PCs
  <2>8. \A h \in Generators : WorkerShape(h)'
    <3>1. ASSUME NEW h \in Generators, h # g
          PROVE  WorkerShape(h)'
      BY <2>1, <2>5, <2>6, <3>1 DEF TypeOK, WorkerShape, Goto
    <3>2. pc'[g] = IF pcache[g][pr.number] = None THEN "create" ELSE "update"
      BY <2>1 DEF TypeOK, Goto
    <3>3. hand'[g] # None /\ obj'[g] # None /\ hand'[g].pr \in todo'[g]
      BY <2>1, <2>5, <2>6, NoneIsNoValue
    <3>4. WorkerShape(g)'
      BY <2>5, <3>2, <3>3 DEF WorkerShape
    <3> QED BY <3>1, <3>4
  <2> QED BY <2>1, <2>5, <2>6, <2>7, <2>8 DEF TypeOK, store, caches, world
<1> QED BY <1>1, <1>2

LEMMA WriteType ==
  ASSUME TypeOK, NEW g \in Generators, Create(g) \/ Update(g)
  PROVE  TypeOK'
<1>1. hand[g] # None /\ pc[g] # "idle" /\ (pc[g] = "update" => hand[g].existing # None)
  BY DEF Create, Update, TypeOK, WorkerShape
<1>2. left' \in [Kinds -> Nat] /\ \E err \in BOOLEAN : Processed(g, err)
  BY SpendType DEF Create, Update, TypeOK, Kinds
<1>3. /\ pc' \in [Generators -> PCs]
      /\ todo' \in [Generators -> SUBSET Requests]
      /\ hand' \in [Generators -> Hands \cup {None}]
      /\ \A h \in Generators : WorkerShape(h)'
  BY <1>1, <1>2, ProcessedType DEF Create, Update
<1>4. /\ proxies' \in [Generators -> [Numbers -> Proxy \cup {None}]]
      /\ pstale' \subseteq Generators \X Numbers
      /\ \A h \in Generators : CacheShape(h)'
  <2>1. CASE UNCHANGED <<proxies, pstale>>
    <3>1. UNCHANGED <<gens, gcache, gstale, proxies, pcache, pstale>>
      BY <2>1 DEF Create, Update
    <3> QED BY <3>1, CacheStays DEF TypeOK
  <2>2. CASE \E owner \in Nat : WriteProxy(g, hand[g].pr.number, Owned(hand[g].spec, owner))
    BY <1>1, <2>2, HandTypes, WriteProxyType DEF Create, Update
  <2> QED BY <1>1, <2>1, <2>2, BusyTypes, HandTypes DEF Create, Update
<1> QED BY <1>2, <1>3, <1>4 DEF Create, Update, TypeOK, world

(* A write of a generator's object, the status or the spec.                 *)
LEMMA WriteGeneratorType ==
  ASSUME TypeOK, NEW g \in Generators, NEW new \in Generator \cup {None},
         WriteGenerator(g, new), UNCHANGED <<proxies, gcache, pcache, pstale>>
  PROVE  /\ gens' \in [Generators -> Generator \cup {None}]
         /\ gstale' \subseteq Generators
         /\ \A h \in Generators : CacheShape(h)'
BY DEF TypeOK, WriteGenerator, CacheShape

LEMMA RecordType ==
  ASSUME TypeOK, NEW g \in Generators,
         RecordPoll(g) \/ RecordConflict(g) \/ RecordFails(g) \/ Finish(g)
  PROVE  TypeOK'
<1>1. CASE RecordPoll(g)
  <2>1. [gens[g] EXCEPT !.lastPolled = 0] \in Generator
    <3>1. gens[g] \in Generator
      BY <1>1 DEF RecordPoll, TypeOK, CacheShape
    <3> QED BY <3>1, ZeroIsAge DEF Generator
  <2>2. /\ gens' \in [Generators -> Generator \cup {None}]
        /\ gstale' \subseteq Generators
        /\ \A h \in Generators : CacheShape(h)'
    BY <1>1, <2>1, WriteGeneratorType DEF RecordPoll
  <2>3. CASE Goto(g, "done") /\ UNCHANGED <<obj, cred, todo, hand, attempts, due, left>>
    <3>1. pc' \in [Generators -> PCs] /\ \A h \in Generators : WorkerShape(h)'
      BY <1>1, <2>3 DEF RecordPoll, Recording, TypeOK, WorkerShape, Goto, PCs
    <3> QED BY <1>1, <2>2, <2>3, <3>1 DEF TypeOK, RecordPoll, world
  <2>4. CASE Fail(g) /\ Spend("fault")
    <3>1. left' \in [Kinds -> Nat]
      BY <2>4, SpendType DEF Kinds
    <3> QED BY <1>1, <2>2, <2>4, <3>1, FailType, LeaveType DEF TypeOK, RecordPoll, world
  <2> QED BY <1>1, <2>3, <2>4 DEF RecordPoll
<1>2. CASE RecordConflict(g)
  <2>1. CASE Fail(g)
    BY <1>2, <2>1, FailType, LeaveType, CacheStays
    DEF TypeOK, RecordConflict, store, caches, world
  <2>2. CASE /\ attempts[g] + 1 < RetrySteps
             /\ attempts' = [attempts EXCEPT ![g] = @ + 1]
             /\ UNCHANGED <<pc, obj, cred, todo, hand, due>>
    <3>1. attempts' \in [Generators -> 0..RetrySteps]
      BY <2>2, Constants DEF TypeOK
    <3>2. \A h \in Generators : WorkerShape(h)'
      BY <1>2, <2>2 DEF TypeOK, WorkerShape
    <3> QED BY <1>2, <2>2, <3>1, <3>2, CacheStays
            DEF TypeOK, RecordConflict, store, caches, world
  <2> QED BY <1>2, <2>1, <2>2 DEF RecordConflict
<1>3. CASE RecordFails(g)
  <2>1. left' \in [Kinds -> Nat]
    BY <1>3, SpendType DEF RecordFails, TypeOK, Kinds
  <2> QED BY <1>3, <2>1, FailType, LeaveType, CacheStays
          DEF TypeOK, RecordFails, store, caches, world
<1>4. CASE Finish(g)
  <2>1. obj[g].spec.interval \in Ages
    BY <1>4, BusyTypes DEF Finish, GeneratorSpec, Ages
  <2>2. due' \in [Generators -> Ages \cup {None}]
    BY <1>4, <2>1, AddAfterType DEF Finish
  <2> QED BY <1>4, <2>2, LeaveType, CacheStays DEF TypeOK, Finish, store, caches, world
<1> QED BY <1>1, <1>2, <1>3, <1>4

LEMMA WorkerStepType ==
  ASSUME TypeOK, NEW g \in Generators, WorkerStep(g)
  PROVE  TypeOK'
BY PrepareType, RenderType, WriteType, RecordType DEF WorkerStep

(* The environment's actions.                                               *)
LEMMA CrashType ==
  ASSUME TypeOK, Crash
  PROVE  TypeOK'
<1>1. left' \in [Kinds -> Nat]
  BY SpendType DEF Crash, Kinds
<1>2. /\ 0 \in 0..RetrySteps /\ "idle" \in PCs /\ "empty" \in Credentials
  BY Constants DEF PCs, Credentials
<1>3. \A h \in Generators : WorkerShape(h)'
  BY DEF Crash, WorkerShape
<1>4. pstale' \subseteq Generators \X Numbers
  BY DEF Crash
<1>5. \A h \in Generators : CacheShape(h)'
  <2>1. ASSUME NEW h \in Generators, NEW n \in Numbers, <<h, n>> \notin pstale'
        PROVE  pcache'[h][n] = proxies'[h][n]
    BY <2>1 DEF Crash, store
  <2> QED BY <2>1 DEF Crash, CacheShape, store
<1> QED BY <1>1, <1>2, <1>3, <1>4, <1>5 DEF Crash, TypeOK, store, world

LEMMA EditType ==
  ASSUME TypeOK, NEW g \in Generators,
         \/ \E s \in GeneratorSpecs[g] : CreateGenerator(g, s) \/ UpdateGenerator(g, s)
         \/ DeleteGenerator(g)
  PROVE  TypeOK'
<1>1. left' \in [Kinds -> Nat]
  BY SpendType DEF CreateGenerator, UpdateGenerator, DeleteGenerator, Kinds
<1>2. nextUid' \in [Generators -> Nat]
  <2>1. nextUid' = nextUid \/ nextUid' = [nextUid EXCEPT ![g] = nextUid[g] + 1]
    BY DEF CreateGenerator, UpdateGenerator, DeleteGenerator
  <2>2. nextUid \in [Generators -> Nat]
    BY DEF TypeOK
  <2> QED BY <2>1, <2>2
<1>3. /\ gens' \in [Generators -> Generator \cup {None}]
      /\ gstale' \subseteq Generators
      /\ \A h \in Generators : CacheShape(h)'
  <2>1. ASSUME NEW s \in GeneratorSpecs[g], CreateGenerator(g, s)
        PROVE  [spec |-> s, uid |-> nextUid[g], lastPolled |-> None] \in Generator
    BY <2>1, Constants DEF TypeOK, Generator
  <2>2. ASSUME NEW s \in GeneratorSpecs[g], UpdateGenerator(g, s)
        PROVE  [gens[g] EXCEPT !.spec = s] \in Generator
    BY <2>2, Constants DEF UpdateGenerator, TypeOK, Generator
  <2> QED BY <2>1, <2>2, WriteGeneratorType
          DEF CreateGenerator, UpdateGenerator, DeleteGenerator
<1>4. \A h \in Generators : WorkerShape(h)'
  BY DEF CreateGenerator, UpdateGenerator, DeleteGenerator, TypeOK, WorkerShape, locals
<1>5. UNCHANGED <<proxies, gcache, pcache, pstale, open, secret, due, pc, obj, cred, todo, hand,
                  attempts, sinceList>>
  BY DEF CreateGenerator, UpdateGenerator, DeleteGenerator, world, locals
<1> QED BY <1>1, <1>2, <1>3, <1>4, <1>5 DEF TypeOK

(* A copy in hand that is outdated is still the same copy.                  *)
LEMMA OutdateType ==
  ASSUME TypeOK, NEW g \in Generators, NEW n \in Numbers, Outdate(g, n),
         UNCHANGED <<pc, obj, todo>>
  PROVE  /\ hand' \in [Generators -> Hands \cup {None}]
         /\ \A h \in Generators : WorkerShape(h)'
<1>1. ASSUME NEW x \in Hands
      PROVE  /\ [x EXCEPT !.current = FALSE] \in Hands
             /\ [x EXCEPT !.current = FALSE].pr = x.pr
             /\ [x EXCEPT !.current = FALSE].existing = x.existing
  BY DEF Hands
<1>2. \A h \in Generators :
        /\ hand'[h] = hand[h] \/ (hand[h] \in Hands /\ hand'[h] = [hand[h] EXCEPT !.current = FALSE])
        /\ hand[h] \in Hands \cup {None}
  BY DEF Outdate, TypeOK
<1>3. hand' \in [Generators -> Hands \cup {None}]
  BY <1>1 DEF Outdate, TypeOK
<1>4. \A h \in Generators : WorkerShape(h)'
  <2> TAKE h \in Generators
  <2>1. CASE hand'[h] = hand[h]
    BY <2>1 DEF TypeOK, WorkerShape
  <2>2. CASE hand[h] \in Hands /\ hand'[h] = [hand[h] EXCEPT !.current = FALSE]
    <3>1. /\ hand[h] # None /\ hand'[h] # None
          /\ hand'[h].pr = hand[h].pr /\ hand'[h].existing = hand[h].existing
      BY <1>1, <2>2, NoneIsNoValue
    <3> QED BY <3>1 DEF TypeOK, WorkerShape
  <2> QED BY <1>2, <2>1, <2>2
<1> QED BY <1>3, <1>4

LEMMA OthersType ==
  ASSUME TypeOK, NEW g \in Generators, NEW n \in Numbers,
         GarbageCollect(g, n) \/ DeleteProxy(g, n) \/ StatusWritten(g, n)
  PROVE  TypeOK'
<1>1. left' \in [Kinds -> Nat]
  BY SpendType DEF GarbageCollect, DeleteProxy, StatusWritten, TypeOK, Kinds
<1>2. /\ hand' \in [Generators -> Hands \cup {None}]
      /\ \A h \in Generators : WorkerShape(h)'
  BY OutdateType DEF GarbageCollect, DeleteProxy, RemoveProxy, StatusWritten
<1>3. CASE RemoveProxy(g, n)
  <2>1. /\ proxies' \in [Generators -> [Numbers -> Proxy \cup {None}]]
        /\ pstale' \subseteq Generators \X Numbers
        /\ \A h \in Generators : CacheShape(h)'
    BY <1>3, WriteProxyType DEF RemoveProxy
  <2> QED BY <1>1, <1>2, <1>3, <2>1 DEF RemoveProxy, TypeOK, world
<1>4. CASE StatusWritten(g, n)
  BY <1>1, <1>2, <1>4 DEF StatusWritten, TypeOK, CacheShape, store, world
<1> QED BY <1>3, <1>4 DEF GarbageCollect, DeleteProxy

LEMMA WorldType ==
  ASSUME TypeOK,
         \/ \E u \in Urls : \E pr \in PullRequests[u] : OpenPullRequest(u, pr) \/ ClosePullRequest(u, pr)
         \/ \E s \in SecretStates : SetSecret(s)
  PROVE  TypeOK'
<1>1. left' \in [Kinds -> Nat]
  BY SpendType DEF OpenPullRequest, ClosePullRequest, SetSecret, Kinds
<1>2. open' \in [Urls -> SUBSET Requests] /\ secret' \in SecretStates
  <2>1. ASSUME NEW u \in Urls, NEW pr \in PullRequests[u],
               OpenPullRequest(u, pr) \/ ClosePullRequest(u, pr)
        PROVE  open' \in [Urls -> SUBSET Requests] /\ secret' \in SecretStates
    <3>1. pr \in Requests
      BY Constants
    <3> QED BY <2>1, <3>1 DEF OpenPullRequest, ClosePullRequest, TypeOK
  <2> QED BY <2>1 DEF SetSecret, TypeOK
<1> QED BY <1>1, <1>2
        DEF OpenPullRequest, ClosePullRequest, SetSecret, TypeOK, WorkerShape, CacheShape,
            store, caches, locals

LEMMA StepType == TypeOK /\ [Next]_vars => TypeOK'
<1> SUFFICES ASSUME TypeOK, [Next]_vars PROVE TypeOK'
  OBVIOUS
<1>1. CASE Manager
  BY <1>1, QueueType, TakeType, WorkerStepType DEF Manager
<1>2. CASE Environment
  BY <1>2, EditType, OthersType, WorldType, CrashType DEF Environment
<1>3. CASE Tick
  BY <1>3, TickType
<1>4. CASE UNCHANGED vars
  BY <1>4 DEF vars, TypeOK, WorkerShape, CacheShape
<1> QED BY <1>1, <1>2, <1>3, <1>4 DEF Next

(* Whatever polls, edits, conflicts and crashes come in whatever order, a   *)
(* reconciliation has what it needs at each point of Reconcile, and a copy  *)
(* that is not marked stale is the stored object.                           *)
THEOREM GeneratorTypeCorrect == Spec => []TypeOK
BY InitType, StepType, PTL DEF Spec

-----------------------------------------------------------------------------

(* A pull request of the repository has this number and this branch.        *)
BranchOf(url, n, ref) ==
  \E pr \in PullRequests[url] : pr.number = n /\ pr.branch = ref

(* What a worker still has to do is pull requests of its generator's        *)
(* repository; without a generator there is nothing to do.                  *)
TodoInv(g) ==
  /\ obj[g] = None => todo[g] = {}
  /\ obj[g] # None => todo[g] \subseteq PullRequests[Url(g)]

(* What is rendered for the pull request in hand says its branch.           *)
HandInv(g) ==
  hand[g] # None =>
    /\ hand[g].pr \in PullRequests[hand[g].spec.url]
    /\ hand[g].spec.ref = hand[g].pr.branch

BranchInv ==
  /\ \A u \in Urls : open[u] \subseteq PullRequests[u]
  /\ \A g \in Generators : TodoInv(g) /\ HandInv(g)
  /\ OwnBranch

LEMMA InitBranch == Init => BranchInv
BY Constants DEF Init, BranchInv, TodoInv, HandInv, OwnBranch

(* Nothing the invariant speaks of changes, or a worker leaves.             *)
LEMMA LeaveBranch ==
  ASSUME TypeOK, BranchInv, NEW g \in Generators, Leave(g), UNCHANGED <<proxies, open>>
  PROVE  BranchInv'
<1>1. \A h \in Generators : TodoInv(h)' /\ HandInv(h)'
  BY DEF TypeOK, BranchInv, TodoInv, HandInv, Leave, Url
<1> QED BY <1>1 DEF BranchInv, OwnBranch

LEMMA StayBranch ==
  ASSUME TypeOK, BranchInv, UNCHANGED <<proxies, open, obj, todo, hand>>
  PROVE  BranchInv'
BY DEF BranchInv, TodoInv, HandInv, OwnBranch, Url

LEMMA TickBranch ==
  ASSUME TypeOK, BranchInv, Tick
  PROVE  BranchInv'
<1>1. ASSUME NEW g \in Generators
      PROVE  /\ obj'[g] = None <=> obj[g] = None
             /\ obj[g] # None => Url(g)' = Url(g)
  <2>1. obj'[g] = None <=> obj[g] = None
    BY AgedType DEF TypeOK, Tick
  <2>2. CASE obj[g] # None
    <3>1. obj[g] \in Generator /\ obj'[g] = [obj[g] EXCEPT !.lastPolled = Older(@)]
      BY <2>2 DEF TypeOK, Tick, Aged
    <3> QED BY <2>1, <3>1 DEF Url, Generator
  <2> QED BY <2>1, <2>2
<1>2. \A g \in Generators : TodoInv(g)' /\ HandInv(g)'
  BY <1>1 DEF BranchInv, TodoInv, HandInv, Tick
<1> QED BY <1>2 DEF BranchInv, OwnBranch, Tick, world

(* The reconciliation up to the list of pull requests.                      *)
LEMMA PrepareBranch ==
  ASSUME TypeOK, BranchInv, NEW g \in Generators,
         Take(g) \/ Wait(g) \/ FetchSecretRef(g) \/ CheckRepository(g) \/ ListPullRequests(g)
  PROVE  BranchInv'
<1>1. UNCHANGED <<proxies, open>>
  BY DEF Take, Get, GetNotFound, Wait, FetchSecretRef, CheckRepository, ListPullRequests,
         store, world
<1>2. CASE Leave(g)
  BY <1>1, <1>2, LeaveBranch
<1>3. CASE UNCHANGED <<obj, todo, hand>>
  BY <1>1, <1>3, StayBranch
<1>4. CASE Get(g)
  <2>1. obj[g] = None /\ todo[g] = {}
    BY <1>4 DEF Get, TypeOK, WorkerShape, BranchInv, TodoInv
  <2>2. \A h \in Generators : TodoInv(h)' /\ HandInv(h)'
    BY <1>4, <2>1 DEF Get, TypeOK, BranchInv, TodoInv, HandInv, Url
  <2> QED BY <1>1, <2>2 DEF BranchInv, OwnBranch
<1>5. CASE /\ ListPullRequests(g) /\ UNCHANGED <<obj, hand>>
           /\ \E page \in FirstPages(open[Url(g)]) : todo' = [todo EXCEPT ![g] = page]
  <2>1. obj[g] # None /\ Url(g) \in Urls
    BY <1>5, BusyTypes, NoneIsNoValue DEF ListPullRequests
  <2> PICK page \in SUBSET open[Url(g)] : todo' = [todo EXCEPT ![g] = page]
    BY <1>5 DEF FirstPages
  <2>2. \A h \in Generators : TodoInv(h)' /\ HandInv(h)'
    BY <1>5, <2>1 DEF TypeOK, BranchInv, TodoInv, HandInv, Url
  <2> QED BY <1>1, <2>2 DEF BranchInv, OwnBranch
<1> QED BY <1>2, <1>3, <1>4, <1>5
        DEF Take, GetNotFound, Wait, FetchSecretRef, CheckRepository, ListPullRequests, Fail, locals

LEMMA RenderBranch ==
  ASSUME TypeOK, BranchInv, NEW g \in Generators, Skip(g) \/ RenderAndGet(g)
  PROVE  BranchInv'
<1>1. CASE Skip(g)
  <2>1. \A h \in Generators : TodoInv(h)' /\ HandInv(h)'
    BY <1>1 DEF Skip, TypeOK, BranchInv, TodoInv, HandInv, Url
  <2> QED BY <1>1, <2>1 DEF BranchInv, OwnBranch, Skip, store, world
<1>2. CASE RenderAndGet(g)
  <2>1. PICK pr \in todo[g] :
          /\ pc[g] = "pr"
          /\ hand' = [hand EXCEPT ![g] =
                [pr |-> pr, spec |-> Rendered(obj[g], pr), existing |-> pcache[g][pr.number],
                 current |-> <<g, pr.number>> \notin pstale]]
          /\ obj' = IF obj[g].spec.tmplGit
                    THEN [obj EXCEPT ![g].spec.tmplRef = Reference(obj[g], pr)] ELSE obj
    BY <1>2 DEF RenderAndGet
  <2>2. UNCHANGED <<proxies, open, todo>>
    BY <1>2 DEF RenderAndGet, store, world
  <2>3. obj[g] \in Generator /\ obj[g] # None
    BY <2>1, BusyTypes, NoneIsNoValue
  <2>4. [obj[g] EXCEPT !.spec.tmplRef = Reference(obj[g], pr)] \in Generator
    <3>1. pr \in Requests
      BY <2>1 DEF TypeOK
    <3> QED BY <2>3, <3>1, RenderedType DEF Generator, GeneratorSpec
  <2>5. /\ obj'[g] # None /\ obj'[g].spec.url = obj[g].spec.url
        /\ \A h \in Generators \ {g} : obj'[h] = obj[h]
    BY <2>1, <2>3, <2>4, NoneIsNoValue DEF TypeOK, Generator, GeneratorSpec
  <2>6. /\ hand'[g].pr = pr /\ hand'[g].spec.url = Url(g) /\ hand'[g].spec.ref = pr.branch
        /\ \A h \in Generators \ {g} : hand'[h] = hand[h]
    BY <2>1 DEF TypeOK, Rendered, Reference, Url
  <2>7. pr \in PullRequests[Url(g)]
    BY <2>1, <2>3 DEF BranchInv, TodoInv
  <2>8. \A h \in Generators : TodoInv(h)' /\ HandInv(h)'
    BY <2>2, <2>3, <2>5, <2>6, <2>7 DEF BranchInv, TodoInv, HandInv, Url
  <2> QED BY <2>2, <2>8 DEF BranchInv, OwnBranch
<1> QED BY <1>1, <1>2

(* Only what is in hand is written, under the number of its pull request.   *)
LEMMA WriteBranch ==
  ASSUME TypeOK, BranchInv, NEW g \in Generators, Create(g) \/ Update(g)
  PROVE  BranchInv'
<1>1. hand[g] # None /\ hand[g].pr.number \in Numbers
  BY HandTypes DEF Create, Update, TypeOK, WorkerShape
<1>2. /\ todo' = [todo EXCEPT ![g] = todo[g] \ {hand[g].pr}]
      /\ hand' = [hand EXCEPT ![g] = None]
      /\ UNCHANGED <<obj, open>>
  BY DEF Create, Update, Processed, Rest, world
<1>3. \A h \in Generators : TodoInv(h)' /\ HandInv(h)'
  BY <1>2 DEF TypeOK, BranchInv, TodoInv, HandInv, Url
<1>4. OwnBranch'
  <2>1. CASE UNCHANGED proxies
    BY <2>1 DEF BranchInv, OwnBranch
  <2>2. CASE \E owner \in Nat :
               proxies' = [proxies EXCEPT ![g][hand[g].pr.number] = Owned(hand[g].spec, owner)]
    <3>1. BranchOf(hand[g].spec.url, hand[g].pr.number, hand[g].spec.ref)
      BY <1>1 DEF BranchInv, HandInv, BranchOf
    <3>2. ASSUME NEW h \in Generators, NEW n \in Numbers, proxies'[h][n] # None
          PROVE  BranchOf(proxies'[h][n].url, n, proxies'[h][n].ref)
      <4>1. CASE h = g /\ n = hand[g].pr.number
        BY <1>1, <2>2, <3>1, <4>1 DEF TypeOK, Owned
      <4>2. CASE ~(h = g /\ n = hand[g].pr.number)
        <5>1. proxies'[h][n] = proxies[h][n]
          BY <1>1, <2>2, <4>2 DEF TypeOK
        <5> QED BY <3>2, <5>1 DEF BranchInv, OwnBranch, BranchOf
      <4> QED BY <4>1, <4>2
    <3> QED BY <3>2 DEF OwnBranch, BranchOf
  <2> QED BY <1>1, <2>1, <2>2, BusyTypes, HandTypes
          DEF Create, Update, WriteProxy, TypeOK, WorkerShape
<1> QED BY <1>2, <1>3, <1>4 DEF BranchInv

LEMMA RecordBranch ==
  ASSUME TypeOK, BranchInv, NEW g \in Generators,
         RecordPoll(g) \/ RecordConflict(g) \/ RecordFails(g) \/ Finish(g)
  PROVE  BranchInv'
<1>1. UNCHANGED <<proxies, open>> /\ (Leave(g) \/ UNCHANGED <<obj, todo, hand>>)
  BY DEF RecordPoll, RecordConflict, RecordFails, Finish, WriteGenerator, Fail, store, world
<1> QED BY <1>1, LeaveBranch, StayBranch

(* The environment removes proxies and opens pull requests, it writes none. *)
LEMMA EnvironmentBranch ==
  ASSUME TypeOK, BranchInv, Environment
  PROVE  BranchInv'
<1>1. ASSUME NEW g \in Generators, NEW n \in Numbers, RemoveProxy(g, n) \/ StatusWritten(g, n)
      PROVE  BranchInv'
  <2>1. UNCHANGED <<open, obj, todo>> /\ Outdate(g, n)
    BY <1>1 DEF RemoveProxy, StatusWritten, world
  <2>2. \A h \in Generators : HandInv(h)'
    <3> TAKE h \in Generators
    <3>1. CASE hand'[h] = hand[h]
      BY <3>1 DEF BranchInv, HandInv
    <3>2. CASE hand[h] # None /\ hand'[h] = [hand[h] EXCEPT !.current = FALSE]
      <4>1. hand[h] \in Hands
        BY <3>2, HandTypes
      <4>2. hand'[h].pr = hand[h].pr /\ hand'[h].spec = hand[h].spec
        BY <3>2, <4>1 DEF Hands
      <4> QED BY <3>2, <4>2 DEF BranchInv, HandInv
    <3> QED BY <2>1, <3>1, <3>2 DEF Outdate, TypeOK
  <2>3. \A h \in Generators, m \in Numbers :
          proxies'[h][m] = proxies[h][m] \/ proxies'[h][m] = None
    <3>1. proxies' = proxies \/ proxies' = [proxies EXCEPT ![g][n] = None]
      BY <1>1 DEF RemoveProxy, StatusWritten, WriteProxy, store
    <3>2. proxies \in [Generators -> [Numbers -> Proxy \cup {None}]]
      BY DEF TypeOK
    <3> QED BY <3>1, <3>2
  <2>4. OwnBranch'
    BY <2>3 DEF BranchInv, OwnBranch
  <2>5. \A h \in Generators : TodoInv(h)'
    BY <2>1 DEF BranchInv, TodoInv, Url
  <2> QED BY <2>1, <2>2, <2>4, <2>5 DEF BranchInv
<1>2. ASSUME NEW u \in Urls, NEW pr \in PullRequests[u],
             OpenPullRequest(u, pr) \/ ClosePullRequest(u, pr)
      PROVE  BranchInv'
  <2>1. \A v \in Urls : open'[v] \subseteq PullRequests[v]
    <3>1. open' = [open EXCEPT ![u] = open[u] \cup {pr}] \/ open' = [open EXCEPT ![u] = open[u] \ {pr}]
      BY <1>2 DEF OpenPullRequest, ClosePullRequest
    <3>2. open \in [Urls -> SUBSET Requests] /\ \A v \in Urls : open[v] \subseteq PullRequests[v]
      BY DEF TypeOK, BranchInv
    <3> QED BY <3>1, <3>2
  <2>2. UNCHANGED <<proxies, obj, todo, hand>>
    BY <1>2 DEF OpenPullRequest, ClosePullRequest, store, locals
  <2> QED BY <2>1, <2>2 DEF BranchInv, TodoInv, HandInv, OwnBranch, Url
<1>3. CASE Crash
  BY <1>3 DEF Crash, store, world, BranchInv, TodoInv, HandInv, OwnBranch
<1>4. CASE UNCHANGED <<proxies, open, obj, todo, hand>>
  BY <1>4, StayBranch
<1> QED BY <1>1, <1>2, <1>3, <1>4
        DEF Environment, CreateGenerator, UpdateGenerator, DeleteGenerator, WriteGenerator,
            GarbageCollect, DeleteProxy, SetSecret, store, locals, world

LEMMA StepBranch == TypeOK /\ BranchInv /\ [Next]_vars => BranchInv'
<1> SUFFICES ASSUME TypeOK, BranchInv, [Next]_vars PROVE BranchInv'
  OBVIOUS
<1>1. ASSUME NEW g \in Generators,
             GeneratorSync(g) \/ Resync(g) \/ \E n \in Numbers : ProxySync(g, n)
      PROVE  BranchInv'
  BY <1>1, StayBranch DEF GeneratorSync, Resync, ProxySync, store, world, locals
<1>2. ASSUME NEW g \in Generators, WorkerStep(g)
      PROVE  BranchInv'
  BY <1>2, PrepareBranch, RenderBranch, WriteBranch, RecordBranch DEF WorkerStep
<1>3. CASE Manager
  BY <1>1, <1>2, <1>3, PrepareBranch DEF Manager
<1>4. CASE Environment
  BY <1>4, EnvironmentBranch
<1>5. CASE Tick
  BY <1>5, TickBranch
<1>6. CASE UNCHANGED vars
  BY <1>6, StayBranch DEF vars
<1> QED BY <1>3, <1>4, <1>5, <1>6 DEF Next

(* However polls, edits of the generator and pull requests that come and go *)
(* are interleaved, a proxy stored under a number names the branch of a     *)
(* pull request of that number and of the proxy's repository.               *)
THEOREM OwnBranchCorrect == Spec => []OwnBranch
<1>1. BranchInv => OwnBranch
  BY DEF BranchInv
<1> QED BY <1>1, InitBranch, StepBranch, GeneratorTypeCorrect, PTL DEF Spec

-----------------------------------------------------------------------------
(* The key of a generator whose poll is to come is in the queue for it, or  *)
(* its worker is about to put it there.                                     *)
Awaited(g) ==
  \/ due[g] # None /\ due[g] <= Remaining(gens[g])
  \/ pc[g] = "wait" /\ Remaining(obj[g]) = Remaining(gens[g])

PunctualInv ==
  \A g \in Generators :
    gens[g] # None /\ g \notin gstale /\ Remaining(gens[g]) > 0 => Awaited(g)

LEMMA InitPunctual == Init => PunctualInv
BY DEF Init, PunctualInv

(* Asking for a key never makes it ready later than it was.                 *)
LEMMA QueuedEarlier ==
  ASSUME TypeOK, NEW h \in Generators, NEW after \in Ages
  PROVE  /\ Queued(due, h, after)[h] \in Ages /\ Queued(due, h, after)[h] <= after
         /\ due[h] # None => Queued(due, h, after)[h] <= due[h]
         /\ \A g \in Generators \ {h} : Queued(due, h, after)[g] = due[g]
<1>1. due[h] \in Ages \cup {None} /\ due \in [Generators -> Ages \cup {None}]
  BY DEF TypeOK
<1> QED BY <1>1, NoneIsNoValue, Constants DEF Queued, Earlier, Ages

(* Most actions leave the generators alone, make no key later and take no   *)
(* worker from where it waits.                                              *)
LEMMA StayPunctual ==
  ASSUME TypeOK, PunctualInv, NEW h \in Generators, UNCHANGED <<gens, gstale>>,
         due' = due \/ \E after \in Ages : due' = Queued(due, h, after),
         \A g \in Generators : pc[g] = "wait" => pc'[g] = "wait" /\ obj'[g] = obj[g]
  PROVE  PunctualInv'
<1> SUFFICES ASSUME NEW g \in Generators, gens[g] # None, g \notin gstale, Remaining(gens[g]) > 0
             PROVE  Awaited(g)'
  BY DEF PunctualInv
<1>1. Awaited(g) /\ gens[g] \in Generator
  BY DEF PunctualInv, TypeOK
<1>2. Remaining(gens[g]) \in Ages /\ (due[g] # None => due[g] \in Ages)
  BY <1>1, RemainingType DEF TypeOK
<1>3. CASE pc[g] = "wait" /\ Remaining(obj[g]) = Remaining(gens[g])
  BY <1>3 DEF Awaited
<1>4. CASE due[g] # None /\ due[g] <= Remaining(gens[g])
  <2>1. CASE due' = due
    BY <1>4, <2>1 DEF Awaited
  <2>2. CASE \E after \in Ages : due' = Queued(due, h, after)
    <3>1. due'[g] \in Ages /\ due'[g] <= due[g]
      BY <1>2, <1>4, <2>2, QueuedEarlier, Constants DEF Ages
    <3> QED BY <1>2, <1>4, <3>1, NoneIsNoValue, Constants DEF Awaited, Ages
  <2> QED BY <2>1, <2>2
<1> QED BY <1>1, <1>3, <1>4 DEF Awaited

(* Every tick brings the poll and the queue's entry nearer alike.           *)
LEMMA TickPunctual ==
  ASSUME TypeOK, PunctualInv, Tick
  PROVE  PunctualInv'
<1>1. ASSUME NEW gen \in Generator
      PROVE  /\ Remaining([gen EXCEPT !.lastPolled = Older(@)]) =
                  IF Remaining(gen) = 0 THEN 0 ELSE Remaining(gen) - 1
             /\ Remaining(gen) \in Nat
  <2>1. gen.lastPolled \in Ages \cup {None} /\ gen.spec \in GeneratorSpec
    BY DEF Generator
  <2>2. gen.spec.interval \in Ages
    BY <2>1 DEF GeneratorSpec, Ages
  <2>3. /\ [gen EXCEPT !.lastPolled = Older(@)].lastPolled = Older(gen.lastPolled)
        /\ [gen EXCEPT !.lastPolled = Older(@)].spec = gen.spec
    BY DEF Generator
  <2> QED BY <2>1, <2>2, <2>3, Constants, NoneIsNoValue DEF Remaining, Older, Ages
<1> SUFFICES ASSUME NEW g \in Generators, gens'[g] # None, g \notin gstale,
                    Remaining(gens'[g]) > 0
             PROVE  Awaited(g)'
  BY DEF PunctualInv, Tick
<1>2. gens[g] \in Generator /\ gens'[g] = [gens[g] EXCEPT !.lastPolled = Older(@)]
  BY DEF TypeOK, Tick, Aged
<1>3. Remaining(gens[g]) \in Nat /\ Remaining(gens[g]) > 0
      /\ Remaining(gens'[g]) = Remaining(gens[g]) - 1
  BY <1>1, <1>2
<1>4. Awaited(g)
  BY <1>2, <1>3, NoneIsNoValue DEF PunctualInv
<1>5. CASE due[g] # None /\ due[g] <= Remaining(gens[g])
  <2>1. due[g] \in Nat /\ due'[g] = IF due[g] = 0 THEN 0 ELSE due[g] - 1
    BY <1>5, Constants DEF TypeOK, Tick, Ages
  <2>2. due'[g] \in Nat /\ due'[g] <= Remaining(gens'[g])
    BY <1>3, <1>5, <2>1
  <2> QED BY <2>2, NoneIsNoValue DEF Awaited
<1>6. CASE pc[g] = "wait" /\ Remaining(obj[g]) = Remaining(gens[g])
  <2>1. obj[g] \in Generator /\ obj'[g] = [obj[g] EXCEPT !.lastPolled = Older(@)]
    BY <1>6, NoneIsNoValue DEF TypeOK, WorkerShape, Tick, Aged
  <2>2. Remaining(obj'[g]) = Remaining(gens[g]) - 1
    BY <1>1, <1>3, <1>6, <2>1
  <2> QED BY <1>3, <1>6, <2>2 DEF Awaited, Tick
<1> QED BY <1>4, <1>5, <1>6 DEF Awaited

(* What the watch delivers is looked at right away.                         *)
LEMMA SyncPunctual ==
  ASSUME TypeOK, PunctualInv, NEW h \in Generators, GeneratorSync(h)
  PROVE  PunctualInv'
<1>1. ASSUME NEW g \in Generators, gens[g] # None, g \notin gstale', Remaining(gens[g]) > 0
      PROVE  Awaited(g)'
  <2>1. CASE g = h
    <3>1. due' = Queued(due, h, 0)
      BY <1>1, <2>1 DEF GeneratorSync
    <3>2. due'[g] \in Ages /\ due'[g] <= 0
      BY <2>1, <3>1, QueuedEarlier, ZeroIsAge
    <3>3. Remaining(gens[g]) \in Ages
      BY <1>1, RemainingType DEF TypeOK
    <3>4. due'[g] # None
      BY <3>2, NoneIsNoValue
    <3>5. due'[g] <= Remaining(gens[g])
      BY <3>2, <3>3, Constants DEF Ages
    <3> QED BY <3>4, <3>5 DEF Awaited, GeneratorSync, store
  <2>2. CASE g # h
    <3>1. Awaited(g)
      BY <1>1, <2>2 DEF PunctualInv, GeneratorSync
    <3>2. due'[g] = due[g]
      BY <2>2, QueuedEarlier, ZeroIsAge DEF GeneratorSync
    <3> QED BY <3>1, <3>2 DEF Awaited, GeneratorSync, store, locals
  <2> QED BY <2>1, <2>2
<1> QED BY <1>1 DEF PunctualInv, GeneratorSync, store

(* The worker that takes a key keeps the promise the entry stood for.       *)
LEMMA TakePunctual ==
  ASSUME TypeOK, PunctualInv, NEW h \in Generators, Take(h)
  PROVE  PunctualInv'
<1>1. UNCHANGED <<gens, gstale>> /\ pc[h] = "idle"
  BY DEF Take, Get, GetNotFound, store, caches
<1>2. ASSUME NEW g \in Generators, gens[g] # None, g \notin gstale, Remaining(gens[g]) > 0
      PROVE  Awaited(g)'
  <2>1. CASE g = h
    <3>1. gcache[g] = gens[g]
      BY <1>2 DEF TypeOK, CacheShape
    <3>2. Get(g)
      BY <1>2, <2>1, <3>1 DEF Take, GetNotFound
    <3>3. pc'[g] = "wait" /\ obj'[g] = gens[g] /\ gens' = gens
      BY <1>1, <1>2, <3>1, <3>2 DEF TypeOK, Get, Goto
    <3> QED BY <3>3 DEF Awaited
  <2>2. CASE g # h
    <3>1. Awaited(g)
      BY <1>2 DEF PunctualInv
    <3>2. due'[g] = due[g] /\ pc'[g] = pc[g] /\ obj'[g] = obj[g]
      BY <2>2 DEF Take, Get, GetNotFound, Goto, locals, TypeOK
    <3> QED BY <1>1, <3>1, <3>2 DEF Awaited
  <2> QED BY <2>1, <2>2
<1> QED BY <1>1, <1>2 DEF PunctualInv

LEMMA WaitPunctual ==
  ASSUME TypeOK, PunctualInv, NEW h \in Generators, Wait(h)
  PROVE  PunctualInv'
<1>1. UNCHANGED <<gens, gstale>>
  BY DEF Wait, store, caches
<1>2. ASSUME NEW g \in Generators, gens[g] # None, g \notin gstale, Remaining(gens[g]) > 0
      PROVE  Awaited(g)'
  <2>1. Awaited(g)
    BY <1>2 DEF PunctualInv
  <2>2. Remaining(obj[h]) \in Ages /\ Remaining(gens[g]) \in Ages
        /\ (due[g] # None => due[g] \in Ages)
    BY <1>2, BusyTypes, RemainingType DEF Wait, TypeOK
  <2>3. CASE g = h
    <3>1. CASE due[g] # None /\ due[g] <= Remaining(gens[g])
      <4>1. due'[g] \in Ages /\ due'[g] <= due[g]
        BY <2>2, <2>3, <3>1, QueuedEarlier, Constants DEF Wait, AddAfter, Ages
      <4>2. due'[g] <= Remaining(gens[g]) /\ due'[g] # None
        BY <2>2, <3>1, <4>1, NoneIsNoValue, Constants DEF Ages
      <4> QED BY <1>1, <4>2 DEF Awaited
    <3>2. CASE Remaining(obj[g]) = Remaining(gens[g])
      <4>1. due' = Queued(due, h, Remaining(obj[h]))
        BY <1>2, <2>3, <3>2 DEF Wait, AddAfter
      <4>2. due'[g] \in Ages /\ due'[g] <= Remaining(gens[g])
        BY <2>2, <2>3, <3>2, <4>1, QueuedEarlier
      <4> QED BY <1>1, <4>2, NoneIsNoValue DEF Awaited
    <3> QED BY <2>1, <3>1, <3>2 DEF Awaited
  <2>4. CASE g # h
    <3>1. due'[g] = due[g]
      BY <2>2, <2>4, QueuedEarlier DEF Wait, AddAfter
    <3>2. pc'[g] = pc[g] /\ obj'[g] = obj[g]
      BY <2>4 DEF Wait, Leave, TypeOK
    <3> QED BY <1>1, <2>1, <3>1, <3>2 DEF Awaited
  <2> QED BY <2>3, <2>4
<1> QED BY <1>1, <1>2 DEF PunctualInv

(* A generator that is written is stale until the watch has delivered it.   *)
LEMMA WritePunctual ==
  ASSUME TypeOK, PunctualInv, NEW h \in Generators, NEW new \in Generator \cup {None},
         WriteGenerator(h, new),
         due' = due \/ \E after \in Ages : due' = Queued(due, h, after),
         \A g \in Generators : pc[g] = "wait" => pc'[g] = "wait" /\ obj'[g] = obj[g]
  PROVE  PunctualInv'
<1>1. CASE new = gens[h]
  <2>1. UNCHANGED <<gens, gstale>>
    BY <1>1 DEF WriteGenerator, TypeOK
  <2> QED BY <2>1, StayPunctual
<1>2. CASE new # gens[h]
  <2>1. gstale' = gstale \cup {h} /\ \A g \in Generators \ {h} : gens'[g] = gens[g]
    BY <1>2 DEF WriteGenerator, TypeOK
  <2>2. ASSUME NEW g \in Generators \ {h}, gens[g] # None, g \notin gstale,
               Remaining(gens[g]) > 0
        PROVE  Awaited(g)'
    <3>1. Awaited(g)
      BY <2>2 DEF PunctualInv
    <3>2. due'[g] = due[g]
      BY <2>2, QueuedEarlier
    <3> QED BY <2>1, <3>1, <3>2 DEF Awaited
  <2> QED BY <2>1, <2>2 DEF PunctualInv
<1> QED BY <1>1, <1>2

(* A worker that fails or is done asks to come back, or does not.           *)
LEMMA LeaveWaits ==
  ASSUME TypeOK, NEW h \in Generators, pc[h] # "wait",
         Leave(h) \/ (UNCHANGED obj /\ \E to \in PCs : Goto(h, to)) \/ UNCHANGED <<obj, pc>>
  PROVE  \A g \in Generators : pc[g] = "wait" => pc'[g] = "wait" /\ obj'[g] = obj[g]
BY DEF Leave, Goto, TypeOK

LEMMA FailQueues ==
  ASSUME NEW h \in Generators, AddRateLimited(h)
  PROVE  \E after \in Ages : due' = Queued(due, h, after)
BY ZeroIsAge DEF AddRateLimited

LEMMA WorkerPunctual ==
  ASSUME TypeOK, PunctualInv, NEW h \in Generators, WorkerStep(h)
  PROVE  PunctualInv'
<1>1. CASE Wait(h)
  BY <1>1, WaitPunctual
<1>2. CASE FetchSecretRef(h) \/ CheckRepository(h) \/ ListPullRequests(h)
  <2>1. UNCHANGED <<gens, gstale>> /\ pc[h] # "wait"
    BY <1>2 DEF FetchSecretRef, CheckRepository, ListPullRequests, store, caches
  <2>2. \/ Leave(h) /\ (AddRateLimited(h) \/ UNCHANGED due)
        \/ UNCHANGED <<obj, due>> /\ \E to \in PCs : Goto(h, to)
    BY <1>2 DEF FetchSecretRef, CheckRepository, ListPullRequests, Fail, PCs
  <2> QED BY <2>1, <2>2, LeaveWaits, FailQueues, StayPunctual
<1>3. CASE Skip(h) \/ Create(h) \/ Update(h)
  <2>1. UNCHANGED <<gens, gstale, obj, due>> /\ pc[h] # "wait"
        /\ (UNCHANGED pc \/ Goto(h, "pr"))
    BY <1>3 DEF Skip, Create, Update, Processed, store, caches
  <2>2. "pr" \in PCs
    BY DEF PCs
  <2> QED BY <2>1, <2>2, LeaveWaits, StayPunctual
<1>4. CASE RenderAndGet(h)
  <2>1. UNCHANGED <<gens, gstale, due>> /\ pc[h] # "wait"
    BY <1>4 DEF RenderAndGet, store, caches
  <2>2. \A g \in Generators : g # h => pc'[g] = pc[g] /\ obj'[g] = obj[g]
    BY <1>4 DEF RenderAndGet, Goto, TypeOK
  <2> QED BY <2>1, <2>2, StayPunctual
<1>5. CASE RecordPoll(h)
  <2>1. [gens[h] EXCEPT !.lastPolled = 0] \in Generator
    <3>1. gens[h] \in Generator
      BY <1>5 DEF RecordPoll, TypeOK, CacheShape
    <3> QED BY <3>1, ZeroIsAge DEF Generator
  <2>2. pc[h] # "wait" /\ WriteGenerator(h, [gens[h] EXCEPT !.lastPolled = 0])
    BY <1>5 DEF RecordPoll, Recording
  <2>3. \/ Leave(h) /\ AddRateLimited(h)
        \/ UNCHANGED <<obj, due>> /\ \E to \in PCs : Goto(h, to)
    BY <1>5 DEF RecordPoll, Fail, PCs
  <2> QED BY <2>1, <2>2, <2>3, LeaveWaits, FailQueues, WritePunctual
<1>6. CASE RecordConflict(h) \/ RecordFails(h)
  <2>1. UNCHANGED <<gens, gstale>> /\ pc[h] # "wait"
    BY <1>6 DEF RecordConflict, RecordFails, Recording, store, caches
  <2>2. (Leave(h) /\ AddRateLimited(h)) \/ UNCHANGED <<obj, due, pc>>
    BY <1>6 DEF RecordConflict, RecordFails, Fail
  <2> QED BY <2>1, <2>2, LeaveWaits, FailQueues, StayPunctual
<1>7. CASE Finish(h)
  <2>1. UNCHANGED <<gens, gstale>> /\ pc[h] # "wait" /\ Leave(h)
    BY <1>7 DEF Finish, store, caches
  <2>2. obj[h].spec.interval \in Ages
    BY <1>7, BusyTypes DEF Finish, GeneratorSpec, Ages
  <2>3. due' = due \/ \E after \in Ages : due' = Queued(due, h, after)
    BY <1>7, <2>2 DEF Finish, AddAfter
  <2> QED BY <2>1, <2>3, LeaveWaits, StayPunctual
<1> QED BY <1>1, <1>2, <1>3, <1>4, <1>5, <1>6, <1>7 DEF WorkerStep

LEMMA EnvironmentPunctual ==
  ASSUME TypeOK, PunctualInv, Environment
  PROVE  PunctualInv'
<1>1. ASSUME NEW h \in Generators,
             \/ \E s \in GeneratorSpecs[h] : CreateGenerator(h, s) \/ UpdateGenerator(h, s)
             \/ DeleteGenerator(h)
      PROVE  PunctualInv'
  <2>1. UNCHANGED <<due, pc, obj>>
    BY <1>1 DEF CreateGenerator, UpdateGenerator, DeleteGenerator, locals
  <2>2. \E new \in Generator \cup {None} : WriteGenerator(h, new)
    <3>1. ASSUME NEW s \in GeneratorSpecs[h], CreateGenerator(h, s)
          PROVE  [spec |-> s, uid |-> nextUid[h], lastPolled |-> None] \in Generator
      BY <3>1, Constants DEF TypeOK, Generator
    <3>2. ASSUME NEW s \in GeneratorSpecs[h], UpdateGenerator(h, s)
          PROVE  [gens[h] EXCEPT !.spec = s] \in Generator
      BY <3>2, Constants DEF UpdateGenerator, TypeOK, Generator
    <3> QED BY <1>1, <3>1, <3>2 DEF CreateGenerator, UpdateGenerator, DeleteGenerator
  <2> QED BY <2>1, <2>2, WritePunctual
<1>2. CASE Crash
  BY <1>2 DEF Crash, PunctualInv, store
<1>3. CASE UNCHANGED <<gens, gstale, due, pc, obj>>
  BY <1>3 DEF PunctualInv, Awaited
<1> QED BY <1>1, <1>2, <1>3
        DEF Environment, GarbageCollect, DeleteProxy, RemoveProxy, StatusWritten,
            OpenPullRequest, ClosePullRequest, SetSecret, store, caches, locals

LEMMA StepPunctual == TypeOK /\ PunctualInv /\ [Next]_vars => PunctualInv'
<1> SUFFICES ASSUME TypeOK, PunctualInv, [Next]_vars PROVE PunctualInv'
  OBVIOUS
<1>1. ASSUME NEW g \in Generators, Resync(g) \/ \E n \in Numbers : ProxySync(g, n)
      PROVE  PunctualInv'
  <2>1. UNCHANGED <<gens, gstale, pc, obj>>
    BY <1>1 DEF Resync, ProxySync, store, caches, locals
  <2>2. due' = due \/ \E after \in Ages : due' = Queued(due, g, after)
    BY <1>1, ZeroIsAge DEF Resync, ProxySync
  <2> QED BY <2>1, <2>2, StayPunctual
<1>2. CASE Manager
  BY <1>1, <1>2, SyncPunctual, TakePunctual, WorkerPunctual DEF Manager
<1>3. CASE Environment
  BY <1>3, EnvironmentPunctual
<1>4. CASE Tick
  BY <1>4, TickPunctual
<1>5. CASE UNCHANGED vars
  BY <1>5 DEF vars, PunctualInv, Awaited
<1> QED BY <1>2, <1>3, <1>4, <1>5 DEF Next

(* Whatever conflicts, failures, edits of the interval and restarts come in *)
(* between, a generator nobody works on and whose poll is to come has its   *)
(* key in the queue for that moment at the latest, unless the cache is      *)
(* behind.                                                                  *)
THEOREM PunctualCorrect == Spec => []Punctual
<1>1. PunctualInv => Punctual
  BY DEF PunctualInv, Punctual, Awaited
<1> QED BY <1>1, InitPunctual, StepPunctual, GeneratorTypeCorrect, PTL DEF Spec
=============================================================================
