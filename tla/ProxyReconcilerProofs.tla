------------------------ MODULE ProxyReconcilerProofs ------------------------
(***************************************************************************)
(* Theorems about ProxyReconciler, for every set of proxies, workers,       *)
(* clusters and every budget of the environment.                            *)
(***************************************************************************)
EXTENDS ProxyReconciler, TLAPS

(* A fetched credential is one of the formats, a fetched known_hosts entry  *)
(* nil or one of its forms.                                                 *)
LEMMA FetchTypes ==
  ASSUME NEW git \in Git, NEW secret \in Secrets
  PROVE  /\ ~FetchSecret(git, secret).err => FetchSecret(git, secret).val \in Credentials
         /\ ~FetchKnownHosts(git, secret).err => FetchKnownHosts(git, secret).val \in KnownHosts
BY DEF Git, Secrets, FetchSecret, FetchKnownHosts, Failed, Got, Credentials, KnownHosts

(* Every clone has its place among the directories.                         *)
LEMMA DirectoryType ==
  ASSUME NEW p \in Proxies, NEW ref \in Refs
  PROVE  Directory(p, ref) \in Directories
BY DEF Directories

(* A removal changes the removed directories only.                          *)
LEMMA WithoutType ==
  ASSUME TypeOK, NEW gone, dirs' = Without(gone)
  PROVE  /\ dirs' \in [Directories -> Content \cup {None}]
         /\ \A d \in Directories : dirs'[d] = IF d \in gone THEN None ELSE dirs[d]
BY DEF TypeOK, Without

(* A busy worker has a key and a typed object.                              *)
LEMMA BusyTypes ==
  ASSUME TypeOK, NEW w \in Workers, pc[w] # "idle"
  PROVE  /\ key[w] \in Proxies
         /\ obj[w] \in Object /\ obj[w].spec \in ProxySpec
         /\ obj[w].spec.git \in Git /\ Url(w) \in Urls /\ obj[w].spec.git.ref \in Refs
         /\ Dir(w) \in Directories
         /\ dirs[Dir(w)] \in Content \cup {None}
         /\ BranchHead(w) \in Nat
<1>1. key[w] \in Proxies /\ obj[w] \in Object
  BY DEF TypeOK, WorkerShape
<1>2. /\ obj[w].spec \in ProxySpec /\ obj[w].spec.git \in Git
      /\ Url(w) \in Urls /\ obj[w].spec.git.ref \in Refs
  BY <1>1 DEF Object, ProxySpec, Git, Url
<1>3. Dir(w) \in Directories
  BY <1>1, <1>2, DirectoryType DEF Dir
<1>4. dirs[Dir(w)] \in Content \cup {None} /\ BranchHead(w) \in Nat
  BY <1>2, <1>3 DEF TypeOK, BranchHead
<1> QED BY <1>1, <1>2, <1>3, <1>4

(* The resources a worker goes through are a sequence of Resources.         *)
LEMMA EmittedTypes ==
  ASSUME TypeOK, NEW w \in Workers, src[w] # None
  PROVE  src[w] \in Content /\ Emitted(w) \in Seq(Resources) /\ Len(Emitted(w)) \in Nat
BY ProxyReconcilerConstants DEF TypeOK, Content, Emitted

LEMMA InitType == Init => TypeOK
<1> SUFFICES ASSUME Init PROVE TypeOK
  OBVIOUS
<1> USE ProxyReconcilerConstants
<1>1. \A w \in Workers : WorkerShape(w)
  BY NoneIsNoValue DEF Init, WorkerShape, NoLoop
<1>2. /\ NoAuth \in [cred : Credentials \cup {"nil"}, hosts : KnownHosts]
      /\ NoLoop \in Loops
  BY DEF NoAuth, NoLoop, Loops, KnownHosts
<1> QED BY <1>1, <1>2 DEF Init, TypeOK, PCs

(* The controller's own actions, then the reconciliation's, then the        *)
(* environment's.                                                           *)
LEMMA QueueType ==
  ASSUME TypeOK, NEW p \in Proxies, CacheSync(p) \/ Resync(p) \/ Backoff(p)
  PROVE  TypeOK'
<1>1. CASE CacheSync(p)
  BY <1>1 DEF TypeOK, WorkerShape, CacheSync, store, world, locals
<1>2. CASE Resync(p)
  BY <1>2 DEF TypeOK, WorkerShape, Resync, store, world, locals
<1>3. CASE Backoff(p)
  BY <1>3 DEF TypeOK, WorkerShape, Backoff, store, world, locals
<1> QED BY <1>1, <1>2, <1>3

LEMMA TakeType ==
  ASSUME TypeOK, NEW p \in Proxies, NEW w \in Workers, Get(w, p) \/ GetNotFound(w, p)
  PROVE  TypeOK'
<1>1. CASE Get(w, p)
  <2>1. p # None /\ cache[p] \in Object
    BY <1>1, NoneIsNoValue DEF Get, TypeOK
  <2> QED BY <1>1, <2>1, NoneIsNoValue DEF TypeOK, WorkerShape, Get, Goto, PCs, store, world
<1>2. CASE GetNotFound(w, p)
  BY <1>2 DEF TypeOK, WorkerShape, GetNotFound, store, world, locals
<1> QED BY <1>1, <1>2

(* An environment action is only taken while the budget lasts.              *)
LEMMA SpendType ==
  ASSUME TypeOK, NEW kind \in Kinds, Spend(kind)
  PROVE  left' \in [Kinds -> Nat]
BY DEF Spend, TypeOK

(* Setting a condition changes one object and leaves its spec and           *)
(* resourceVersion alone.                                                   *)
LEMMA SetConditionType ==
  ASSUME TypeOK, NEW w \in Workers, obj[w] \in Object,
         \/ SetCondition(w, "ready", "True") \/ SetCondition(w, "ready", "False")
         \/ SetCondition(w, "available", "False")
  PROVE  /\ obj' \in [Workers -> Object \cup {None}] /\ obj'[w] \in Object
         /\ obj'[w].spec = obj[w].spec /\ obj'[w].rv = obj[w].rv
         /\ \A v \in Workers \ {w} : obj'[v] = obj[v]
<1>1. CASE SetCondition(w, "ready", "True")
  BY <1>1 DEF SetCondition, TypeOK, Object
<1>2. CASE SetCondition(w, "ready", "False")
  BY <1>2 DEF SetCondition, TypeOK, Object
<1>3. CASE SetCondition(w, "available", "False")
  BY <1>3 DEF SetCondition, TypeOK, Object
<1> QED BY <1>1, <1>2, <1>3

(* A return keeps types: only locals change, and the busy worker stays busy. *)
LEMMA ReturnType ==
  ASSUME TypeOK, NEW w \in Workers, pc[w] # "idle",
         NEW err \in {"nil", "err", "panic"}, Return(w, err),
         key' = key, obj' = obj \/ (\E type \in {"ready", "available"} : SetCondition(w, type, "False"))
  PROVE  /\ pc' \in [Workers -> PCs] /\ ret' \in [Workers -> {"nil", "err", "panic"}]
         /\ obj' \in [Workers -> Object \cup {None}]
         /\ auth' \in [Workers -> [cred : Credentials \cup {"nil"}, hosts : KnownHosts]]
         /\ src' \in [Workers -> Content \cup {None}]
         /\ loop' \in [Workers -> Loops]
         /\ \A v \in Workers : WorkerShape(v)'
<1>1. obj[w] \in Object /\ obj[w] # None
  BY BusyTypes, NoneIsNoValue
<1>2. obj' \in [Workers -> Object \cup {None}] /\ obj'[w] # None
      /\ \A v \in Workers \ {w} : obj'[v] = obj[v]
  <2>1. CASE obj' = obj
    BY <1>1, <2>1 DEF TypeOK
  <2>2. ASSUME NEW type \in {"ready", "available"}, SetCondition(w, type, "False")
        PROVE  obj' \in [Workers -> Object \cup {None}] /\ obj'[w] \in Object
               /\ \A v \in Workers \ {w} : obj'[v] = obj[v]
    BY <1>1, <2>2, SetConditionType
  <2> QED BY <2>1, <2>2, NoneIsNoValue
<1>3. /\ NoAuth \in [cred : Credentials \cup {"nil"}, hosts : KnownHosts]
      /\ NoLoop \in Loops
  BY DEF NoAuth, NoLoop, Loops, KnownHosts
<1>4. \A v \in Workers : WorkerShape(v)'
  BY <1>1, <1>2 DEF Return, NoLoop, TypeOK, WorkerShape
<1> QED BY <1>2, <1>3, <1>4 DEF Return, TypeOK, PCs

LEMMA PrepareType ==
  ASSUME TypeOK, NEW w \in Workers,
         \/ ReadSecret(w) \/ ReadKnownHosts(w) \/ CheckRepository(w) \/ Clone(w) \/ CloneFails(w)
         \/ Synthesize(w) \/ SynthesizeFails(w)
  PROVE  TypeOK'
<1>1. CASE ReadSecret(w) \/ ReadKnownHosts(w)
  <2>0. pc[w] # "idle" /\ "hosts" \in PCs /\ "access" \in PCs
    BY <1>1 DEF ReadSecret, ReadKnownHosts, PCs
  <2>1. CASE Return(w, "err")
    BY <1>1, <2>1, ReturnType DEF ReadSecret, ReadKnownHosts, TypeOK, store, queue, world
  <2>2. secrets[key[w]] \in Secrets /\ obj[w].spec.git \in Git
    BY <2>0, BusyTypes, ProxyReconcilerConstants DEF TypeOK
  <2>3. CASE \E to \in {"hosts", "access"} : Goto(w, to)
    <3> SUFFICES ASSUME ~Return(w, "err") PROVE TypeOK'
      BY <2>1
    <3>1. auth' \in [Workers -> [cred : Credentials \cup {"nil"}, hosts : KnownHosts]]
      <4>0. auth \in [Workers -> [cred : Credentials \cup {"nil"}, hosts : KnownHosts]]
        BY DEF TypeOK
      <4> DEFINE cred  == FetchSecret(obj[w].spec.git, secrets[key[w]])
                 hosts == FetchKnownHosts(obj[w].spec.git, secrets[key[w]])
      <4>1. /\ ~cred.err => cred.val \in Credentials
            /\ ~hosts.err => hosts.val \in KnownHosts
        BY <2>2, FetchTypes
      <4>2. \/ ~cred.err /\ auth' = [auth EXCEPT ![w].cred = cred.val]
            \/ ~hosts.err /\ auth' = [auth EXCEPT ![w].hosts = hosts.val]
        BY <1>1 DEF ReadSecret, ReadKnownHosts
      <4> HIDE DEF cred, hosts
      <4>3. PICK a \in [cred : Credentials \cup {"nil"}, hosts : KnownHosts] :
              auth' = [auth EXCEPT ![w] = a]
        <5>1. CASE ~cred.err /\ auth' = [auth EXCEPT ![w].cred = cred.val]
          <6>1. auth' = [auth EXCEPT ![w] = [auth[w] EXCEPT !.cred = cred.val]]
            BY <5>1
          <6>2. [auth[w] EXCEPT !.cred = cred.val]
                  \in [cred : Credentials \cup {"nil"}, hosts : KnownHosts]
            BY <4>0, <4>1, <5>1
          <6> QED BY <6>1, <6>2
        <5>2. CASE ~hosts.err /\ auth' = [auth EXCEPT ![w].hosts = hosts.val]
          <6>1. auth' = [auth EXCEPT ![w] = [auth[w] EXCEPT !.hosts = hosts.val]]
            BY <5>2
          <6>2. [auth[w] EXCEPT !.hosts = hosts.val]
                  \in [cred : Credentials \cup {"nil"}, hosts : KnownHosts]
            BY <4>0, <4>1, <5>2
          <6> QED BY <6>1, <6>2
        <5> QED BY <4>2, <5>1, <5>2
      <4> QED BY <4>0, <4>3
    <3>2. UNCHANGED <<src, loop, ret, store, cache, queue, world, deployed, dirs, key, obj, left>>
          /\ pc[w] \in {"secret", "hosts"}
      BY <1>1 DEF ReadSecret, ReadKnownHosts
    <3>3. pc' \in [Workers -> PCs]
      BY <2>0, <2>3 DEF Goto, TypeOK
    <3>4. \A v \in Workers : WorkerShape(v)'
      <4> SUFFICES ASSUME NEW v \in Workers PROVE WorkerShape(v)'
        OBVIOUS
      <4>1. CASE v = w
        BY <2>3, <3>2, <4>1 DEF Goto, TypeOK, WorkerShape
      <4>2. CASE v # w
        BY <2>3, <3>2, <4>2 DEF Goto, TypeOK, WorkerShape
      <4> QED BY <4>1, <4>2
    <3> QED BY <3>1, <3>2, <3>3, <3>4 DEF TypeOK, store, queue, world
  <2> QED BY <1>1, <2>1, <2>3 DEF ReadSecret, ReadKnownHosts
<1>2. CASE CheckRepository(w)
  <2>1. PICK up1 \in BOOLEAN, up2 \in BOOLEAN :
          LET a == CheckAccess(Url(w), auth[w].cred, auth[w].hosts, up1, up2) IN
          /\ pc[w] = "access"
          /\ IF up1 /\ up2 THEN UNCHANGED left ELSE Spend("fault")
          /\ \/ Return(w, IF a.err THEN "err" ELSE "nil")
             \/ /\ auth' = [auth EXCEPT ![w] = [cred  |-> CloneCredential(w, a.requiresAuth),
                                                hosts |-> auth[w].hosts]]
                /\ Goto(w, "clone")
                /\ UNCHANGED <<src, loop, ret>>
          /\ UNCHANGED <<store, cache, queue, world, deployed, dirs, key, obj>>
    BY <1>2 DEF CheckRepository
  <2>2. left' \in [Kinds -> Nat]
    BY <2>1 DEF Spend, TypeOK
  <2>3. CASE \E err \in {"nil", "err", "panic"} : Return(w, err)
    BY <2>1, <2>2, <2>3, ReturnType DEF TypeOK, store, queue, world
  <2>4. ASSUME NEW req,
               auth' = [auth EXCEPT ![w] = [cred  |-> CloneCredential(w, req),
                                            hosts |-> auth[w].hosts]],
               Goto(w, "clone"), UNCHANGED <<src, loop, ret>>
        PROVE  TypeOK'
    <3>1. CloneCredential(w, req) \in Credentials \cup {"nil"} /\ auth[w].hosts \in KnownHosts
      BY DEF CloneCredential, TypeOK
    <3>2. auth' \in [Workers -> [cred : Credentials \cup {"nil"}, hosts : KnownHosts]]
      BY <2>4, <3>1 DEF TypeOK
    <3> QED BY <2>1, <2>2, <2>4, <3>2 DEF Goto, TypeOK, WorkerShape, PCs, store, queue, world
  <2> QED BY <2>1, <2>3, <2>4
<1>3. CASE Clone(w)
  <2>1. pc[w] # "idle"
    BY <1>3 DEF Clone
  <2>2. dirs' \in [Directories -> Content \cup {None}]
    BY <1>3, <2>1, BusyTypes DEF Clone, TypeOK, Content
  <2> QED BY <1>3, <2>2 DEF Clone, Goto, TypeOK, WorkerShape, PCs, store, queue, world, locals
<1>4. CASE CloneFails(w)
  <2>1. left' \in [Kinds -> Nat]
    BY <1>4 DEF CloneFails, Spend, TypeOK
  <2> QED BY <1>4, <2>1, ReturnType DEF CloneFails, TypeOK, store, queue, world
<1>5. CASE Synthesize(w)
  <2>1. src' \in [Workers -> Content \cup {None}] /\ src'[w] # None
    BY <1>5, BusyTypes DEF Synthesize, TypeOK
  <2> QED BY <1>5, <2>1 DEF Synthesize, Goto, TypeOK, WorkerShape, PCs, store, queue, world
<1>6. CASE SynthesizeFails(w)
  <2>1. left' \in [Kinds -> Nat]
    BY <1>6 DEF SynthesizeFails, Spend, TypeOK
  <2> QED BY <1>6, <2>1, ReturnType DEF SynthesizeFails, TypeOK, store, queue, world
<1> QED BY <1>1, <1>2, <1>3, <1>4, <1>5, <1>6

(* Where a loop goes after a resource stays inside the parsed resources.    *)
LEMMA AdvancedType ==
  ASSUME TypeOK, NEW w \in Workers, loop[w].cur # None
  PROVE  /\ loop[w] \in Loops /\ loop[w].cur \in Clusters /\ src[w] # None
         /\ pc[w] \in {"apply", "check"} /\ key[w] # None
         /\ loop[w].idx \in 1..Len(Emitted(w)) /\ Emitted(w)[loop[w].idx] \in Resources
         /\ Advanced(w) \in Loops
         /\ Advanced(w).cur # None => Advanced(w).idx \in 1..Len(Emitted(w))
<1>1. /\ loop[w] \in Loops /\ loop[w].cur \in Clusters
      /\ pc[w] \in {"apply", "check"} /\ key[w] # None /\ src[w] # None
  BY DEF TypeOK, WorkerShape, Loops
<1>2. Emitted(w) \in Seq(Resources) /\ Len(Emitted(w)) \in Nat
  BY <1>1, EmittedTypes
<1>3. loop[w].idx \in 1..Len(Emitted(w)) /\ loop[w].idx \in Nat
  BY <1>1 DEF TypeOK, WorkerShape, Loops, Emitted
<1>4. Emitted(w)[loop[w].idx] \in Resources
  BY <1>2, <1>3
<1>5. CASE loop[w].idx < Len(Emitted(w))
  BY <1>1, <1>2, <1>3, <1>4, <1>5 DEF Advanced, Loops
<1>6. CASE ~(loop[w].idx < Len(Emitted(w)))
  BY <1>1, <1>2, <1>3, <1>4, <1>6 DEF Advanced, Loops
<1> QED BY <1>5, <1>6

(* A step of a worker that only moves its program counter and its loop.     *)
LEMMA LoopStepType ==
  ASSUME TypeOK, NEW w \in Workers, NEW l \in Loops, NEW to \in PCs,
         loop' = [loop EXCEPT ![w] = l], pc' = [pc EXCEPT ![w] = to],
         pc[w] # "idle", to \in {"apply", "check"}, src[w] # None,
         l.cur # None => to \in {"apply", "check"} /\ l.idx \in 1..Len(Emitted(w)),
         UNCHANGED <<key, src>>,
         \A v \in Workers : obj'[v] = None <=> obj[v] = None
  PROVE  /\ loop' \in [Workers -> Loops] /\ pc' \in [Workers -> PCs]
         /\ \A v \in Workers : WorkerShape(v)'
BY DEF TypeOK, WorkerShape, Emitted

LEMMA ApplyType ==
  ASSUME TypeOK, NEW w \in Workers,
         \/ ApplyClusterList(w) \/ ApplyClusterClient(w)
         \/ ApplyResource(w) \/ ApplyResourceFails(w)
  PROVE  TypeOK'
<1>1. CASE ApplyClusterList(w)
  <2>1. CASE obj[w].spec.selValid
    <3> DEFINE l == [items |-> Selected(w), todo |-> Selected(w),
                     cur |-> None, idx |-> 0, missing |-> FALSE]
    <3>1. l \in Loops /\ l.cur = None /\ src[w] # None
      BY <1>1 DEF ApplyClusterList, Selected, Loops, TypeOK, WorkerShape
    <3>2. loop' = [loop EXCEPT ![w] = l] /\ pc' = [pc EXCEPT ![w] = "apply"] /\ UNCHANGED obj
      BY <1>1, <2>1 DEF ApplyClusterList, StartLoop, Goto
    <3>3. "apply" \in PCs /\ pc[w] # "idle"
      BY <1>1 DEF PCs, ApplyClusterList
    <3> HIDE DEF l
    <3>4. /\ loop' \in [Workers -> Loops] /\ pc' \in [Workers -> PCs]
          /\ \A v \in Workers : WorkerShape(v)'
      BY <1>1, <2>1, <3>1, <3>2, <3>3, LoopStepType DEF ApplyClusterList
    <3> QED BY <1>1, <2>1, <3>4 DEF ApplyClusterList, TypeOK, store, queue, world
  <2>2. CASE ~obj[w].spec.selValid
    BY <1>1, <2>2, ReturnType DEF ApplyClusterList, TypeOK, store, queue, world
  <2> QED BY <2>1, <2>2
<1>2. CASE ApplyClusterClient(w)
  <2>1. pc[w] = "apply" /\ src[w] # None /\ loop[w].cur = None /\ loop[w] \in Loops
    BY <1>2 DEF ApplyClusterClient, TypeOK, WorkerShape
  <2>2. CASE Goto(w, "checkList") /\ UNCHANGED <<auth, src, loop, ret>>
    BY <1>2, <2>1, <2>2 DEF ApplyClusterClient, Goto, TypeOK, WorkerShape, PCs, store, queue, world
  <2>3. CASE Return(w, "panic")
    BY <1>2, <2>3, ReturnType DEF ApplyClusterClient, TypeOK, store, queue, world
  <2>4. ASSUME NEW c \in loop[w].todo, UNCHANGED <<pc, auth, src, ret>>,
               (Skip(w, c) \/ (Enter(w, c) /\ Emitted(w) # <<>>))
        PROVE  TypeOK'
    <3>1. PICK l \in Loops : /\ loop' = [loop EXCEPT ![w] = l]
                             /\ l.cur # None => l.idx \in 1..Len(Emitted(w))
      <4>1. CASE Skip(w, c)
        <5>1. [loop[w] EXCEPT !.todo = @ \ {c}] \in Loops
          BY <2>1 DEF Loops
        <5> QED BY <2>1, <4>1, <5>1 DEF Skip, TypeOK, Loops
      <4>2. CASE Enter(w, c) /\ Emitted(w) # <<>>
        <5>1. [loop[w] EXCEPT !.todo = @ \ {c}, !.cur = c, !.idx = 1] \in Loops
          BY <2>1 DEF Loops
        <5>2. 1 \in 1..Len(Emitted(w))
          BY <2>1, <4>2, EmittedTypes
        <5> QED BY <2>1, <4>2, <5>1, <5>2 DEF Enter, TypeOK, Loops
      <4> QED BY <2>4, <4>1, <4>2
    <3>2. pc' = [pc EXCEPT ![w] = "apply"] /\ "apply" \in PCs
      BY <2>1, <2>4 DEF TypeOK, PCs
    <3>3. /\ loop' \in [Workers -> Loops] /\ pc' \in [Workers -> PCs]
          /\ \A v \in Workers : WorkerShape(v)'
      BY <1>2, <2>1, <2>4, <3>1, <3>2, LoopStepType DEF ApplyClusterClient
    <3> QED BY <1>2, <2>4, <3>3 DEF ApplyClusterClient, TypeOK, store, queue, world
  <2>5. ASSUME NEW c \in loop[w].todo, UNCHANGED <<pc, auth, src, ret>>, Skip(w, c)
        PROVE  TypeOK'
    BY <2>4, <2>5
  <2>6. ASSUME NEW c \in loop[w].todo, UNCHANGED <<pc, auth, src, ret>>,
               Enter(w, c), Emitted(w) # <<>>
        PROVE  TypeOK'
    BY <2>4, <2>6
  <2> QED BY <1>2, <2>2, <2>3, <2>5, <2>6, Zenon DEF ApplyClusterClient
<1>3. CASE ApplyResource(w)
  <2>1. loop[w].cur # None /\ pc[w] = "apply"
    BY <1>3 DEF ApplyResource
  <2>2. deployed' \in [Clusters -> [Resources -> Content \cup {None}]]
    BY <1>3, <2>1, AdvancedType, EmittedTypes DEF ApplyResource, TypeOK
  <2>3. loop' = [loop EXCEPT ![w] = Advanced(w)] /\ pc' = [pc EXCEPT ![w] = "apply"]
    BY <1>3, <2>1 DEF ApplyResource, TypeOK
  <2>4. "apply" \in PCs
    BY DEF PCs
  <2>5. /\ loop' \in [Workers -> Loops] /\ pc' \in [Workers -> PCs]
        /\ \A v \in Workers : WorkerShape(v)'
    BY <1>3, <2>1, <2>3, <2>4, AdvancedType, LoopStepType DEF ApplyResource
  <2> QED BY <1>3, <2>2, <2>5 DEF ApplyResource, TypeOK, store, queue, world
<1>4. CASE ApplyResourceFails(w)
  <2>1. loop[w].cur # None /\ pc[w] = "apply"
    BY <1>4 DEF ApplyResourceFails
  <2>2. deployed' \in [Clusters -> [Resources -> Content \cup {None}]]
    <3>1. \/ UNCHANGED deployed
          \/ deployed' = [deployed EXCEPT ![loop[w].cur][Emitted(w)[loop[w].idx]] = src[w]]
      BY <1>4 DEF ApplyResourceFails
    <3>2. /\ loop[w].cur \in Clusters /\ Emitted(w)[loop[w].idx] \in Resources
          /\ src[w] \in Content
      BY <2>1, AdvancedType, EmittedTypes
    <3>3. deployed \in [Clusters -> [Resources -> Content \cup {None}]]
      BY DEF TypeOK
    <3> QED BY <3>1, <3>2, <3>3
  <2>3. left' \in [Kinds -> Nat]
    BY <1>4 DEF ApplyResourceFails, Spend, TypeOK
  <2> DEFINE l == [loop[w] EXCEPT !.cur = None, !.idx = 0]
  <2>4. l \in Loops /\ l.cur = None /\ loop' = [loop EXCEPT ![w] = l]
    BY <1>4, <2>1, AdvancedType DEF ApplyResourceFails, Loops, TypeOK
  <2>5. pc' = [pc EXCEPT ![w] = "apply"] /\ "apply" \in PCs
    BY <1>4, <2>1 DEF ApplyResourceFails, TypeOK, PCs
  <2> HIDE DEF l
  <2>6. /\ loop' \in [Workers -> Loops] /\ pc' \in [Workers -> PCs]
        /\ \A v \in Workers : WorkerShape(v)'
    <3>1. src[w] # None /\ UNCHANGED <<key, src, obj>>
      BY <1>4, <2>1, AdvancedType DEF ApplyResourceFails
    <3> QED BY <2>1, <2>4, <2>5, <3>1, LoopStepType
  <2> QED BY <1>4, <2>2, <2>3, <2>6 DEF ApplyResourceFails, TypeOK, store, queue, world
<1> QED BY <1>1, <1>2, <1>3, <1>4

LEMMA CheckType ==
  ASSUME TypeOK, NEW w \in Workers,
         CheckClusterList(w) \/ CheckClusterClient(w) \/ CheckResource(w)
  PROVE  TypeOK'
<1>1. CASE CheckClusterList(w)
  <2> DEFINE l == [items |-> Selected(w), todo |-> Selected(w),
                   cur |-> None, idx |-> 0, missing |-> FALSE]
  <2>1. l \in Loops /\ l.cur = None /\ src[w] # None
    BY <1>1 DEF CheckClusterList, Selected, Loops, TypeOK, WorkerShape
  <2>2. loop' = [loop EXCEPT ![w] = l] /\ pc' = [pc EXCEPT ![w] = "check"]
    BY <1>1 DEF CheckClusterList, StartLoop, Goto
  <2>3. "check" \in PCs /\ pc[w] # "idle"
    BY <1>1 DEF PCs, CheckClusterList
  <2> HIDE DEF l
  <2>4. /\ loop' \in [Workers -> Loops] /\ pc' \in [Workers -> PCs]
        /\ \A v \in Workers : WorkerShape(v)'
    BY <1>1, <2>1, <2>2, <2>3, LoopStepType DEF CheckClusterList
  <2> QED BY <1>1, <2>4 DEF CheckClusterList, TypeOK, store, queue, world
<1>2. CASE CheckClusterClient(w)
  <2>1. pc[w] = "check" /\ src[w] # None /\ loop[w].cur = None /\ loop[w] \in Loops
        /\ obj[w] \in Object
    BY <1>2, BusyTypes DEF CheckClusterClient, TypeOK, WorkerShape
  <2>2. CASE /\ IF loop[w].missing THEN UNCHANGED obj ELSE SetCondition(w, "ready", "True")
             /\ Goto(w, "status")
             /\ UNCHANGED <<auth, src, loop, ret>>
    <3>1. /\ obj' \in [Workers -> Object \cup {None}] /\ obj'[w] \in Object
          /\ \A v \in Workers \ {w} : obj'[v] = obj[v]
      <4>1. CASE UNCHANGED obj
        BY <2>1, <4>1 DEF TypeOK
      <4> QED BY <2>1, <2>2, <4>1, SetConditionType
    <3>2. "status" \in PCs /\ pc' = [pc EXCEPT ![w] = "status"] /\ UNCHANGED <<auth, src, loop, ret>>
      BY <2>2 DEF Goto, PCs
    <3>3. UNCHANGED <<store, cache, queue, world, deployed, dirs, key, left>>
      BY <1>2 DEF CheckClusterClient
    <3>4. \A v \in Workers : WorkerShape(v)'
      BY <2>1, <3>1, <3>2, <3>3, NoneIsNoValue DEF TypeOK, WorkerShape
    <3> QED BY <3>1, <3>2, <3>3, <3>4 DEF TypeOK, store, queue, world
  <2>3. ASSUME NEW err \in {"nil", "err", "panic"}, Return(w, err), UNCHANGED obj
        PROVE  TypeOK'
    BY <1>2, <2>1, <2>3, ReturnType DEF CheckClusterClient, TypeOK, store, queue, world
  <2>4. ASSUME NEW c \in loop[w].todo, UNCHANGED <<pc, auth, src, ret, obj>>,
               (Skip(w, c) \/ (Enter(w, c) /\ Emitted(w) # <<>>))
        PROVE  TypeOK'
    <3>1. PICK l \in Loops : /\ loop' = [loop EXCEPT ![w] = l]
                             /\ l.cur # None => l.idx \in 1..Len(Emitted(w))
      <4>1. CASE Skip(w, c)
        <5>1. [loop[w] EXCEPT !.todo = @ \ {c}] \in Loops
          BY <2>1 DEF Loops
        <5> QED BY <2>1, <4>1, <5>1 DEF Skip, TypeOK, Loops
      <4>2. CASE Enter(w, c) /\ Emitted(w) # <<>>
        <5>1. [loop[w] EXCEPT !.todo = @ \ {c}, !.cur = c, !.idx = 1] \in Loops
          BY <2>1 DEF Loops
        <5>2. 1 \in 1..Len(Emitted(w))
          BY <2>1, <4>2, EmittedTypes
        <5> QED BY <2>1, <4>2, <5>1, <5>2 DEF Enter, TypeOK, Loops
      <4> QED BY <2>4, <4>1, <4>2
    <3>2. pc' = [pc EXCEPT ![w] = "check"] /\ "check" \in PCs
      BY <2>1, <2>4 DEF TypeOK, PCs
    <3>3. /\ loop' \in [Workers -> Loops] /\ pc' \in [Workers -> PCs]
          /\ \A v \in Workers : WorkerShape(v)'
      BY <1>2, <2>1, <2>4, <3>1, <3>2, LoopStepType DEF CheckClusterClient
    <3> QED BY <1>2, <2>4, <3>3 DEF CheckClusterClient, TypeOK, store, queue, world
  <2>5. ASSUME NEW c \in loop[w].todo, UNCHANGED <<pc, auth, src, ret>>, Skip(w, c), UNCHANGED obj
        PROVE  TypeOK'
    BY <2>4, <2>5
  <2>6. ASSUME NEW c \in loop[w].todo, UNCHANGED <<pc, auth, src, ret>>,
               Enter(w, c), Emitted(w) # <<>>, UNCHANGED obj
        PROVE  TypeOK'
    BY <2>4, <2>6
  <2>7. /\ Return(w, "err") /\ UNCHANGED obj => TypeOK'
        /\ Return(w, "panic") /\ UNCHANGED obj => TypeOK'
    BY <2>3
  <2> QED BY <1>2, <2>2, <2>5, <2>6, <2>7, Zenon DEF CheckClusterClient
<1>3. CASE CheckResource(w)
  <2>1. loop[w].cur # None /\ pc[w] = "check"
    BY <1>3 DEF CheckResource
  <2>2. CASE Spend("fault") /\ Return(w, "err")
    <3>1. left' \in [Kinds -> Nat]
      BY <2>2, SpendType DEF Kinds
    <3> QED BY <1>3, <2>1, <2>2, <3>1, ReturnType DEF CheckResource, TypeOK, store, queue, world
  <2>3. CASE ~(Spend("fault") /\ Return(w, "err"))
    <3> DEFINE l == [Advanced(w) EXCEPT !.missing =
                       Missing(w, loop[w].cur, Emitted(w)[loop[w].idx])]
    <3>1. loop' = [loop EXCEPT ![w] = l] /\ UNCHANGED <<pc, auth, src, ret, left>>
      BY <1>3, <2>3 DEF CheckResource
    <3>2. Missing(w, loop[w].cur, Emitted(w)[loop[w].idx]) \in BOOLEAN
      BY DEF Missing
    <3>3. l \in Loops /\ l.cur = Advanced(w).cur /\ l.idx = Advanced(w).idx
      BY <2>1, <3>2, AdvancedType DEF Loops
    <3>4. pc' = [pc EXCEPT ![w] = "check"] /\ "check" \in PCs
      BY <2>1, <3>1 DEF TypeOK, PCs
    <3>5. UNCHANGED <<key, obj>>
      BY <1>3 DEF CheckResource
    <3> HIDE DEF l
    <3>6. /\ loop' \in [Workers -> Loops] /\ pc' \in [Workers -> PCs]
          /\ \A v \in Workers : WorkerShape(v)'
      <4>1. src[w] # None /\ l.cur # None => l.idx \in 1..Len(Emitted(w))
        BY <2>1, <3>3, AdvancedType
      <4>2. src[w] # None /\ UNCHANGED src /\ pc[w] # "idle"
        BY <2>1, <3>1, AdvancedType
      <4> QED BY <3>1, <3>3, <3>4, <3>5, <4>1, <4>2, LoopStepType
    <3> QED BY <1>3, <3>1, <3>6 DEF CheckResource, TypeOK, store, queue, world
  <2> QED BY <2>2, <2>3
<1> QED BY <1>1, <1>2, <1>3

LEMMA FinishType ==
  ASSUME TypeOK, NEW w \in Workers,
         StatusUpdate(w) \/ StatusUpdateFails(w) \/ Cleanup(w) \/ CleanupFails(w)
  PROVE  TypeOK'
<1>1. CASE StatusUpdate(w)
  <2>1. pc[w] = "status" /\ key[w] \in Proxies /\ obj[w] \in Object
    BY <1>1, BusyTypes DEF StatusUpdate
  <2>2. api[key[w]] \in Object /\ nextRv[key[w]] \in Nat
    BY <1>1, <2>1 DEF StatusUpdate, Storable, TypeOK
  <2>3. Stored(w) \in Object
    BY <2>1, <2>2 DEF Stored, Object
  <2>4. api' \in [Proxies -> Object \cup {None}] /\ nextRv' \in [Proxies -> Nat]
    BY <1>1, <2>1, <2>2, <2>3 DEF StatusUpdate, TypeOK
  <2>5. left' \in [Kinds -> Nat]
    BY <1>1, SpendType DEF StatusUpdate, Kinds, TypeOK
  <2>6. \E err \in {"nil", "err", "panic"} : Return(w, err)
    BY <1>1 DEF StatusUpdate
  <2>7. UNCHANGED <<cache, queue, world, deployed, dirs, key, obj>>
    BY <1>1 DEF StatusUpdate
  <2> QED BY <2>1, <2>4, <2>5, <2>6, <2>7, ReturnType DEF TypeOK, queue, world
<1>2. CASE StatusUpdateFails(w)
  <2>1. left' \in [Kinds -> Nat]
    BY <1>2, SpendType DEF StatusUpdateFails, Kinds, TypeOK
  <2> QED BY <1>2, <2>1, ReturnType DEF StatusUpdateFails, TypeOK, store, queue, world
<1>3. ASSUME pc[w] = "cleanup", NEW err, Release(w, err)
      PROVE  /\ pc' \in [Workers -> PCs] /\ key' \in [Workers -> Proxies \cup {None}]
             /\ obj' \in [Workers -> Object \cup {None}]
             /\ ret' \in [Workers -> {"nil", "err", "panic"}] /\ delayed' \subseteq Proxies
             /\ UNCHANGED <<src, loop>> => \A v \in Workers : WorkerShape(v)'
  <2>1. key[w] \in Proxies
    BY <1>3, BusyTypes
  <2> QED BY <1>3, <2>1, NoneIsNoValue DEF Release, TypeOK, WorkerShape, PCs
<1>4. CASE Cleanup(w)
  <2>1. dirs' \in [Directories -> Content \cup {None}]
    BY <1>4, WithoutType DEF Cleanup
  <2> QED BY <1>3, <1>4, <2>1 DEF Cleanup, TypeOK, store, world
<1>5. CASE CleanupFails(w)
  <2>1. left' \in [Kinds -> Nat]
    BY <1>5, SpendType DEF CleanupFails, Kinds
  <2>2. dirs' \in [Directories -> Content \cup {None}]
    BY <1>5, WithoutType DEF CleanupFails
  <2> QED BY <1>3, <1>5, <2>1, <2>2 DEF CleanupFails, TypeOK, store, world
<1> QED BY <1>1, <1>2, <1>4, <1>5

(* What the mapper returns are proxies.                                     *)
LEMMA MapperType ==
  ASSUME NEW c, NEW l, NEW mapped \in ClusterToCdk8sAppProxyMapper(c, l)
  PROVE  mapped \subseteq Proxies
BY DEF ClusterToCdk8sAppProxyMapper, Listed

LEMMA EnvironmentType ==
  ASSUME TypeOK, Environment
  PROVE  TypeOK'
<1> USE DEF Kinds
<1>1. ASSUME NEW p \in Proxies, NEW s \in ProxySpecs[p], CreateProxy(p, s) \/ UpdateProxy(p, s)
      PROVE  TypeOK'
  <2>1. s \in ProxySpec
    BY ProxyReconcilerConstants
  <2>2. PICK ready \in {"Unknown", "True", "False"}, available \in {"Unknown", "False"} :
          WriteSpec(p, s, ready, available)
    BY <1>1 DEF CreateProxy, UpdateProxy, TypeOK, Object
  <2>3. [spec |-> s, ready |-> ready, available |-> available, rv |-> nextRv[p]] \in Object
    BY <2>1 DEF Object, TypeOK
  <2>4. api' \in [Proxies -> Object \cup {None}] /\ nextRv' \in [Proxies -> Nat]
    BY <2>2, <2>3 DEF WriteSpec, TypeOK
  <2>5. left' \in [Kinds -> Nat]
    BY <2>2, SpendType DEF WriteSpec
  <2> QED BY <2>2, <2>4, <2>5 DEF WriteSpec, TypeOK, WorkerShape, queue, world, locals
<1>2. ASSUME NEW p \in Proxies, DeleteProxy(p)
      PROVE  TypeOK'
  <2>1. left' \in [Kinds -> Nat]
    BY <1>2, SpendType DEF DeleteProxy
  <2> QED BY <1>2, <2>1 DEF DeleteProxy, TypeOK, WorkerShape, queue, world, locals
<1>3. ASSUME NEW p \in Proxies, NEW s \in SecretStates, SetSecret(p, s)
      PROVE  TypeOK'
  <2>1. left' \in [Kinds -> Nat]
    BY <1>3, SpendType DEF SetSecret
  <2> QED BY <1>3, <2>1 DEF SetSecret, TypeOK, WorkerShape, store, queue, locals
<1>4. ASSUME NEW u \in Urls, NEW ref \in Refs, Push(u, ref)
      PROVE  TypeOK'
  <2>1. left' \in [Kinds -> Nat]
    BY <1>4, SpendType DEF Push
  <2>2. head' \in [Urls -> [Refs -> Nat]]
    BY <1>4 DEF Push, TypeOK
  <2> QED BY <1>4, <2>1, <2>2 DEF Push, TypeOK, WorkerShape, store, queue, locals
<1>5. ASSUME NEW c \in Clusters, NEW l \in Labels \cup {Gone}, ClusterEvent(c, l)
      PROVE  TypeOK'
  <2>1. left' \in [Kinds -> Nat]
    BY <1>5, SpendType DEF ClusterEvent
  <2>2. dirty' \subseteq Proxies
    BY <1>5, MapperType DEF ClusterEvent, TypeOK
  <2> QED BY <1>5, <2>1, <2>2 DEF ClusterEvent, TypeOK, WorkerShape, store, locals
<1>6. ASSUME NEW c \in Clusters, NEW k \in KubeStates, SetKube(c, k)
      PROVE  TypeOK'
  <2>1. left' \in [Kinds -> Nat]
    BY <1>6, SpendType DEF SetKube
  <2> QED BY <1>6, <2>1 DEF SetKube, TypeOK, WorkerShape, store, queue, locals
<1>7. ASSUME NEW c \in Clusters, NEW r \in Resources, Drift(c, r)
      PROVE  TypeOK'
  <2>1. left' \in [Kinds -> Nat]
    BY <1>7, SpendType DEF Drift
  <2>2. deployed' \in [Clusters -> [Resources -> Content \cup {None}]]
    BY <1>7 DEF Drift, TypeOK
  <2> QED BY <1>7, <2>1, <2>2 DEF Drift, TypeOK, WorkerShape, store, queue, world, locals
<1>8. ASSUME Crash
      PROVE  TypeOK'
  <2>1. left' \in [Kinds -> Nat]
    BY <1>8, SpendType DEF Crash
  <2>2. NoAuth \in [cred : Credentials \cup {"nil"}, hosts : KnownHosts] /\ NoLoop \in Loops
    BY DEF NoAuth, NoLoop, Loops, KnownHosts
  <2>3. \A w \in Workers : WorkerShape(w)'
    BY <1>8, NoneIsNoValue DEF Crash, WorkerShape, NoLoop
  <2> QED BY <1>8, <2>1, <2>2, <2>3 DEF Crash, TypeOK, PCs, store, world
<1> QED BY <1>1, <1>2, <1>3, <1>4, <1>5, <1>6, <1>7, <1>8 DEF Environment

LEMMA NextType == TypeOK /\ [Next]_vars => TypeOK'
<1> SUFFICES ASSUME TypeOK, [Next]_vars PROVE TypeOK'
  OBVIOUS
<1>1. CASE Manager
  <2>1. ASSUME NEW p \in Proxies, CacheSync(p) \/ Resync(p) \/ Backoff(p) \/ Take(p)
        PROVE  TypeOK'
    BY <2>1, QueueType, TakeType DEF Take
  <2>2. ASSUME NEW w \in Workers, WorkerStep(w)
        PROVE  TypeOK'
    BY <2>2, PrepareType, ApplyType, CheckType, FinishType DEF WorkerStep
  <2> QED BY <1>1, <2>1, <2>2 DEF Manager
<1>2. CASE Environment
  BY <1>2, EnvironmentType
<1>3. CASE UNCHANGED vars
  BY <1>3 DEF vars, TypeOK, WorkerShape
<1> QED BY <1>1, <1>2, <1>3 DEF Next

(* The type invariant, with the shape of the workers' locals: Reconcile     *)
(* never works on a nil object and never leaves the parsed resources.       *)
THEOREM TypeCorrect == Spec => []TypeOK
BY InitType, NextType, PTL DEF Spec
=============================================================================
