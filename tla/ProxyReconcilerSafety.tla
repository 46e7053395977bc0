------------------------ MODULE ProxyReconcilerSafety ------------------------
(***************************************************************************)
(* Isolation of the clones and freshness of what is deployed. Both rest on *)
(* one observation: from the clone on, a step of the system leaves a worker *)
(* the commit it holds or takes it away, and only Clone gives it a new one. *)
(***************************************************************************)
EXTENDS ProxyReconcilerProofs, SequenceTheorems

(* A step leaves worker v the commit it holds, or nothing.                  *)
Keeps(v) ==
  \/ pc'[v] # "synth" /\ src'[v] = None
  \/ /\ Held(v)' = Held(v) /\ key'[v] = key[v] /\ obj'[v].spec = obj[v].spec
     /\ pc'[v] = "synth" => pc[v] = "synth"

(* Of two workers that hold or may clone something, none removes the        *)
(* directory of the other.                                                  *)
LEMMA OwnDirectory ==
  ASSUME TypeOK, OneWorkerPerProxy, DirectoriesApart,
         NEW v \in Workers, NEW w \in Workers, v # w, pc[v] # "idle", pc[w] # "idle"
  PROVE  Dir(v) # Dir(w) /\ Dir(v) \notin Under(Dir(w))
<1>1. key[v] \in Proxies /\ key[w] \in Proxies /\ key[v] # key[w]
  BY BusyTypes, NoneIsNoValue DEF OneWorkerPerProxy
<1>2. obj[v].spec.git.ref \in Refs /\ obj[w].spec.git.ref \in Refs
  BY BusyTypes
<1>3. ~Within(Dir(v), Dir(w))
  BY <1>1, <1>2 DEF DirectoriesApart, Dir
<1> QED BY <1>3 DEF Under, Within

(* Steps that change no directory, no key and no spec.                      *)
LEMMA KeepsLocal ==
  ASSUME TypeOK, NEW w \in Workers, UNCHANGED <<key, dirs>>,
         \A v \in Workers \ {w} : pc'[v] = pc[v] /\ src'[v] = src[v] /\ obj'[v] = obj[v],
         obj'[w].spec = obj[w].spec, pc'[w] # "synth",
         src'[w] = None \/ (src'[w] = src[w] /\ pc[w] # "synth")
  PROVE  \A v \in Workers : Keeps(v)
BY DEF Keeps, Held, Dir

LEMMA KeepsReturn ==
  ASSUME TypeOK, NEW w \in Workers, UNCHANGED <<key, dirs>>, NEW err, Return(w, err),
         obj'[w].spec = obj[w].spec, \A v \in Workers \ {w} : obj'[v] = obj[v]
  PROVE  \A v \in Workers : Keeps(v)
<1>1. pc'[w] # "synth" /\ src'[w] = None
  BY DEF Return, TypeOK
<1>2. \A v \in Workers \ {w} : pc'[v] = pc[v] /\ src'[v] = src[v] /\ obj'[v] = obj[v]
  BY DEF Return, TypeOK
<1> QED BY <1>1, <1>2, KeepsLocal

(* Steps outside the workers.                                               *)
LEMMA KeepsOutside ==
  ASSUME UNCHANGED <<pc, key, obj, src, dirs>>
  PROVE  \A v \in Workers : Keeps(v)
BY DEF Keeps, Held, Dir

(* What the steps between the clone's neighbours and the status update have *)
(* in common: a return or a jump, no change of a directory or a key.        *)
LocalStep(w) ==
  /\ pc[w] \notin {"idle", "cleanup"}
  /\ key' = key /\ dirs' = dirs
  /\ \/ obj' = obj
     \/ SetCondition(w, "ready", "True") \/ SetCondition(w, "ready", "False")
     \/ SetCondition(w, "available", "False")
  /\ \/ \E err \in {"nil", "err", "panic"} : Return(w, err)
     \/ /\ src' = src /\ pc[w] # "synth"
        /\ pc' = pc \/ (\E to \in PCs \ {"idle", "synth"} : Goto(w, to))

LEMMA WorkIsLocal ==
  ASSUME NEW w \in Workers,
         \/ ReadSecret(w) \/ ReadKnownHosts(w) \/ CheckRepository(w) \/ CloneFails(w) \/ SynthesizeFails(w)
         \/ ApplyClusterList(w) \/ ApplyClusterClient(w)
         \/ ApplyResource(w) \/ ApplyResourceFails(w)
         \/ CheckClusterList(w) \/ CheckClusterClient(w) \/ CheckResource(w)
         \/ StatusUpdate(w) \/ StatusUpdateFails(w)
  PROVE  LocalStep(w)
<1> USE DEF LocalStep, PCs
<1>1. CASE ReadSecret(w) \/ ReadKnownHosts(w)
  BY <1>1 DEF ReadSecret, ReadKnownHosts
<1>2. CASE CheckRepository(w)
  BY <1>2 DEF CheckRepository
<1>3. CASE CloneFails(w)
  BY <1>3 DEF CloneFails
<1>4. CASE SynthesizeFails(w)
  BY <1>4 DEF SynthesizeFails
<1>5. CASE ApplyClusterList(w)
  BY <1>5 DEF ApplyClusterList
<1>6. CASE ApplyClusterClient(w)
  BY <1>6 DEF ApplyClusterClient
<1>7. CASE ApplyResource(w)
  BY <1>7 DEF ApplyResource
<1>8. CASE ApplyResourceFails(w)
  BY <1>8 DEF ApplyResourceFails
<1>9. CASE CheckClusterList(w)
  BY <1>9 DEF CheckClusterList
<1>10. CASE CheckClusterClient(w)
  BY <1>10 DEF CheckClusterClient
<1>11. CASE CheckResource(w)
  BY <1>11 DEF CheckResource
<1>12. CASE StatusUpdate(w)
  BY <1>12 DEF StatusUpdate
<1>13. CASE StatusUpdateFails(w)
  BY <1>13 DEF StatusUpdateFails
<1> QED BY <1>1, <1>2, <1>3, <1>4, <1>5, <1>6, <1>7, <1>8, <1>9, <1>10, <1>11, <1>12, <1>13

LEMMA KeepsWork ==
  ASSUME TypeOK, NEW w \in Workers, LocalStep(w)
  PROVE  \A v \in Workers : Keeps(v)
<1>1. obj[w] \in Object
  BY BusyTypes DEF LocalStep
<1>2. obj'[w].spec = obj[w].spec /\ (\A v \in Workers \ {w} : obj'[v] = obj[v])
  BY <1>1, SetConditionType DEF LocalStep
<1>3. CASE \E err \in {"nil", "err", "panic"} : Return(w, err)
  BY <1>2, <1>3, KeepsReturn DEF LocalStep
<1>4. CASE /\ src' = src /\ pc[w] # "synth"
           /\ pc' = pc \/ (\E to \in PCs \ {"idle", "synth"} : Goto(w, to))
  <2>1. pc'[w] # "synth" /\ (\A v \in Workers \ {w} : pc'[v] = pc[v])
    BY <1>4 DEF Goto, TypeOK
  <2> QED BY <1>2, <1>4, <2>1, KeepsLocal DEF LocalStep
<1> QED BY <1>3, <1>4 DEF LocalStep

LEMMA KeepsTake ==
  ASSUME TypeOK, NEW w \in Workers, NEW p \in Proxies, Get(w, p)
  PROVE  \A v \in Workers : Keeps(v)
<1>1. src[w] = None /\ src' = src /\ dirs' = dirs
  BY DEF Get, TypeOK, WorkerShape
<1>2. /\ pc'[w] = "secret"
      /\ \A v \in Workers \ {w} : pc'[v] = pc[v] /\ key'[v] = key[v] /\ obj'[v] = obj[v]
  BY DEF Get, Goto, TypeOK
<1> QED BY <1>1, <1>2 DEF Keeps, Held, Dir

LEMMA KeepsSynthesize ==
  ASSUME TypeOK, NEW w \in Workers, Synthesize(w)
  PROVE  \A v \in Workers : Keeps(v)
<1>1. /\ pc[w] = "synth" /\ pc'[w] = "applyList" /\ src'[w] = dirs[Dir(w)]
      /\ UNCHANGED <<dirs, key, obj>>
      /\ \A v \in Workers \ {w} : pc'[v] = pc[v] /\ src'[v] = src[v]
  BY DEF Synthesize, Goto, TypeOK
<1> QED BY <1>1 DEF Keeps, Held, Dir

LEMMA KeepsCleanup ==
  ASSUME TypeOK, OneWorkerPerProxy, DirectoriesApart,
         NEW w \in Workers, Cleanup(w) \/ CleanupFails(w)
  PROVE  \A v \in Workers : Keeps(v)
<1>1. pc[w] = "cleanup" /\ src' = src /\ src[w] = None
  BY DEF Cleanup, CleanupFails, TypeOK, WorkerShape
<1>2. /\ pc'[w] = "idle"
      /\ \A v \in Workers \ {w} : pc'[v] = pc[v] /\ key'[v] = key[v] /\ obj'[v] = obj[v]
  BY DEF Cleanup, CleanupFails, Release, TypeOK
<1>3. PICK gone \in SUBSET Under(Dir(w)) : dirs' = Without(gone)
  BY DEF Cleanup, CleanupFails
<1>4. \A v \in Workers \ {w} : pc[v] = "synth" => dirs'[Dir(v)] = dirs[Dir(v)]
  <2> SUFFICES ASSUME NEW v \in Workers \ {w}, pc[v] = "synth"
               PROVE  dirs'[Dir(v)] = dirs[Dir(v)]
    OBVIOUS
  <2>1. Dir(v) \notin Under(Dir(w)) /\ Dir(v) \in Directories
    BY <1>1, OwnDirectory, BusyTypes
  <2> QED BY <1>3, <2>1, WithoutType
<1> QED BY <1>1, <1>2, <1>4 DEF Keeps, Held, Dir

(* Every step but a clone leaves all workers what they hold, or nothing.    *)
LEMMA KeepsStep ==
  ASSUME TypeOK, OneWorkerPerProxy, DirectoriesApart, [Next]_vars,
         \A w \in Workers : ~Clone(w)
  PROVE  \A v \in Workers : Keeps(v)
<1>1. ASSUME NEW p \in Proxies, CacheSync(p) \/ Resync(p) \/ Backoff(p)
      PROVE  \A v \in Workers : Keeps(v)
  BY <1>1, KeepsOutside DEF CacheSync, Resync, Backoff, locals
<1>2. ASSUME NEW p \in Proxies, Take(p)
      PROVE  \A v \in Workers : Keeps(v)
  <2>1. ASSUME NEW w \in Workers, GetNotFound(w, p)
        PROVE  \A v \in Workers : Keeps(v)
    BY <2>1, KeepsOutside DEF GetNotFound, locals
  <2> QED BY <1>2, <2>1, KeepsTake DEF Take
<1>3. ASSUME NEW w \in Workers, WorkerStep(w)
      PROVE  \A v \in Workers : Keeps(v)
  BY <1>3, WorkIsLocal, KeepsWork, KeepsSynthesize, KeepsCleanup DEF WorkerStep
<1>4. CASE Crash
  BY <1>4 DEF Crash, Keeps
<1>5. CASE Environment /\ ~Crash
  <2>1. UNCHANGED <<pc, key, obj, src, dirs>>
    BY <1>5 DEF Environment, CreateProxy, UpdateProxy, WriteSpec, DeleteProxy, SetSecret, Push,
                ClusterEvent, SetKube, Drift, locals
  <2> QED BY <2>1, KeepsOutside
<1>6. CASE UNCHANGED vars
  BY <1>6, KeepsOutside DEF vars
<1> QED BY <1>1, <1>2, <1>3, <1>4, <1>5, <1>6 DEF Next, Manager

(* A clone gives one worker the newest commit of its branch.                *)
LEMMA KeepsClone ==
  ASSUME TypeOK, OneWorkerPerProxy, DirectoriesApart, NEW w \in Workers, Clone(w)
  PROVE  /\ \A v \in Workers \ {w} : Keeps(v)
         /\ UNCHANGED <<key, obj, deployed, head, api, cache>> /\ pc'[w] = "synth"
         /\ Held(w)' = [url |-> Url(w), ref |-> obj[w].spec.git.ref, rev |-> BranchHead(w)]
<1>1. /\ pc[w] = "clone" /\ UNCHANGED <<key, obj, src, deployed, head, api, cache>>
      /\ pc' = [pc EXCEPT ![w] = "synth"]
      /\ dirs' = [dirs EXCEPT ![Dir(w)] = [url |-> Url(w), ref |-> obj[w].spec.git.ref,
                                           rev |-> BranchHead(w)]]
  BY DEF Clone, Goto, locals, world, store
<1>2. pc'[w] = "synth" /\ (\A v \in Workers \ {w} : pc'[v] = pc[v])
  BY <1>1 DEF TypeOK
<1>3. \A v \in Workers \ {w} : pc[v] = "synth" => dirs'[Dir(v)] = dirs[Dir(v)]
  <2> SUFFICES ASSUME NEW v \in Workers \ {w}, pc[v] = "synth"
               PROVE  dirs'[Dir(v)] = dirs[Dir(v)]
    OBVIOUS
  <2>1. Dir(v) # Dir(w) /\ Dir(v) \in Directories
    BY <1>1, OwnDirectory, BusyTypes
  <2> QED BY <1>1, <2>1 DEF TypeOK
<1>4. Held(w)' = [url |-> Url(w), ref |-> obj[w].spec.git.ref, rev |-> BranchHead(w)]
  <2>1. Dir(w) \in Directories
    BY <1>1, BusyTypes
  <2> QED BY <1>1, <1>2, <2>1 DEF Held, Dir, TypeOK
<1>5. \A v \in Workers \ {w} : Keeps(v)
  BY <1>1, <1>2, <1>3 DEF Keeps, Held, Dir
<1> QED BY <1>1, <1>2, <1>4, <1>5

-----------------------------------------------------------------------------
(* The work queue hands a key to one worker.                                *)
LEMMA OneWorkerStep ==
  ASSUME TypeOK, OneWorkerPerProxy, [Next]_vars
  PROVE  OneWorkerPerProxy'
<1>1. CASE UNCHANGED key
  BY <1>1 DEF OneWorkerPerProxy
<1>2. ASSUME NEW w \in Workers, NEW p \in Proxies, Get(w, p)
      PROVE  OneWorkerPerProxy'
  <2>1. key' = [key EXCEPT ![w] = p] /\ p \notin Processing
    BY <1>2 DEF Get
  <2>2. \A v \in Workers : key[v] # p
    BY <2>1, NoneIsNoValue DEF Processing, TypeOK, WorkerShape
  <2> QED BY <2>1, <2>2 DEF OneWorkerPerProxy, TypeOK
<1>3. ASSUME NEW w \in Workers, NEW err, Release(w, err)
      PROVE  OneWorkerPerProxy'
  <2>1. key' = [key EXCEPT ![w] = None]
    BY <1>3 DEF Release
  <2> QED BY <2>1 DEF OneWorkerPerProxy, TypeOK
<1>4. CASE Crash
  BY <1>4 DEF Crash, OneWorkerPerProxy
<1>5. ASSUME NEW w \in Workers, WorkerStep(w)
      PROVE  OneWorkerPerProxy'
  <2>1. CASE Cleanup(w) \/ CleanupFails(w)
    BY <1>3, <2>1 DEF Cleanup, CleanupFails
  <2>2. CASE Clone(w) \/ Synthesize(w)
    BY <1>1, <2>2 DEF Clone, Synthesize
  <2> QED BY <1>1, <1>5, <2>1, <2>2, WorkIsLocal DEF WorkerStep, LocalStep
<1>6. ASSUME NEW p \in Proxies, CacheSync(p) \/ Resync(p) \/ Backoff(p) \/ Take(p)
      PROVE  OneWorkerPerProxy'
  <2>1. ASSUME NEW w \in Workers, GetNotFound(w, p)
        PROVE  UNCHANGED key
    BY <2>1 DEF GetNotFound
  <2>2. CASE CacheSync(p) \/ Resync(p) \/ Backoff(p)
    BY <1>1, <2>2 DEF CacheSync, Resync, Backoff
  <2> QED BY <1>1, <1>2, <1>6, <2>1, <2>2 DEF Take
<1>7. CASE Environment /\ ~Crash
  <2>1. UNCHANGED key
    BY <1>7 DEF Environment, CreateProxy, UpdateProxy, WriteSpec, DeleteProxy, SetSecret, Push,
                ClusterEvent, SetKube, Drift
  <2> QED BY <1>1, <2>1
<1>8. CASE UNCHANGED vars
  BY <1>1, <1>8 DEF vars
<1> QED BY <1>4, <1>5, <1>6, <1>7, <1>8 DEF Next, Manager

LEMMA IsolationStep ==
  ASSUME TypeOK, IsolationInv, DirectoriesApart, [Next]_vars
  PROVE  IsolationInv'
<1>1. OneWorkerPerProxy'
  BY OneWorkerStep DEF IsolationInv
<1>2. ASSUME NEW v \in Workers, Keeps(v)
      PROVE  /\ pc'[v] = "synth" => Held(v)' # None
             /\ Held(v)' # None => /\ Held(v)'.url = Url(v)'
                                 /\ Held(v)'.ref = obj'[v].spec.git.ref
  BY <1>2 DEF Keeps, IsolationInv, HoldsOwnSource, Held, Url
<1>3. CASE \A w \in Workers : ~Clone(w)
  BY <1>1, <1>2, <1>3, KeepsStep DEF IsolationInv, HoldsOwnSource
<1>4. ASSUME NEW w \in Workers, Clone(w)
      PROVE  IsolationInv'
  <2>1. /\ \A v \in Workers \ {w} : Keeps(v)
        /\ UNCHANGED obj
        /\ Held(w)' = [url |-> Url(w), ref |-> obj[w].spec.git.ref, rev |-> BranchHead(w)]
    BY <1>4, KeepsClone DEF IsolationInv
  <2>2. pc[w] # "idle"
    BY <1>4 DEF Clone
  <2>3. Held(w)' \in Content
    BY <2>1, <2>2, BusyTypes DEF Content
  <2>4. /\ Held(w)' # None
        /\ Held(w)'.url = Url(w)' /\ Held(w)'.ref = obj'[w].spec.git.ref
    BY <2>1, <2>3, NoneIsNoValue DEF Url
  <2> QED BY <1>1, <1>2, <2>1, <2>4 DEF IsolationInv, HoldsOwnSource
<1> QED BY <1>3, <1>4

LEMMA IsolationInit == Init => IsolationInv
BY DEF Init, IsolationInv, OneWorkerPerProxy, HoldsOwnSource, Held

(* Where no two proxies share a directory, no reconciliation ever works on  *)
(* a repository or branch other than its object's, whatever crashes and     *)
(* failed removals leave under /tmp.                                        *)
THEOREM IsolationCorrect == DirectoriesApart /\ Spec => []Isolation
<1> SUFFICES ASSUME DirectoriesApart PROVE Spec => []Isolation
  OBVIOUS
<1>1. TypeOK /\ IsolationInv /\ [Next]_vars => IsolationInv'
  BY IsolationStep
<1>2. TypeOK /\ IsolationInv => Isolation
  BY DEF TypeOK, WorkerShape, IsolationInv, HoldsOwnSource, Held, Isolation
<1> QED BY <1>1, <1>2, IsolationInit, TypeCorrect, PTL DEF Spec

(* The names of objects are sequences of dash-separated segments, and no two *)
(* objects have the same namespace and name.                                *)
KeysDistinct ==
  /\ \E S : /\ Namespace \in [Proxies -> Seq(S)] /\ Name \in [Proxies -> Seq(S)]
            /\ Refs \subseteq Seq(Seq(S)) \ {<<>>}
  /\ \A p, q \in Proxies : Namespace[p] = Namespace[q] /\ Name[p] = Name[q] => p = q

(* All namespaces have equally many dashes, and all names, as do those of   *)
(* proxies of one generator ("<generator>-pr-<number>"). References may have *)
(* any number of them.                                                      *)
DashesAgree ==
  \A p, q \in Proxies : Len(Namespace[p]) = Len(Namespace[q]) /\ Len(Name[p]) = Len(Name[q])

(* Two joined names of which the first halves are equally long are joined   *)
(* from the same halves.                                                    *)
LEMMA ConcatInjective ==
  ASSUME NEW S, NEW a \in Seq(S), NEW b \in Seq(S), NEW c \in Seq(S), NEW d \in Seq(S),
         Len(a) = Len(b), a \o c = b \o d
  PROVE  a = b /\ c = d
<1>1. a = b
  <2>1. ASSUME NEW i \in 1..Len(a) PROVE a[i] = b[i]
    <3>1. (a \o c)[i] = a[i] /\ (b \o d)[i] = b[i]
      BY ConcatProperties
    <3> QED BY <3>1
  <2> QED BY <2>1, SeqEqual
<1>2. a \o c = a \o d
  BY <1>1
<1>3. \A T : \A s, t, v \in Seq(T) : s \o t = s \o v => t = v
  BY ConcatSimplifications
<1>4. c = d
  BY <1>2, <1>3
<1> QED BY <1>1, <1>4

(* A directory below another one has its first component.                   *)
LEMMA WithinShares ==
  ASSUME NEW T, NEW a \in T, NEW b \in T, NEW s \in Seq(T), NEW t \in Seq(T),
         Within(<<a>> \o s, <<b>> \o t)
  PROVE  a = b
<1> DEFINE d == <<a>> \o s
           e == <<b>> \o t
<1>1. /\ d \in Seq(T) /\ e \in Seq(T) /\ d[1] = a /\ e[1] = b
      /\ Len(d) >= 1 /\ Len(e) >= 1
  OBVIOUS
<1>2. Within(d, e)
  OBVIOUS
<1> HIDE DEF d, e
<1>3. CASE d = e
  BY <1>1, <1>3
<1>4. CASE Len(e) < Len(d) /\ SubSeq(d, 1, Len(e)) = e
  <2>1. SubSeq(d, 1, Len(e))[1] = d[1]
    BY <1>1, <1>4
  <2> QED BY <1>1, <1>4, <2>1
<1> QED BY <1>2, <1>3, <1>4 DEF Within

(* What keeps the clones apart is not the names but where they are cut: if  *)
(* all are cut at the same dashes, no two proxies share a directory and     *)
(* none has its own below another's, be their branches called what they may *)
(* (the directory of Reconcile, joined from namespace, name and branch).    *)
THEOREM DashesKeepDirectoriesApart == KeysDistinct /\ DashesAgree => DirectoriesApart
<1> SUFFICES ASSUME KeysDistinct, DashesAgree,
                    NEW p \in Proxies, NEW q \in Proxies, NEW r1 \in Refs, NEW r2 \in Refs,
                    Within(Directory(p, r1), Directory(q, r2))
             PROVE  p = q
  BY DEF DirectoriesApart
<1>1. PICK S : /\ Namespace \in [Proxies -> Seq(S)] /\ Name \in [Proxies -> Seq(S)]
               /\ Refs \subseteq Seq(Seq(S)) \ {<<>>}
  BY DEF KeysDistinct
<1> DEFINE a == Namespace[p]   b == Namespace[q]
           c == Name[p]        d == Name[q]
           h1 == Head(r1)      h2 == Head(r2)
<1>2. a \in Seq(S) /\ b \in Seq(S) /\ c \in Seq(S) /\ d \in Seq(S)
      /\ r1 \in Seq(Seq(S)) \ {<<>>} /\ r2 \in Seq(Seq(S)) \ {<<>>}
      /\ h1 \in Seq(S) /\ h2 \in Seq(S)
  BY <1>1
<1>3. Len(a) = Len(b) /\ Len(c) = Len(d)
  BY DEF DashesAgree
<1>4. (a \o c) \o h1 = (b \o d) \o h2
  <2> DEFINE x == (a \o c) \o h1   y == (b \o d) \o h2
  <2>1. x \in Seq(S) /\ y \in Seq(S) /\ Tail(r1) \in Seq(Seq(S)) /\ Tail(r2) \in Seq(Seq(S))
    BY <1>2
  <2>2. Within(<<x>> \o Tail(r1), <<y>> \o Tail(r2))
    BY DEF Directory
  <2> HIDE DEF x, y
  <2>3. x = y
    BY <2>1, <2>2, WithinShares
  <2> QED BY <2>3 DEF x, y
<1>5. a = b /\ c = d => p = q
  BY DEF KeysDistinct
<1> HIDE DEF a, b, c, d, h1, h2
<1>6. /\ a \o c \in Seq(S) /\ b \o d \in Seq(S)
      /\ Len(a \o c) = Len(a) + Len(c) /\ Len(b \o d) = Len(b) + Len(d)
  BY <1>2, ConcatProperties
<1>7. a \o c = b \o d
  <2> DEFINE ac == a \o c   bd == b \o d
  <2>1. ac \in Seq(S) /\ bd \in Seq(S) /\ Len(ac) = Len(bd) /\ ac \o h1 = bd \o h2
    BY <1>3, <1>4, <1>6
  <2> HIDE DEF ac, bd
  <2>2. ac = bd
    BY <1>2, <2>1, ConcatInjective
  <2> QED BY <2>2 DEF ac, bd
<1>8. a = b /\ c = d
  BY <1>2, <1>3, <1>7, ConcatInjective
<1> QED BY <1>5, <1>8

(* Hence reconciliations are isolated for all objects whose names have      *)
(* equally many dashes, whatever their branches are called.                 *)
THEOREM IsolationOfPlainNames == KeysDistinct /\ DashesAgree /\ Spec => []Isolation
BY DashesKeepDirectoriesApart, IsolationCorrect

-----------------------------------------------------------------------------
LEMMA HeldType ==
  ASSUME TypeOK, NEW w \in Workers
  PROVE  Held(w) \in Content \cup {None}
BY BusyTypes DEF Held, TypeOK

LEMMA NewestType ==
  ASSUME TypeOK, NEW content \in Content
  PROVE  head[content.url][content.ref] \in Nat /\ content.rev \in Nat
BY DEF TypeOK, Content

(* Branches only grow.                                                      *)
LEMMA HeadGrows ==
  ASSUME TypeOK, [Next]_vars, NEW u \in Urls, NEW ref \in Refs
  PROVE  head[u][ref] <= head'[u][ref]
<1>1. head[u][ref] \in Nat
  BY DEF TypeOK
<1>2. CASE UNCHANGED head
  BY <1>1, <1>2
<1>3. ASSUME NEW b \in Urls, NEW r \in Refs, Push(b, r)
      PROVE  head[u][ref] <= head'[u][ref]
  <2>1. head' = [head EXCEPT ![b][r] = @ + 1] /\ head[b][r] \in Nat
    BY <1>3 DEF Push, TypeOK
  <2> QED BY <1>1, <2>1 DEF TypeOK
<1>4. CASE Manager
  <2>1. ASSUME NEW p \in Proxies, CacheSync(p) \/ Resync(p) \/ Backoff(p) \/ Take(p)
        PROVE  UNCHANGED head
    BY <2>1 DEF CacheSync, Resync, Backoff, Take, Get, GetNotFound, world
  <2>2. ASSUME NEW w \in Workers, WorkerStep(w)
        PROVE  UNCHANGED head
    <3>1. CASE \/ ReadSecret(w) \/ ReadKnownHosts(w) \/ CheckRepository(w) \/ Clone(w) \/ CloneFails(w)
               \/ Synthesize(w) \/ SynthesizeFails(w)
      BY <3>1 DEF ReadSecret, ReadKnownHosts, CheckRepository, Clone, CloneFails, Synthesize, SynthesizeFails, world
    <3>2. CASE \/ ApplyClusterList(w) \/ ApplyClusterClient(w) \/ ApplyResource(w)
               \/ ApplyResourceFails(w) \/ CheckClusterList(w)
      BY <3>2 DEF ApplyClusterList, ApplyClusterClient, ApplyResource, ApplyResourceFails,
                  CheckClusterList, world
    <3>3. CASE CheckClusterClient(w)
      BY <3>3 DEF CheckClusterClient, world
    <3>4. CASE \/ CheckResource(w) \/ StatusUpdate(w) \/ StatusUpdateFails(w)
               \/ Cleanup(w) \/ CleanupFails(w)
      BY <3>4 DEF CheckResource, StatusUpdate, StatusUpdateFails, Cleanup, CleanupFails, world
    <3> QED BY <2>2, <3>1, <3>2, <3>3, <3>4 DEF WorkerStep
  <2> QED BY <1>2, <1>4, <2>1, <2>2 DEF Manager
<1>5. CASE Environment
  <2>1. CASE \A b \in Urls, r \in Refs : ~Push(b, r)
    <3>1. UNCHANGED head
      BY <1>5, <2>1 DEF Environment, CreateProxy, UpdateProxy, WriteSpec, DeleteProxy, SetSecret,
                  ClusterEvent, SetKube, Drift, Crash, world
    <3> QED BY <1>2, <3>1
  <2> QED BY <1>3, <2>1
<1>6. CASE UNCHANGED vars
  BY <1>2, <1>6 DEF vars
<1> QED BY <1>4, <1>5, <1>6 DEF Next

(* A resource changes by an apply of what a worker holds, or disappears.    *)
Applies(w) == pc[w] = "apply" /\ pc' = pc /\ UNCHANGED <<obj, key, src, head, api, cache, dirs>>

LEMMA DeployedStep ==
  ASSUME TypeOK, [Next]_vars, NEW c \in Clusters, NEW r \in Resources,
         deployed'[c][r] # deployed[c][r], deployed'[c][r] # None
  PROVE  \E w \in Workers : /\ Applies(w)
                           /\ src[w] # None /\ deployed'[c][r] = src[w]
<1>1. ASSUME NEW w \in Workers, ApplyResource(w) \/ ApplyResourceFails(w)
      PROVE  Applies(w) /\ src[w] # None /\ deployed'[c][r] = src[w]
  <2>1. loop[w].cur # None /\ pc[w] = "apply"
    BY <1>1 DEF ApplyResource, ApplyResourceFails
  <2>2. /\ loop[w].cur \in Clusters /\ Emitted(w)[loop[w].idx] \in Resources
        /\ src[w] # None
    BY <2>1, AdvancedType
  <2>3. \/ UNCHANGED deployed
        \/ deployed' = [deployed EXCEPT ![loop[w].cur][Emitted(w)[loop[w].idx]] = src[w]]
    BY <1>1 DEF ApplyResource, ApplyResourceFails
  <2>4. deployed'[c][r] = src[w]
    <3>1. deployed \in [Clusters -> [Resources -> Content \cup {None}]]
      BY DEF TypeOK
    <3> QED BY <2>2, <2>3, <3>1
  <2>5. Applies(w)
    BY <1>1, <2>1 DEF ApplyResource, ApplyResourceFails, Applies, store, world
  <2> QED BY <2>2, <2>4, <2>5
<1>2. ASSUME NEW w \in Workers, WorkerStep(w), ~ApplyResource(w), ~ApplyResourceFails(w)
      PROVE  UNCHANGED deployed
  <2>1. CASE \/ ReadSecret(w) \/ ReadKnownHosts(w) \/ CheckRepository(w) \/ Clone(w) \/ CloneFails(w)
             \/ Synthesize(w) \/ SynthesizeFails(w)
    BY <2>1 DEF ReadSecret, ReadKnownHosts, CheckRepository, Clone, CloneFails, Synthesize, SynthesizeFails
  <2>2. CASE ApplyClusterList(w) \/ ApplyClusterClient(w) \/ CheckClusterList(w)
    BY <2>2 DEF ApplyClusterList, ApplyClusterClient, CheckClusterList
  <2>3. CASE CheckClusterClient(w)
    BY <2>3 DEF CheckClusterClient
  <2>4. CASE \/ CheckResource(w) \/ StatusUpdate(w) \/ StatusUpdateFails(w)
             \/ Cleanup(w) \/ CleanupFails(w)
    BY <2>4 DEF CheckResource, StatusUpdate, StatusUpdateFails, Cleanup, CleanupFails
  <2> QED BY <1>2, <2>1, <2>2, <2>3, <2>4 DEF WorkerStep
<1>3. ASSUME NEW p \in Proxies, CacheSync(p) \/ Resync(p) \/ Backoff(p) \/ Take(p)
      PROVE  UNCHANGED deployed
  BY <1>3 DEF CacheSync, Resync, Backoff, Take, Get, GetNotFound
<1>4. CASE Environment
  <2>1. ASSUME NEW b \in Clusters, NEW q \in Resources, Drift(b, q)
        PROVE  FALSE
    <3>1. deployed' = [deployed EXCEPT ![b][q] = None]
      BY <2>1 DEF Drift
    <3> QED BY <3>1 DEF TypeOK
  <2>2. CASE \A b \in Clusters, q \in Resources : ~Drift(b, q)
    BY <1>4, <2>2 DEF Environment, CreateProxy, UpdateProxy, WriteSpec, DeleteProxy, SetSecret,
                Push, ClusterEvent, SetKube, Crash
  <2> QED BY <2>1, <2>2
<1>5. ~UNCHANGED vars
  BY DEF vars
<1> QED BY <1>1, <1>2, <1>3, <1>4, <1>5 DEF Next, Manager

LEMMA KnownSpecsStep ==
  ASSUME TypeOK, KnownSpecs, [Next]_vars
  PROVE  KnownSpecs'
<1>1. CASE UNCHANGED <<api, cache, obj, key>>
  BY <1>1 DEF KnownSpecs
<1>2. ASSUME NEW w \in Workers, LocalStep(w), UNCHANGED <<api, cache>>
      PROVE  KnownSpecs'
  <2>1. obj[w] \in Object /\ key' = key
    BY <1>2, BusyTypes DEF LocalStep
  <2>2. \A v \in Workers : obj'[v] = obj[v] \/ (obj[v] # None /\ obj'[v].spec = obj[v].spec)
    BY <1>2, <2>1, SetConditionType, NoneIsNoValue DEF LocalStep
  <2> QED BY <1>2, <2>1, <2>2 DEF KnownSpecs
<1>3. ASSUME NEW w \in Workers, StatusUpdate(w)
      PROVE  KnownSpecs'
  <2>1. /\ UNCHANGED <<cache, key, obj>> /\ key[w] \in Proxies
        /\ api[key[w]] # None /\ api' = [api EXCEPT ![key[w]] = Stored(w)]
    BY <1>3, BusyTypes DEF StatusUpdate, Storable
  <2>2. api[key[w]] \in Object
    BY <2>1 DEF TypeOK
  <2>3. Stored(w).spec = api[key[w]].spec
    BY <2>2 DEF Stored, Object
  <2> QED BY <2>1, <2>3 DEF KnownSpecs, TypeOK
<1>4. ASSUME NEW w \in Workers, NEW p \in Proxies, Get(w, p)
      PROVE  KnownSpecs'
  BY <1>4 DEF Get, store, KnownSpecs, TypeOK
<1>5. ASSUME NEW w \in Workers, NEW err, Release(w, err), UNCHANGED <<api, cache>>
      PROVE  KnownSpecs'
  BY <1>5 DEF Release, KnownSpecs, TypeOK
<1>6. ASSUME NEW p \in Proxies, CacheSync(p)
      PROVE  KnownSpecs'
  BY <1>6 DEF CacheSync, store, locals, KnownSpecs, TypeOK
<1>7. CASE Crash
  BY <1>7 DEF Crash, store, KnownSpecs
<1>8. ASSUME NEW p \in Proxies, NEW s \in ProxySpecs[p], CreateProxy(p, s) \/ UpdateProxy(p, s)
      PROVE  KnownSpecs'
  <2>1. PICK ready, available :
          /\ api' = [api EXCEPT ![p] = [spec |-> s, ready |-> ready, available |-> available,
                                        rv |-> nextRv[p]]]
          /\ UNCHANGED <<cache, obj, key>>
    BY <1>8 DEF CreateProxy, UpdateProxy, WriteSpec, locals
  <2> QED BY <2>1 DEF KnownSpecs, TypeOK
<1>9. ASSUME NEW p \in Proxies, DeleteProxy(p)
      PROVE  KnownSpecs'
  BY <1>9 DEF DeleteProxy, locals, KnownSpecs, TypeOK
<1>10. ASSUME NEW w \in Workers, WorkerStep(w)
       PROVE  KnownSpecs'
  <2>1. CASE Clone(w) \/ Synthesize(w)
    BY <1>1, <2>1 DEF Clone, Synthesize, store, locals
  <2>2. CASE Cleanup(w) \/ CleanupFails(w)
    BY <1>5, <2>2 DEF Cleanup, CleanupFails, store
  <2>3. CASE \/ ReadSecret(w) \/ ReadKnownHosts(w) \/ CheckRepository(w) \/ CloneFails(w) \/ SynthesizeFails(w)
             \/ ApplyClusterList(w) \/ ApplyClusterClient(w)
             \/ ApplyResource(w) \/ ApplyResourceFails(w)
             \/ CheckClusterList(w) \/ CheckResource(w) \/ StatusUpdateFails(w)
    <3>1. LocalStep(w)
      BY <2>3, WorkIsLocal
    <3>2. UNCHANGED <<api, cache>>
      BY <2>3 DEF ReadSecret, ReadKnownHosts, CheckRepository, CloneFails, SynthesizeFails, ApplyClusterList,
                  ApplyClusterClient, ApplyResource, ApplyResourceFails, CheckClusterList,
                  CheckResource, StatusUpdateFails, store
    <3> QED BY <1>2, <3>1, <3>2
  <2>4. CASE CheckClusterClient(w)
    <3>1. LocalStep(w)
      BY <2>4, WorkIsLocal
    <3>2. UNCHANGED <<api, cache>>
      BY <2>4 DEF CheckClusterClient, store
    <3> QED BY <1>2, <3>1, <3>2
  <2> QED BY <1>3, <1>10, <2>1, <2>2, <2>3, <2>4 DEF WorkerStep
<1>11. ASSUME NEW p \in Proxies, Resync(p) \/ Backoff(p) \/ Take(p)
       PROVE  KnownSpecs'
  <2>1. ASSUME NEW w \in Workers, GetNotFound(w, p)
        PROVE  KnownSpecs'
    BY <1>1, <2>1 DEF GetNotFound, store, locals
  <2>2. CASE Resync(p) \/ Backoff(p)
    BY <1>1, <2>2 DEF Resync, Backoff, store, locals
  <2> QED BY <1>4, <1>11, <2>1, <2>2 DEF Take
<1>12. CASE Environment
  <2>1. CASE /\ ~Crash
             /\ \A p \in Proxies : ~DeleteProxy(p)
             /\ \A p \in Proxies : \A s \in ProxySpecs[p] : ~CreateProxy(p, s) /\ ~UpdateProxy(p, s)
    <3>1. UNCHANGED <<api, cache, obj, key>>
      BY <1>12, <2>1 DEF Environment, SetSecret, Push, ClusterEvent, SetKube, Drift, store, locals
    <3> QED BY <1>1, <3>1
  <2> QED BY <1>7, <1>8, <1>9, <2>1
<1>13. CASE UNCHANGED vars
  BY <1>1, <1>13 DEF vars
<1> QED BY <1>6, <1>10, <1>11, <1>12, <1>13 DEF Next, Manager

(* Two workers that hold commits of one branch are one worker.              *)
LEMMA HoldersDistinct ==
  ASSUME TypeOK, IsolationInv, KnownSpecs, SourcesDistinct,
         NEW v \in Workers, NEW w \in Workers,
         Held(v) # None, Held(w) # None, SameSource(Held(v), Held(w))
  PROVE  v = w
<1>1. pc[v] # "idle" /\ pc[w] # "idle"
  BY DEF Held, TypeOK, WorkerShape
<1>2. /\ key[v] \in Proxies /\ key[w] \in Proxies /\ obj[v] # None /\ obj[w] # None
  BY <1>1, BusyTypes, NoneIsNoValue
<1>3. SameSource(obj[v].spec.git, obj[w].spec.git)
  BY DEF IsolationInv, HoldsOwnSource, SameSource, Url
<1>4. key[v] = key[w]
  BY <1>2, <1>3 DEF KnownSpecs, SourcesDistinct
<1> QED BY <1>2, <1>4, NoneIsNoValue DEF IsolationInv, OneWorkerPerProxy

LEMMA FreshnessStep ==
  ASSUME TypeOK, TypeOK', IsolationInv, FreshnessInv,
         DirectoriesApart, SourcesDistinct, [Next]_vars
  PROVE  FreshnessInv'
<1>1. KnownSpecs'
  BY KnownSpecsStep DEF FreshnessInv
<1>2. ASSUME NEW content \in Content, Newest(content)
      PROVE  content.rev <= head'[content.url][content.ref]
  <2>1. content.url \in Urls /\ content.ref \in Refs /\ content.rev \in Nat
    BY DEF Content
  <2>2. /\ head[content.url][content.ref] <= head'[content.url][content.ref]
        /\ head[content.url][content.ref] \in Nat /\ head'[content.url][content.ref] \in Nat
    BY <2>1, HeadGrows DEF TypeOK
  <2> QED BY <1>2, <2>1, <2>2 DEF Newest
<1>3. ASSUME NEW v \in Workers, Held(v)' # None
      PROVE  \/ Held(v)' = Held(v)
             \/ /\ Clone(v) /\ UNCHANGED <<deployed, head>> /\ Held(v)' \in Content
                /\ Held(v)'.rev = head[Held(v)'.url][Held(v)'.ref]
  <2>1. CASE Keeps(v)
    BY <1>3, <2>1 DEF Keeps, Held
  <2>2. CASE Clone(v)
    <3>1. /\ UNCHANGED <<deployed, head>>
          /\ Held(v)' = [url |-> Url(v), ref |-> obj[v].spec.git.ref, rev |-> BranchHead(v)]
      BY <2>2, KeepsClone DEF IsolationInv
    <3>2. pc[v] # "idle"
      BY <2>2 DEF Clone
    <3> QED BY <2>2, <3>1, <3>2, BusyTypes DEF Content, BranchHead
  <2> QED BY <2>1, <2>2, KeepsStep, KeepsClone DEF IsolationInv
<1>4. ASSUME NEW v \in Workers, Held(v)' # None
      PROVE  Newest(Held(v))'
  <2>1. CASE Held(v)' = Held(v)
    <3>1. Held(v) \in Content /\ Newest(Held(v))
      BY <1>4, <2>1, HeldType DEF FreshnessInv
    <3> QED BY <1>2, <2>1, <3>1 DEF Newest
  <2>2. CASE /\ UNCHANGED head /\ Held(v)' \in Content
             /\ Held(v)'.rev = head[Held(v)'.url][Held(v)'.ref]
    BY <2>2, NewestType DEF Newest
  <2> QED BY <1>3, <1>4, <2>1, <2>2
<1>5. ASSUME NEW c \in Clusters, NEW r \in Resources, deployed'[c][r] # None
      PROVE  /\ Newest(deployed[c][r])'
             /\ \A v \in Workers :
                  Held(v)' # None /\ SameSource(Held(v)', deployed'[c][r])
                    => deployed'[c][r].rev <= Held(v)'.rev
  <2>1. CASE deployed'[c][r] = deployed[c][r]
    <3>1. deployed[c][r] \in Content /\ Newest(deployed[c][r])
      BY <1>5, <2>1 DEF FreshnessInv, NothingNewerDeployed, TypeOK
    <3>2. ASSUME NEW v \in Workers, Held(v)' # None, SameSource(Held(v)', deployed[c][r])
          PROVE  deployed[c][r].rev <= Held(v)'.rev
      <4>1. CASE Held(v)' = Held(v)
        BY <2>1, <1>5, <3>2, <4>1 DEF FreshnessInv, NothingNewerDeployed
      <4>2. CASE Held(v)'.rev = head[Held(v)'.url][Held(v)'.ref]
        BY <3>1, <3>2, <4>2 DEF Newest, SameSource
      <4> QED BY <1>3, <3>2, <4>1, <4>2
    <3> QED BY <1>2, <2>1, <3>1, <3>2 DEF Newest
  <2>2. CASE deployed'[c][r] # deployed[c][r]
    <3>1. PICK w \in Workers : Applies(w) /\ src[w] # None /\ deployed'[c][r] = src[w]
      BY <1>5, <2>2, DeployedStep
    <3>2. Held(w) = src[w] /\ Held(w)' = Held(w) /\ Held(w) \in Content /\ Newest(Held(w))
      BY <3>1, HeldType DEF Applies, Held, FreshnessInv
    <3>3. ASSUME NEW v \in Workers, Held(v)' # None, SameSource(Held(v)', src[w])
          PROVE  src[w].rev <= Held(v)'.rev
      <4>1. Held(v)' = Held(v)
        BY <3>1 DEF Applies, Held, Dir
      <4>2. v = w
        BY <3>1, <3>2, <3>3, <4>1, HoldersDistinct DEF FreshnessInv
      <4>3. src[w].rev \in Nat
        BY <3>2 DEF Content
      <4> QED BY <3>2, <4>1, <4>2, <4>3
    <3> QED BY <1>2, <3>1, <3>2, <3>3 DEF Newest
  <2> QED BY <2>1, <2>2
<1> QED BY <1>1, <1>4, <1>5 DEF FreshnessInv, NothingNewerDeployed

LEMMA FreshnessInit == Init => FreshnessInv
BY DEF Init, FreshnessInv, KnownSpecs, NothingNewerDeployed, Held

(* Where every proxy has directories and branches of its own, no cluster    *)
(* ever goes back to an older commit.                                       *)
THEOREM NoRollbackCorrect == DirectoriesApart /\ SourcesDistinct /\ Spec => NoRollback
<1> SUFFICES ASSUME DirectoriesApart, SourcesDistinct PROVE Spec => NoRollback
  OBVIOUS
<1>1. TypeOK /\ IsolationInv /\ [Next]_vars => IsolationInv'
  BY IsolationStep
<1>2. TypeOK /\ TypeOK' /\ IsolationInv /\ FreshnessInv /\ [Next]_vars => FreshnessInv'
  BY FreshnessStep
<1> DEFINE NoStepBack ==
      \A c \in Clusters, r \in Resources :
        LET old == deployed[c][r]
            new == deployed'[c][r]
        IN old # None /\ new # None /\ old.url = new.url /\ old.ref = new.ref
             => old.rev <= new.rev
<1>3. TypeOK /\ IsolationInv /\ FreshnessInv /\ [Next]_vars => [NoStepBack]_vars
  <2> SUFFICES ASSUME TypeOK, IsolationInv, FreshnessInv, [Next]_vars,
                      NEW c \in Clusters, NEW r \in Resources,
                      deployed[c][r] # None, deployed'[c][r] # None,
                      SameSource(deployed[c][r], deployed'[c][r])
               PROVE  deployed[c][r].rev <= deployed'[c][r].rev
    BY DEF SameSource
  <2>1. CASE deployed'[c][r] = deployed[c][r]
    <3>1. deployed[c][r].rev \in Nat
      BY DEF TypeOK, Content
    <3> QED BY <2>1, <3>1
  <2>2. CASE deployed'[c][r] # deployed[c][r]
    <3>1. PICK w \in Workers : Applies(w) /\ src[w] # None /\ deployed'[c][r] = src[w]
      BY <2>2, DeployedStep
    <3>2. Held(w) = src[w]
      BY <3>1 DEF Applies, Held
    <3> QED BY <3>1, <3>2 DEF FreshnessInv, NothingNewerDeployed, SameSource
  <2> QED BY <2>1, <2>2
<1> QED BY <1>1, <1>2, <1>3, IsolationInit, FreshnessInit, TypeCorrect, PTL DEF Spec, NoRollback

-----------------------------------------------------------------------------
(* Clones under /tmp, and who is to remove them.                            *)
LeakInv == left["crash"] <= Budget["crash"] /\ NoLeakedDirectory

(* A worker that has a directory keeps it.                                  *)
KeepsDirectory(v) == pc[v] # "idle" => pc'[v] # "idle" /\ Dir(v)' = Dir(v)

LEMMA SpendSpares ==
  ASSUME TypeOK, UNCHANGED left \/ \E kind \in Kinds \ {"crash"} : Spend(kind)
  PROVE  left'["crash"] = left["crash"]
BY DEF TypeOK, Spend, Kinds

LEMMA CrashSpends ==
  ASSUME TypeOK, LeakInv, Spend("crash")
  PROVE  LeakInv'
<1>1. left["crash"] \in Nat /\ left'["crash"] = left["crash"] - 1 /\ Budget["crash"] \in Nat
  BY ProxyReconcilerConstants DEF TypeOK, Spend, Kinds
<1> QED BY <1>1 DEF LeakInv, NoLeakedDirectory

LEMMA NothingLeaks ==
  ASSUME TypeOK, LeakInv, UNCHANGED left \/ \E kind \in Kinds \ {"crash"} : Spend(kind),
         \A v \in Workers : KeepsDirectory(v),
         \A d \in Directories : dirs'[d] # None =>
           \/ dirs[d] # None
           \/ \E w \in Workers : pc[w] # "idle" /\ Dir(w) = d
  PROVE  LeakInv'
<1>1. left'["crash"] = left["crash"]
  BY SpendSpares
<1> QED BY <1>1 DEF LeakInv, NoLeakedDirectory, KeepsDirectory

LEMMA WorkKeepsDirectory ==
  ASSUME TypeOK, NEW w \in Workers, LocalStep(w)
  PROVE  \A v \in Workers : KeepsDirectory(v)
<1>1. obj[w] \in Object
  BY BusyTypes DEF LocalStep
<1>2. obj'[w].spec = obj[w].spec /\ (\A v \in Workers \ {w} : obj'[v] = obj[v])
  BY <1>1, SetConditionType DEF LocalStep
<1>3. pc'[w] # "idle" /\ (\A v \in Workers \ {w} : pc'[v] = pc[v])
  BY DEF LocalStep, Return, Goto, TypeOK
<1> QED BY <1>2, <1>3 DEF KeepsDirectory, Dir, LocalStep

LEMMA WorkSpends ==
  ASSUME NEW w \in Workers, WorkerStep(w), ~CleanupFails(w)
  PROVE  UNCHANGED left \/ Spend("fault")
<1>1. CASE ReadSecret(w) \/ ReadKnownHosts(w) \/ CheckRepository(w) \/ Clone(w) \/ CloneFails(w)
           \/ Synthesize(w) \/ SynthesizeFails(w)
  BY <1>1 DEF ReadSecret, ReadKnownHosts, CheckRepository, Clone, CloneFails, Synthesize, SynthesizeFails
<1>2. CASE ApplyClusterList(w) \/ ApplyClusterClient(w) \/ ApplyResource(w)
           \/ ApplyResourceFails(w) \/ CheckClusterList(w) \/ CheckClusterClient(w)
  BY <1>2 DEF ApplyClusterList, ApplyClusterClient, ApplyResource, ApplyResourceFails,
              CheckClusterList, CheckClusterClient
<1>3. CASE CheckResource(w) \/ StatusUpdate(w) \/ StatusUpdateFails(w) \/ Cleanup(w)
  BY <1>3 DEF CheckResource, StatusUpdate, StatusUpdateFails, Cleanup
<1> QED BY <1>1, <1>2, <1>3 DEF WorkerStep

LEMMA LeakStep ==
  ASSUME TypeOK, LeakInv, [Next]_vars
  PROVE  LeakInv'
<1>0. "fault" \in Kinds \ {"crash"} /\ Kinds \ {"crash"} \subseteq Kinds
  BY DEF Kinds
<1>1. CASE UNCHANGED <<pc, key, obj, dirs>>
           /\ (UNCHANGED left \/ \E kind \in Kinds \ {"crash"} : Spend(kind))
  BY <1>1, NothingLeaks DEF KeepsDirectory, Dir
<1>2. ASSUME NEW w \in Workers, NEW p \in Proxies, Get(w, p)
      PROVE  LeakInv'
  <2>1. /\ pc[w] = "idle" /\ UNCHANGED <<dirs, left>>
        /\ \A v \in Workers \ {w} : pc'[v] = pc[v] /\ key'[v] = key[v] /\ obj'[v] = obj[v]
    BY <1>2 DEF Get, Goto, TypeOK
  <2> QED BY <2>1, NothingLeaks DEF KeepsDirectory, Dir
<1>3. ASSUME NEW w \in Workers, Clone(w)
      PROVE  LeakInv'
  <2>1. /\ UNCHANGED <<key, obj, left>> /\ pc[w] # "idle"
        /\ dirs' = [dirs EXCEPT ![Dir(w)] =
                      [url |-> Url(w), ref |-> obj[w].spec.git.ref, rev |-> BranchHead(w)]]
        /\ \A v \in Workers : pc[v] # "idle" => pc'[v] # "idle"
    BY <1>3 DEF Clone, Goto, locals, TypeOK
  <2>2. \A d \in Directories : d # Dir(w) => dirs'[d] = dirs[d]
    BY <2>1 DEF TypeOK
  <2> QED BY <2>1, <2>2, NothingLeaks DEF KeepsDirectory, Dir
<1>4. ASSUME NEW w \in Workers, Synthesize(w)
      PROVE  LeakInv'
  <2>1. /\ UNCHANGED <<key, obj, dirs, left>>
        /\ \A v \in Workers : pc[v] # "idle" => pc'[v] # "idle"
    BY <1>4 DEF Synthesize, Goto, TypeOK
  <2> QED BY <2>1, NothingLeaks DEF KeepsDirectory, Dir
<1>5. ASSUME NEW w \in Workers, Cleanup(w)
      PROVE  LeakInv'
  <2>1. /\ dirs' = Without(Under(Dir(w))) /\ UNCHANGED left
        /\ pc[w] # "idle"
        /\ \A v \in Workers \ {w} : pc'[v] = pc[v] /\ key'[v] = key[v] /\ obj'[v] = obj[v]
    BY <1>5 DEF Cleanup, Release, TypeOK
  <2>2. Dir(w) \in Under(Dir(w))
    BY <2>1, BusyTypes DEF Under, Within
  <2>3. \A d \in Directories : dirs'[d] # None => dirs[d] # None /\ d # Dir(w)
    BY <2>1, <2>2, WithoutType
  <2> QED BY <2>1, <2>3 DEF LeakInv, NoLeakedDirectory, Dir
<1>6. ASSUME NEW w \in Workers, WorkerStep(w), ~Clone(w), ~Synthesize(w), ~Cleanup(w),
             ~CleanupFails(w)
      PROVE  LeakInv'
  <2>1. LocalStep(w)
    BY <1>6, WorkIsLocal DEF WorkerStep
  <2> QED BY <1>0, <1>6, <2>1, WorkKeepsDirectory, WorkSpends, NothingLeaks DEF LocalStep
<1>7. ASSUME Crash \/ \E w \in Workers : CleanupFails(w)
      PROVE  LeakInv'
  BY <1>7, CrashSpends DEF Crash, CleanupFails
<1>8. ASSUME NEW p \in Proxies, CacheSync(p) \/ Resync(p) \/ Backoff(p) \/ Take(p)
      PROVE  LeakInv'
  <2>1. ASSUME CacheSync(p) \/ Resync(p) \/ Backoff(p) \/ \E w \in Workers : GetNotFound(w, p)
        PROVE  UNCHANGED <<pc, key, obj, dirs, left>>
    BY <2>1 DEF CacheSync, Resync, Backoff, GetNotFound, locals
  <2> QED BY <1>1, <1>2, <1>8, <2>1 DEF Take
<1>9. CASE Environment /\ ~Crash
  <2>1. UNCHANGED <<pc, key, obj, dirs>>
    BY <1>9 DEF Environment, CreateProxy, UpdateProxy, WriteSpec, DeleteProxy, SetSecret, Push,
                ClusterEvent, SetKube, Drift, locals
  <2>2. \E kind \in Kinds \ {"crash"} : Spend(kind)
    BY <1>9 DEF Environment, CreateProxy, UpdateProxy, WriteSpec, DeleteProxy, SetSecret, Push,
                ClusterEvent, SetKube, Drift, Kinds
  <2> QED BY <1>1, <2>1, <2>2
<1>10. CASE UNCHANGED vars
  BY <1>1, <1>10 DEF vars
<1> QED BY <1>3, <1>4, <1>5, <1>6, <1>7, <1>8, <1>9, <1>10 DEF Next, Manager

(* Whatever way a reconciliation ends, short of a crash or a failed         *)
(* removal, and whatever runs beside it, its clone does not stay (the       *)
(* deferred RemoveAll).                                                     *)
THEOREM NoLeakedDirectoryCorrect == Spec => []NoLeakedDirectory
<1>1. Init => LeakInv
  BY ProxyReconcilerConstants DEF Init, LeakInv, NoLeakedDirectory, Kinds
<1>2. TypeOK /\ LeakInv /\ [Next]_vars => LeakInv'
  BY LeakStep
<1>3. LeakInv => NoLeakedDirectory
  BY DEF LeakInv
<1> QED BY <1>1, <1>2, <1>3, TypeCorrect, PTL DEF Spec
====
