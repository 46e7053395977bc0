---------------------------- MODULE ProxyRollout ----------------------------
(***************************************************************************)
(* The proxy controller implements Rollout. A pass is what a worker does    *)
(* between its clone and its return: its spec is the one the worker read,   *)
(* its commit the clone in the worker's directory or, once synthesized,     *)
(* what the parsed resources come from.                                     *)
(***************************************************************************)
EXTENDS ProxyReconciler

(* The clusters a worker last listed, for Apply or for Check.               *)
Targets(w) ==
  IF pc[w] \in {"apply", "checkList", "check", "status"} THEN loop[w].items ELSE {}

PassOf(w) ==
  [proxy |-> key[w], spec |-> obj[w].spec, targets |-> Targets(w), commit |-> Held(w)]

Passes == {PassOf(w) : w \in {v \in Workers : Held(v) # None}}

Wanted == [p \in Proxies |-> IF api[p] = None THEN None ELSE api[p].spec]

DeclaredReady == [p \in Proxies |-> api[p] # None /\ api[p].ready = "True"]

(* What is stored, cached, or in the hands of a worker.                     *)
Copies(p) == {api[p], cache[p]} \cup {obj[w] : w \in {v \in Workers : key[v] = p}}

Shown == [p \in Proxies |-> {o.spec : o \in Copies(p) \ {None}}]

R == INSTANCE Rollout WITH
       wanted <- Wanted, shown <- Shown, ready <- DeclaredReady, passes <- Passes

(* Whatever workers, caches, directories, restarts and failing calls do,    *)
(* what happens to the clusters and to Ready is one pass after another for  *)
(* each proxy, of a spec that was stored for that very proxy and of one     *)
(* commit that was the newest of its branch when the pass began (the work   *)
(* queue's exclusion, the fresh clone, the status update's resourceVersion).*)
ImplementsRollout == R!Spec

-----------------------------------------------------------------------------
(* The fairness that is assumed of Rollout where both controllers are put   *)
(* together.                                                                *)
Selection(spec) == {c \in Clusters : label[c] \in spec.sel}

Lacking(x) ==
  {c \in x.targets : \E i \in DOMAIN Manifests[x.commit.url] :
                       deployed[c][Manifests[x.commit.url][i]] # x.commit}

Carries(x, p) == x.proxy = p /\ x.spec = Wanted[p]

CarriesNewest(x, p) == Carries(x, p) /\ x.commit.rev = head[x.commit.url][x.commit.ref]

MayAim(p) ==
  Deployable(p) /\ \E x \in Passes : Carries(x, p) /\ x.targets # Selection(x.spec)

Aims(p) ==
  /\ Deployable(p) /\ Passes' # Passes
  /\ \E x \in Passes : Carries(x, p) /\ R!Aim(x)

MayPut(p) == Deployable(p) /\ \E x \in Passes : CarriesNewest(x, p) /\ Lacking(x) # {}

Puts(p) ==
  /\ deployed' # deployed /\ Deployable(p)
  /\ \E x \in Passes :
       /\ CarriesNewest(x, p)
       /\ \E c \in Clusters, i \in DOMAIN Manifests[x.commit.url] : R!Put(x, c, i)

(* Every pass ends, the stored spec is all there is to be read time and     *)
(* again, and an object that nothing outside the manager obstructs has a    *)
(* pass time and again; if its passes have clusters to find out about, or   *)
(* something to bring up to date there, time and again, they do so time and *)
(* again (nothing but the deferred RemoveAll's swallowed errors, a leftover *)
(* directory or the failures of another proxy is in their way).             *)
PassesGoOn ==
  \A p \in Proxies :
    /\ []<>(\A x \in Passes : x.proxy # p)
    /\ []<>(Shown[p] = {Wanted[p]} \ {None})
    /\ []<>(Deployable(p) => \E x \in Passes : x.proxy = p)
    /\ <>[]~MayAim(p) \/ []<><<Aims(p)>>_vars
    /\ <>[]~MayPut(p) \/ []<><<Puts(p)>>_vars
=============================================================================
