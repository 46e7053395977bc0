------------------------------- MODULE Rollout -------------------------------
(***************************************************************************)
(* What the Cdk8sAppProxy controller promises about the workload clusters   *)
(* and about Ready, with no workers, queues, caches, directories, versions  *)
(* or credentials in it. A proxy has at most one pass under way, of a spec  *)
(* that was stored for this proxy. A pass carries one commit, the newest of *)
(* the branch its spec names at the moment it begins; it writes the         *)
(* resources of that commit, to clusters its selector matched when it last  *)
(* looked; and only a pass of the spec that is stored by then declares the  *)
(* proxy ready. Ready is never taken back from an object that stays.        *)
(***************************************************************************)
EXTENDS Naturals, Sequences

CONSTANTS Proxies, Clusters, Labels, Resources, Urls, Refs,
          ProxySpecs, Manifests, InitLabel, InitHead, None, Gone

VARIABLES
  wanted,    \* the stored spec of each proxy
  shown,     \* the specs of each proxy that may still be read
  ready,     \* whether the proxy has been declared ready
  head,      \* commits so far on each branch
  label,     \* the labels of the clusters
  deployed,  \* the commit each resource on each cluster comes from
  passes     \* those under way

vars == <<wanted, shown, ready, head, label, deployed, passes>>

Init ==
  /\ wanted = [p \in Proxies |-> None]
  /\ shown = [p \in Proxies |-> {}]
  /\ ready = [p \in Proxies |-> FALSE]
  /\ head = InitHead /\ label = InitLabel
  /\ deployed = [c \in Clusters |-> [r \in Resources |-> None]]
  /\ passes = {}

-----------------------------------------------------------------------------
(* A pass.                                                                  *)
Begin(p, s) ==
  LET newest == head[s.git.url][s.git.ref] IN
  /\ \A x \in passes : x.proxy # p
  /\ newest > 0
  /\ passes' = passes \cup
       {[proxy |-> p, spec |-> s, targets |-> {},
         commit |-> [url |-> s.git.url, ref |-> s.git.ref, rev |-> newest]]}
  /\ UNCHANGED <<wanted, ready, head, label, deployed>>

(* The clusters the selector matches now, in whatever namespace.            *)
Aim(x) ==
  /\ passes' = (passes \ {x}) \cup
       {[x EXCEPT !.targets = {c \in Clusters : label[c] \in x.spec.sel}]}
  /\ UNCHANGED <<wanted, ready, head, label, deployed>>

MutantPut(x, c, i) ==  \* created where it is missing, never updated
  /\ c \in x.targets /\ i \in DOMAIN Manifests[x.commit.url]
  /\ deployed[c][Manifests[x.commit.url][i]] = None
  /\ deployed' = [deployed EXCEPT ![c][Manifests[x.commit.url][i]] = x.commit]
  /\ UNCHANGED <<wanted, ready, head, label, passes>>

Put(x, c, i) ==
  /\ c \in x.targets /\ i \in DOMAIN Manifests[x.commit.url]
  /\ deployed' = [deployed EXCEPT ![c][Manifests[x.commit.url][i]] = x.commit]
  /\ UNCHANGED <<wanted, ready, head, label, passes>>

(* The pass ends well, and its spec is still the one that is wanted.        *)
Declare(x) ==
  /\ wanted[x.proxy] = x.spec
  /\ ready' = [ready EXCEPT ![x.proxy] = TRUE]
  /\ passes' = passes \ {x}
  /\ UNCHANGED <<wanted, head, label, deployed>>

Abandon(x) ==
  /\ passes' = passes \ {x}
  /\ UNCHANGED <<wanted, ready, head, label, deployed>>

Restart ==
  /\ passes' = {}
  /\ UNCHANGED <<wanted, ready, head, label, deployed>>

-----------------------------------------------------------------------------
(* Users, the Git server and the clusters.                                  *)
Want(p, s) ==
  /\ wanted' = [wanted EXCEPT ![p] = s]
  /\ UNCHANGED <<ready, head, label, deployed, passes>>

Withdraw(p) ==
  /\ wanted' = [wanted EXCEPT ![p] = None]
  /\ ready' = [ready EXCEPT ![p] = FALSE]
  /\ UNCHANGED <<head, label, deployed, passes>>

Push(u, ref) ==
  /\ head' = [head EXCEPT ![u][ref] = @ + 1]
  /\ UNCHANGED <<wanted, ready, label, deployed, passes>>

Relabel(c, l) ==
  /\ label' = [label EXCEPT ![c] = l]
  /\ UNCHANGED <<wanted, ready, head, deployed, passes>>

Lose(c, r) ==
  /\ deployed' = [deployed EXCEPT ![c][r] = None]
  /\ UNCHANGED <<wanted, ready, head, label, passes>>

-----------------------------------------------------------------------------
Pass(x) ==
  \/ Aim(x) \/ Declare(x) \/ Abandon(x)
  \/ \E c \in Clusters, i \in DOMAIN Manifests[x.commit.url] : Put(x, c, i)

Step ==
  \/ \E p \in Proxies : \/ Withdraw(p)
                        \/ \E s \in ProxySpecs[p] : Want(p, s)
                        \/ \E s \in shown[p] : Begin(p, s)
  \/ \E x \in passes : Pass(x)
  \/ Restart
  \/ \E u \in Urls, ref \in Refs : Push(u, ref)
  \/ \E c \in Clusters : \/ \E l \in Labels \cup {Gone} : Relabel(c, l)
                         \/ \E r \in Resources : Lose(c, r)

(* What can be read is the stored spec, as soon as it is written, and,      *)
(* until some moment nobody chooses, the ones it replaced.                  *)
Sight ==
  /\ DOMAIN shown' = Proxies
  /\ \A p \in Proxies :
       IF wanted'[p] = None
         THEN shown'[p] \subseteq shown[p]
         ELSE wanted'[p] \in shown'[p] /\ shown'[p] \subseteq shown[p] \cup {wanted'[p]}

Look == UNCHANGED <<wanted, ready, head, label, deployed, passes>>

Next == (Step \/ Look) /\ Sight

Spec == Init /\ [][Next]_vars
=============================================================================
