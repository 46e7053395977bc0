-------------------------- MODULE MCProxyReconciler --------------------------
(***************************************************************************)
(* Instances of ProxyReconciler for TLC. "Two" has two proxies of the same *)
(* name in two namespaces, each with a repository of its own, and two       *)
(* workers; "One" has one proxy and two clusters.                           *)
(***************************************************************************)
EXTENDS ProxyRollout, TLC

CONSTANTS p1, p2, w1, w2, c1, c2, u1, u2

Main == <<<<"main">>>>
Fix  == <<<<"fix">>>>
MainX == <<<<"main">>, <<"x">>>>    \* the branch "main/x"

Workload == "workload"

(* A public repository needs a Secret all the same; a private one a token.  *)
Public  == "nothing"
Private == "token"

Good    == [present |-> TRUE, cred |-> "token", hosts |-> "noKey"]
Absent  == [present |-> FALSE, cred |-> "noKey", hosts |-> "noKey"]
WrongKind == [present |-> TRUE, cred |-> "pem", hosts |-> "noKey"]

GitOf(u, ref) == [url |-> u, ref |-> ref, secretRef |-> TRUE, knownHostsKey |-> FALSE]
SpecOf(u, ref, sel) == [git |-> GitOf(u, ref), sel |-> sel, selValid |-> TRUE]

Spending(edit, push, cluster, kubes, secret, crash, fault, drift) ==
  [edit |-> edit, push |-> push, cluster |-> cluster, kube |-> kubes,
   secret |-> secret, crash |-> crash, fault |-> fault, drift |-> drift]

-----------------------------------------------------------------------------
(* Two proxies of one name, in the namespaces a and b; the cluster is in a. *)
(* The one in a is on the branch "main/x", whose clone lies in a directory  *)
(* below the one of a clone of "main", or on "main" and selects nothing.    *)
TwoNamespace == p1 :> <<"a">> @@ p2 :> <<"b">>
TwoName      == p1 :> <<"app">> @@ p2 :> <<"app">>
TwoClusterNamespace == c1 :> <<"a">>
TwoUrlForm     == u1 :> "https" @@ u2 :> "https"
TwoRemoteWants == u1 :> Public @@ u2 :> Private
TwoProxySpecs  ==
  p1 :> {SpecOf(u1, MainX, {Workload}), SpecOf(u1, Main, {})} @@
  p2 :> {SpecOf(u2, Main, {Workload})}
TwoManifests == u1 :> <<"r1">> @@ u2 :> <<"r2">>
TwoKind   == [r \in {"r1", "r2"} |-> [stem |-> "configma", last |-> "p"]]
TwoPlural == [r \in {"r1", "r2"} |-> <<"configma", "p", "s">>]
TwoSecretStates == {Good}
TwoInitLabel  == c1 :> Workload
TwoInitKube   == c1 :> "ok"
TwoInitHead   == u1 :> (MainX :> 1 @@ Main :> 1) @@ u2 :> (MainX :> 0 @@ Main :> 1)
TwoInitSecret == [p \in {p1, p2} |-> Good]
TwoRefs == {Main, MainX}
TwoBudget == Spending(2, 1, 0, 0, 0, 1, 0, 0)
TwoSymmetry == Permutations({w1, w2})

-----------------------------------------------------------------------------
(* One proxy that users edit while two workers serve its key; c1 is in its  *)
(* namespace, c2 in another.                                                *)
OneNamespace == p1 :> <<"a">>
OneName      == p1 :> <<"app">>
OneClusterNamespace == c1 :> <<"a">> @@ c2 :> <<"b">>
OneUrlForm     == u1 :> "https"
OneRemoteWants == u1 :> Public
OneInitSecret  == p1 :> Good
OneSecretStates == {Good}
OneRefs == {Main}

EditRefs == {Main, Fix}
EditProxySpecs ==
  p1 :> {SpecOf(u1, Main, {Workload}), SpecOf(u1, Fix, {Workload}),
         SpecOf(u2, Main, {Workload}), SpecOf(u1, Main, {})}
EditManifests == u1 :> <<"r1">> @@ u2 :> <<>>    \* nothing synthesized from u2
EditInitLabel == c1 :> Workload @@ c2 :> None
EditInitKube  == c1 :> "ok" @@ c2 :> "ok"
EditInitHead  == [u \in {u1, u2} |-> [ref \in EditRefs |-> 1]]
EditBudget    == Spending(3, 1, 2, 0, 0, 0, 0, 0)

-----------------------------------------------------------------------------
(* One proxy, one worker, everything that can fail part way: a cluster      *)
(* whose kubeconfig is absent or without a value, a resource whose plural   *)
(* is wrong, Secrets that change, calls that fail.                          *)
Invalid == [SpecOf(u1, Main, {Workload}) EXCEPT !.selValid = FALSE]
PartialUrlForm     == u1 :> "https" @@ u2 :> "https"
PartialRemoteWants == u1 :> Public @@ u2 :> Private
PartialProxySpecs  == p1 :> {SpecOf(u1, Main, {Workload}), SpecOf(u2, Main, {Workload}), Invalid}
PartialSecretStates == {Good, WrongKind, Absent}
PartialManifests == u1 :> <<"r1", "r2">> @@ u2 :> <<"gateway", "r2">>
PartialKind   == TwoKind @@ "gateway" :> [stem |-> "gatewa", last |-> "y"]
PartialPlural == TwoPlural @@ "gateway" :> <<"gatewa", "y", "s">>
PartialInitLabel == [c \in {c1, c2} |-> Workload]
PartialInitKube  == c1 :> "ok" @@ c2 :> "missing"
PartialInitHead  == [u \in {u1, u2} |-> Main :> 1]
PartialBudget    == Spending(2, 0, 0, 1, 1, 1, 1, 1)

-----------------------------------------------------------------------------
(* Convergence: an environment that pushes the branch, fails, restarts the  *)
(* manager, adds the cluster c1 and removes c2, whose kubeconfig makes      *)
(* every pass panic, before it calms down. The other proxy of the namespace *)
(* has no Secret and a selector that does not parse, so that the mapper may *)
(* lose the event of c1; that of c2, in another namespace, is always lost.  *)
LiveProxySpecs ==
  p1 :> {SpecOf(u1, Main, {Workload})} @@
  p2 :> {[SpecOf(u1, Main, {Workload}) EXCEPT !.selValid = FALSE]}
LiveNamespace  == [p \in {p1, p2} |-> <<"a">>]
LiveName       == p1 :> <<"app">> @@ p2 :> <<"broken">>
LiveKind       == [r \in {"r1"} |-> TwoKind[r]]
LivePlural     == [r \in {"r1"} |-> TwoPlural[r]]
LiveManifests  == u1 :> <<"r1">>
LiveInitHead   == u1 :> (Main :> 0)
LiveInitSecret == p1 :> Good @@ p2 :> Absent
LiveInitKube   == c1 :> "ok" @@ c2 :> "novalue"
LiveInitLabel  == c1 :> None @@ c2 :> Workload
LiveBudget     == Spending(2, 2, 2, 0, 0, 1, 1, 0)

-----------------------------------------------------------------------------
(* Instances for what the documentation says.                               *)
NoSecretRef == [SpecOf(u1, Main, {Workload}) EXCEPT !.git.secretRef = FALSE]
OptionalProxySpecs == p1 :> {NoSecretRef}
OptionalBudget  == Spending(1, 0, 0, 0, 0, 0, 0, 0)
NoBranch        == u1 :> (Main :> 0)
StaleProxySpecs == p1 :> {SpecOf(u1, Main, {Workload})}
StaleInitHead   == u1 :> (Main :> 1)
StaleManifests  == u1 :> <<"r1">>
StaleInitKube   == [c \in {c1, c2} |-> "ok"]
StaleBudget     == Spending(1, 1, 0, 0, 0, 0, 1, 0)
=============================================================================
