------------------------ MODULE MCGeneratorReconciler ------------------------
(***************************************************************************)
(* Instances of GeneratorReconciler for TLC: one generator, two pull        *)
(* request numbers, polls every two ticks.                                  *)
(***************************************************************************)
EXTENDS GeneratorPreviews, TLC

CONSTANTS g1, u1, u2

Token == [present |-> TRUE, cred |-> "token", hosts |-> "noKey"]
Key   == [present |-> TRUE, cred |-> "pem", hosts |-> "noKey"]

Absent == [present |-> FALSE, cred |-> "noKey", hosts |-> "noKey"]

PR(number, branch, base) == [number |-> number, branch |-> branch, base |-> base]

First  == PR(1, "feature", "main")
Second == PR(2, "fix", "main")
Other  == PR(2, "docs", "release1")

SpecOf(u, filters, template, tmplRef) ==
  [url |-> u, secretRef |-> TRUE, filters |-> filters, template |-> template,
   tmplGit |-> tmplRef # None, tmplRef |-> tmplRef, interval |-> 2]

Plain == SpecOf(u1, {}, "t1", None)

Spending(edit, pr, secrets, proxy, crash, fault) ==
  [edit |-> edit, pr |-> pr, secret |-> secrets, proxy |-> proxy, crash |-> crash,
   fault |-> fault]

TokenOnly == {Token}
NoneOpen == [u \in {u1, u2} |-> {}]
OneOpen  == u1 :> {First} @@ u2 :> {}
HttpsForm  == [u \in {u1, u2} |-> "https"]
HttpsWants == u1 :> "nothing" @@ u2 :> "token"

-----------------------------------------------------------------------------
(* Everything that can go wrong with a poll: edits of the generator (a new  *)
(* interval, a template with a gitRepository of its own), pull requests     *)
(* that come and go, proxies written and deleted by others, a failing call. *)
PollPullRequests == u1 :> {First, Second, Other}
PollOpen   == u1 :> {First}
PollForm   == u1 :> "https"
PollWants  == u1 :> "nothing"
PollSpecs == g1 :> {Plain, [SpecOf(u1, {"main"}, "t1", "main") EXCEPT !.interval = 1]}
PollBudgets == {Spending(2, 1, 0, 1, 0, 1)}

-----------------------------------------------------------------------------
(* Liveness: the source moves to a repository with a pull request of the    *)
(* same number and a second one, the template changes, and the Secret comes *)
(* late. On top of that, either the generator is deleted and created again, *)
(* or proxies are deleted and written by others, or the manager restarts,   *)
(* or all this but the edits happens and a call fails. One of the two specs *)
(* has an interval of zero.                                                 *)
LivePullRequests == u1 :> {First, Second} @@ u2 :> {First, Second}
Hasty(spec) == [spec EXCEPT !.interval = 1]
Restless(spec) == [spec EXCEPT !.interval = 0]
LiveSpecs  == g1 :> {Hasty(Plain), Restless(SpecOf(u2, {}, "t2", None))}
LiveOpen   == u1 :> {First} @@ u2 :> {First, Second}
LiveSecrets == {Token, Absent}
LiveBudgets == {Spending(3, 0, 1, 0, 0, 0), Spending(2, 0, 1, 1, 0, 0),
                Spending(2, 0, 1, 0, 1, 0), Spending(1, 0, 1, 1, 1, 1)}

-----------------------------------------------------------------------------
(* Instances for what the documentation says.                               *)
OneSpec == g1 :> {Plain}
DocPullRequests == u1 :> {First, Other} @@ u2 :> {}
CloseBudgets == {Spending(1, 1, 0, 0, 0, 0)}
=============================================================================
