----------------------- MODULE MCPreviewEnvironments -----------------------
(***************************************************************************)
(* An instance of PreviewEnvironments for TLC: one generator, two pull      *)
(* requests of which a page holds both, each to be merged into the other's  *)
(* branch, and two clusters of which one has yet to be created and has no   *)
(* kubeconfig then. Either the pull requests come and go and become rivals, *)
(* or obstacles come and go while there is one.                             *)
(***************************************************************************)
EXTENDS PreviewEnvironments, TLC

CONSTANTS g1, u1, c1, c2

PR(number, branch, base) == [number |-> number, branch |-> branch, base |-> base]

First  == PR(1, "feature", "fix")
Second == PR(2, "fix", "feature")

Source == g1 :> [url |-> u1, filters |-> {"feature", "fix"}, template |-> "t1"]
Requests  == u1 :> {First, Second}
OpenAtFirst == u1 :> {First}
Emitted == u1 :> <<"r1">>
Selector == "t1" :> {"preview"}
Labelled == c1 :> "preview" @@ c2 :> None
WithoutKey == {c2}
NothingBlocked == {}
Heads == u1 :> [ref \in {"feature", "fix"} |-> 1]
Spending(pr, discard, event, obstacle) ==
  [pr |-> pr, discard |-> discard, event |-> event, obstacle |-> obstacle]

Scenarios == {Spending(2, 1, 1, 0), Spending(0, 0, 2, 2)}
=============================================================================
