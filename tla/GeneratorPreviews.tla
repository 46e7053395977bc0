-------------------------- MODULE GeneratorPreviews --------------------------
(***************************************************************************)
(* The generator controller implements Previews. A poll is what a worker    *)
(* does between the provider's answer and the record of the poll.           *)
(***************************************************************************)
EXTENDS GeneratorReconciler

Polling(g) == pc[g] \in {"pr", "create", "update"}

(* What of a generator's spec its proxies depend on. The reference in the   *)
(* template's own gitRepository, which rendering overwrites, is not.        *)
SourceOf(spec) == [url |-> spec.url, filters |-> spec.filters, template |-> spec.template]

Sources == [url : Urls, filters : SUBSET (BranchMatches \cup {""}), template : Templates]

PollOf(g) ==
  [gen |-> g, source |-> SourceOf(obj[g].spec), page |-> todo[g]]

Polls == {PollOf(g) : g \in {h \in Generators : Polling(h)}}

(* The generated proxies, whoever controls them.                            *)
Generated ==
  [g \in Generators |-> [n \in Numbers |->
     IF proxies[g][n] = None THEN None
     ELSE [url |-> proxies[g][n].url, ref |-> proxies[g][n].ref,
           template |-> proxies[g][n].template]]]

P == INSTANCE Previews WITH polls <- Polls, proxies <- Generated

(* Whatever workers, caches, conflicts, restarts, retries and edits do, what *)
(* happens to the generated proxies is one poll after another for each       *)
(* generator, each of pull requests that were open at one moment, each of    *)
(* which is written at most once (the work queue's exclusion, the loop of    *)
(* Reconcile over one answer, the rendering of one shared template, the      *)
(* resourceVersion and the webhook on Update, AlreadyExists on Create).      *)
ImplementsPreviews == P!Spec

-----------------------------------------------------------------------------
(* The fairness that, besides KeepsPolling, is assumed of Previews where     *)
(* both controllers are put together.                                       *)
Writable(x, pr) ==
  LET old == Generated[x.gen][pr.number] IN
  P!Admits(x.source, pr) /\ (old # None => old.url = x.source.url)

MayWrite(g, n) ==
  \E x \in Polls : x.gen = g /\ \E pr \in x.page : pr.number = n /\ Writable(x, pr)

Writes(g, n) ==
  \E x \in Polls : x.gen = g /\ \E pr \in x.page : pr.number = n /\ P!Propose(x, pr)

(* Every poll ends, and a proxy that could be written in poll after poll is  *)
(* written in poll after poll: no conflict, stale cache or failing call, and *)
(* no pull request whose proxy cannot be written, keeps it from being        *)
(* written for ever (reconcilePR's errors are only logged).                  *)
PollsGoOn ==
  \A g \in Generators :
    /\ []<>~Polling(g)
    /\ \A n \in Numbers : <>[]~MayWrite(g, n) \/ []<><<Writes(g, n)>>_vars
=============================================================================
