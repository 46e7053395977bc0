------------------------------ MODULE Previews ------------------------------
(***************************************************************************)
(* What the Cdk8sAppProxyGenerator controller promises about the proxies it *)
(* generates, with no queue, cache, version, clock or credential in it. A   *)
(* generator has at most one poll under way. A poll knows the pull requests *)
(* of one page of those that were open at one moment; it writes the proxy   *)
(* of each at most once, with that pull request's branch and the template   *)
(* of the spec it began with. A proxy stays with its repository for as long *)
(* as it lives.                                                             *)
(***************************************************************************)
EXTENDS Naturals, FiniteSets

CONSTANTS Generators, Numbers, Urls, PullRequests, InitOpen, Sources, PageSize, None

VARIABLES
  open,      \* the pull requests open in each repository
  proxies,   \* the generated proxies, by generator and number
  polls      \* those under way

vars == <<open, proxies, polls>>

Init ==
  /\ open = InitOpen
  /\ proxies = [g \in Generators |-> [n \in Numbers |-> None]]
  /\ polls = {}

-----------------------------------------------------------------------------
(* A poll of the generator g, whose spec says s (url, filters, template).   *)
Begin(g, s) ==
  /\ \A x \in polls : x.gen # g
  /\ \E page \in SUBSET open[s.url] :
       /\ page = open[s.url] \/ Cardinality(page) = PageSize
       /\ polls' = polls \cup {[gen |-> g, source |-> s, page |-> page]}
  /\ UNCHANGED <<open, proxies>>

Shorter(x, pr) == (polls \ {x}) \cup {[x EXCEPT !.page = @ \ {pr}]}

Admits(s, pr) == \/ s.filters \subseteq {""}
                 \/ "" \in s.filters \/ pr.base \in s.filters

MutantPropose(x, pr) ==  \* the branch the pull request is to be merged into
  /\ Admits(x.source, pr)
  /\ proxies' = [proxies EXCEPT ![x.gen][pr.number] =
        [url |-> x.source.url, ref |-> pr.base, template |-> x.source.template]]
  /\ polls' = Shorter(x, pr)
  /\ UNCHANGED open

Propose(x, pr) ==
  LET old == proxies[x.gen][pr.number] IN
  /\ Admits(x.source, pr)
  /\ old # None => old.url = x.source.url
  /\ proxies' = [proxies EXCEPT ![x.gen][pr.number] =
        [url |-> x.source.url, ref |-> pr.branch, template |-> x.source.template]]
  /\ polls' = Shorter(x, pr)
  /\ UNCHANGED open

(* A pull request that is filtered out, or whose proxy cannot be written.   *)
PassOver(x, pr) ==
  /\ polls' = Shorter(x, pr)
  /\ UNCHANGED <<open, proxies>>

End(x) ==
  /\ polls' = polls \ {x}
  /\ UNCHANGED <<open, proxies>>

Restart ==
  /\ polls' = {}
  /\ UNCHANGED <<open, proxies>>

-----------------------------------------------------------------------------
(* The provider; users and the garbage collector.                           *)
Open(u, pr) ==
  /\ \A other \in open[u] : other.number # pr.number
  /\ open' = [open EXCEPT ![u] = @ \cup {pr}]
  /\ UNCHANGED <<proxies, polls>>

Close(u, pr) ==
  /\ open' = [open EXCEPT ![u] = @ \ {pr}]
  /\ UNCHANGED <<proxies, polls>>

Discard(g, n) ==
  /\ proxies' = [proxies EXCEPT ![g][n] = None]
  /\ UNCHANGED <<open, polls>>

-----------------------------------------------------------------------------
Next ==
  \/ \E g \in Generators, s \in Sources : Begin(g, s)
  \/ \E x \in polls : End(x) \/ \E pr \in x.page : Propose(x, pr) \/ PassOver(x, pr)
  \/ Restart
  \/ \E u \in Urls : \E pr \in PullRequests[u] : Open(u, pr) \/ Close(u, pr)
  \/ \E g \in Generators, n \in Numbers : Discard(g, n)

Spec == Init /\ [][Next]_vars
=============================================================================
