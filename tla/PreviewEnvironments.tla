------------------------- MODULE PreviewEnvironments -------------------------
(***************************************************************************)
(* Both controllers of the manager together: the generator writes proxies   *)
(* for the open pull requests of its repository (Previews), the proxy       *)
(* controller deploys what they say (Rollout). They meet in the proxies in  *)
(* the API server, of which Rollout's wanted is a function, and in the      *)
(* manager's process, which dies as a whole. Each is here as the            *)
(* specification its own model is shown to implement; the users of the one  *)
(* are the other.                                                           *)
(***************************************************************************)
EXTENDS Naturals, Sequences, FiniteSets

CONSTANTS
  Generators, Numbers, Urls, Refs, PullRequests, PageSize,
  SourceOf,     \* what each generator's spec says of its proxies
  Clusters, Labels, Resources, Manifests,
  Selects,      \* [Templates -> SUBSET Labels], the template's clusterSelector
  InitOpen, InitHead, InitLabel, InitBlocked, InitKeyless,
  Budgets,      \* how often the environment does what: one of these per behaviour
  None, Gone

VARIABLES
  open, proxies, polls,                  \* of Previews
  ready, head, label, deployed, passes,  \* of Rollout
  shown,     \* of Rollout: the specs that the proxy controller's cache may still show
  proposed,  \* the pull requests that have been open (history)
  blocked,   \* the repositories nothing can be done with
  keyless,   \* the clusters without a usable kubeconfig
  left       \* environment actions left

ASSUME EnvironmentConstants ==
  /\ InitOpen \in [Urls -> SUBSET UNION {PullRequests[u] : u \in Urls}]
  /\ \A u \in Urls : \A pr \in PullRequests[u] : pr.number \in Numbers /\ pr.branch \in Refs
  /\ \A g \in Generators : SourceOf[g].url \in Urls /\ SourceOf[g].template \in DOMAIN Selects

previewVars == <<open, proxies, polls>>
rolloutVars == <<ready, head, label, deployed, passes>>
obstacles == <<blocked, keyless>>
vars == <<open, proxies, polls, ready, head, label, deployed, passes, shown, proposed,
          blocked, keyless, left>>

Sources == {SourceOf[g] : g \in Generators}

(* A generated proxy is known by its generator and its number.              *)
Proxies == Generators \X Numbers

(* What the proxy controller reads of a generated proxy.                    *)
SpecOf(proxy) ==
  [git |-> [url |-> proxy.url, ref |-> proxy.ref], sel |-> Selects[proxy.template]]

Wanted ==
  [p \in Proxies |-> IF proxies[p[1]][p[2]] = None THEN None ELSE SpecOf(proxies[p[1]][p[2]])]

Specs == [git : [url : Urls, ref : Refs], sel : {Selects[t] : t \in DOMAIN Selects}]

ASSUME NoneIsNoSpec == None \notin Specs

P == INSTANCE Previews
R == INSTANCE Rollout WITH ProxySpecs <- [p \in Proxies |-> Specs], wanted <- Wanted

Init ==
  /\ P!Init /\ R!Init
  /\ proposed = InitOpen
  /\ blocked = InitBlocked /\ keyless = InitKeyless
  /\ left \in Budgets

Spend(kind) == left[kind] > 0 /\ left' = [left EXCEPT ![kind] = @ - 1]

-----------------------------------------------------------------------------
(* The generator controller.                                                *)
Poll(g) ==
  /\ P!Begin(g, SourceOf[g])
  /\ UNCHANGED <<rolloutVars, shown, proposed, obstacles, left>>

Pass(x, pr) ==
  /\ P!PassOver(x, pr)
  /\ UNCHANGED <<rolloutVars, shown, proposed, obstacles, left>>

EndPoll(x) ==
  /\ P!End(x)
  /\ UNCHANGED <<rolloutVars, shown, proposed, obstacles, left>>

(* The proxy that is written is what the other controller now wants.        *)
Write(x, pr) ==
  LET p == <<x.gen, pr.number>>
      s == SpecOf(proxies'[x.gen][pr.number])
  IN /\ P!Propose(x, pr)
     /\ R!Want(p, s)
     /\ shown' = [shown EXCEPT ![p] = @ \cup {s}]
     /\ UNCHANGED <<proposed, obstacles, left>>

(* The proxy controller. Its cache may lag behind: it shows what is stored, *)
(* or what was stored since it was last known to be up to date.             *)
CatchUp(p) ==
  LET current == {Wanted[p]} \ {None} IN
  /\ shown[p] # current
  /\ shown' = [shown EXCEPT ![p] = current]
  /\ UNCHANGED <<previewVars, rolloutVars, proposed, obstacles, left>>

Deploy(p) ==
  /\ UNCHANGED <<previewVars, shown, proposed, obstacles, left>>
  /\ \/ \E s \in shown[p] : R!Begin(p, s)
     \/ \E x \in passes : x.proxy = p /\ R!Pass(x)

(* Both live in one process.                                                *)
Restart ==
  /\ P!Restart /\ R!Restart /\ Spend("event")
  /\ UNCHANGED <<shown, proposed, obstacles>>

-----------------------------------------------------------------------------
(* Developers, users and clusters.                                          *)
Open(u, pr) ==
  /\ P!Open(u, pr) /\ Spend("pr")
  /\ proposed' = [proposed EXCEPT ![u] = @ \cup {pr}]
  /\ UNCHANGED <<rolloutVars, shown, obstacles>>

Close(u, pr) ==
  /\ pr \in open[u] /\ P!Close(u, pr) /\ Spend("pr")
  /\ UNCHANGED <<rolloutVars, shown, proposed, obstacles>>

(* Nothing deletes the proxy of a closed pull request but a user, or the    *)
(* garbage collector with its generator.                                    *)
Discard(g, n) ==
  /\ proxies[g][n] # None
  /\ P!Discard(g, n) /\ R!Withdraw(<<g, n>>) /\ Spend("discard")
  /\ UNCHANGED <<shown, proposed, obstacles>>

Push(u, ref) ==
  /\ UNCHANGED <<previewVars, shown, proposed, obstacles>>
  /\ R!Push(u, ref) /\ Spend("event")

Relabel(c, l) ==
  /\ UNCHANGED <<previewVars, shown, proposed, obstacles>>
  /\ label[c] # l /\ R!Relabel(c, l) /\ Spend("event")

Lose(c, r) ==
  /\ UNCHANGED <<previewVars, shown, proposed, obstacles>>
  /\ deployed[c][r] # None /\ R!Lose(c, r) /\ Spend("event")

(* The Secret of a repository disappears, is no longer accepted or is put    *)
(* right; its program stops to synthesize, or emits a kind whose naive       *)
(* plural no cluster serves, or is mended.                                   *)
Obstruct(u) ==
  /\ blocked' \in {blocked \cup {u}, blocked \ {u}} \ {blocked}
  /\ Spend("obstacle")
  /\ UNCHANGED <<previewVars, rolloutVars, shown, proposed, keyless>>

(* The kubeconfig Secret of a cluster comes or goes.                        *)
Rekey(c) ==
  /\ keyless' \in {keyless \cup {c}, keyless \ {c}} \ {keyless}
  /\ Spend("obstacle")
  /\ UNCHANGED <<previewVars, rolloutVars, shown, proposed, blocked>>

-----------------------------------------------------------------------------
Manager ==
  \/ \E g \in Generators : Poll(g)
  \/ \E x \in polls : EndPoll(x) \/ \E pr \in x.page : Write(x, pr) \/ Pass(x, pr)
  \/ \E p \in Proxies : CatchUp(p) \/ Deploy(p)

Environment ==
  \/ Restart
  \/ \E u \in Urls : \/ \E pr \in PullRequests[u] : Open(u, pr) \/ Close(u, pr)
                     \/ \E ref \in Refs : Push(u, ref)
                     \/ Obstruct(u)
  \/ \E g \in Generators, n \in Numbers : Discard(g, n)
  \/ \E c \in Clusters : \/ \E l \in Labels \cup {Gone} : Relabel(c, l)
                         \/ \E r \in Resources : Lose(c, r)
                         \/ Rekey(c)

Next == Manager \/ Environment

Spec == Init /\ [][Next]_vars

(* Nothing outside the manager stands in the way of the proxy's passes. One  *)
(* selected cluster without a kubeconfig is enough: Apply leaves its loop    *)
(* over the clusters there, and which clusters come first is not said.       *)
Clear(p) ==
  /\ Wanted[p] # None /\ Wanted[p].git.url \notin blocked
  /\ \A c \in keyless : label[c] \notin Wanted[p].sel

(* A generator polls again and again while its repository can be polled, and *)
(* gets on with its polls; what can be written time and again is written (a  *)
(* conflict, a lost answer or a stale cache spoils one poll, not every       *)
(* poll); every proxy that nothing obstructs is reconciled time and again,   *)
(* and a pass that can go on time and again without an obstacle once does.   *)
(* Of an obstructed repository or proxy nothing is assumed but that a poll   *)
(* or a pass that is under way ends.                                         *)
Pollable(g) == SourceOf[g].url \notin blocked

WritesFor(g, n) ==
  \E x \in polls : x.gen = g /\ \E pr \in x.page : pr.number = n /\ Write(x, pr)

PassesOver(g) ==
  \E x \in polls :
    /\ x.gen = g
    /\ \/ x.page = {} /\ EndPoll(x)
       \/ \E pr \in x.page : Pass(x, pr)

Within(p, A(_)) ==
  /\ UNCHANGED <<previewVars, shown, proposed, obstacles, left>>
  /\ \E x \in passes : x.proxy = p /\ x.spec = Wanted[p] /\ A(x)

Begins(p) ==
  /\ UNCHANGED <<previewVars, shown, proposed, obstacles, left>>
  /\ Wanted[p] # None /\ R!Begin(p, Wanted[p])

Aims(p) == Within(p, R!Aim)

(* Something is brought up to the newest commit.                            *)
Puts(p) ==
  LET Put(x) == /\ x.commit.rev = head[x.commit.url][x.commit.ref]
                /\ \E c \in Clusters, i \in DOMAIN Manifests[x.commit.url] : R!Put(x, c, i)
                /\ deployed' # deployed
  IN Within(p, Put)

Ends(p) ==
  /\ UNCHANGED <<previewVars, shown, proposed, obstacles, left>>
  /\ \E x \in passes : x.proxy = p /\ (R!Declare(x) \/ R!Abandon(x))

Fairness ==
  /\ \A g \in Generators :
       /\ WF_vars(Pollable(g) /\ Poll(g)) /\ WF_vars(PassesOver(g))
       /\ \A n \in Numbers : SF_vars(WritesFor(g, n))
  /\ \A p \in Proxies :
       /\ WF_vars(CatchUp(p)) /\ WF_vars(Ends(p))
       /\ WF_vars(Clear(p) /\ Begins(p))
       /\ SF_vars(Clear(p) /\ Aims(p)) /\ SF_vars(Clear(p) /\ Puts(p))

FairSpec == Spec /\ Fairness

-----------------------------------------------------------------------------
(* What proposed records: all that has been open so far.                    *)
Proposals ==
  /\ proposed = InitOpen
  /\ [][proposed' = [u \in Urls |-> proposed[u] \cup open'[u]]]_<<open, proposed>>

(* Nothing reaches a cluster but commits of branches that have been put up  *)
(* for review in the repository they come from, however late the pass that  *)
(* brings them and whatever was closed, edited or restarted meanwhile (the  *)
(* rendering of the proxy, its immutable URL, the clone of the branch the   *)
(* proxy names).                                                            *)
OnlyProposedCode ==
  \A c \in Clusters, r \in Resources : deployed[c][r] # None =>
    \E pr \in proposed[deployed[c][r].url] : pr.branch = deployed[c][r].ref

(* The pull request's proxy has no rival: no other proxy, be it of a pull   *)
(* request that was closed long ago, writes a resource of its repository    *)
(* to a cluster that it selects too.                                        *)
Unrivalled(g, pr) ==
  \A p \in Proxies \ {<<g, pr.number>>} :
    Wanted[p] # None =>
      \/ Selects[SourceOf[g].template] \cap Wanted[p].sel = {}
      \/ \A i \in DOMAIN Manifests[SourceOf[g].url], j \in DOMAIN Manifests[Wanted[p].git.url] :
           Manifests[SourceOf[g].url][i] # Manifests[Wanted[p].git.url][j]

(* The cluster c is to run the pull request.                                *)
Awaits(c, g, pr) ==
  LET s == SourceOf[g] IN
  /\ pr \in open[s.url] /\ P!Admits(s, pr) /\ Cardinality(open[s.url]) <= PageSize
  /\ Unrivalled(g, pr) /\ Pollable(g)
  /\ \A d \in keyless : label[d] \notin Selects[s.template]
  /\ head[s.url][pr.branch] > 0 /\ label[c] \in Selects[s.template]

Newest(u, ref) == [url |-> u, ref |-> ref, rev |-> head[u][ref]]

(* "Automatically deploys a Preview Environment containing the changes from *)
(* my PR branch", and "updates the environment whenever I push new commits":*)
(* once the environment has calmed down, the newest commit of every open    *)
(* pull request is what all clusters of its template run, if it passes the  *)
(* filters, fits the page and has no rival, and if nothing is in the way at  *)
(* the end, whatever was meanwhile: proxies are discarded behind the         *)
(* generator's back, clusters come without a kubeconfig, resources           *)
(* disappear, the manager is restarted.                                      *)
EnvironmentFollows ==
  <>[](\A g \in Generators :
         LET u == SourceOf[g].url IN
         \A pr \in PullRequests[u], c \in Clusters :
           Awaits(c, g, pr) =>
             \A i \in DOMAIN Manifests[u] : deployed[c][Manifests[u][i]] = Newest(u, pr.branch))
=============================================================================
