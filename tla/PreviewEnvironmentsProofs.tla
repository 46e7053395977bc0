---------------------- MODULE PreviewEnvironmentsProofs ----------------------
(***************************************************************************)
(* Only code of pull requests is deployed, for every number of generators,  *)
(* pull requests, clusters and passes, and by any two controllers of which  *)
(* the one keeps Previews and the other Rollout, however their steps        *)
(* interleave or coincide. The branch that a deployed commit comes from is  *)
(* followed back through the pass that brought it, the spec the pass read,  *)
(* the stored proxy, and the page of the poll that wrote it.                *)
(***************************************************************************)
EXTENDS PreviewEnvironments, TLAPS

Requests == UNION {PullRequests[u] : u \in Urls}

Backed(git) == git.url \in Urls /\ \E pr \in proposed[git.url] : pr.branch = git.ref

PreviewShapes ==
  /\ open \in [Urls -> SUBSET Requests]
  /\ DOMAIN proxies = Generators /\ \A g \in Generators : DOMAIN proxies[g] = Numbers
  /\ \A x \in polls : /\ DOMAIN x = {"gen", "source", "page"} /\ x.gen \in Generators
                      /\ x.source \in Sources /\ x.page \subseteq Requests

RolloutShapes ==
  /\ DOMAIN shown = Proxies
  /\ DOMAIN deployed = Clusters /\ \A c \in Clusters : DOMAIN deployed[c] = Resources
  /\ \A x \in passes : DOMAIN x = {"proxy", "spec", "targets", "commit"}

(* The stored spec can be read.                                             *)
Visible == \A p \in Proxies : Wanted[p] # None => Wanted[p] \in shown[p]

OpenBacked ==
  /\ proposed \in [Urls -> SUBSET Requests]
  /\ \A u \in Urls : open[u] \subseteq proposed[u]

PollsBacked == \A x \in polls : x.page \subseteq proposed[x.source.url]

ProxiesBacked ==
  \A g \in Generators, n \in Numbers : proxies[g][n] # None => Backed(proxies[g][n])

ShownBacked == \A p \in Proxies : \A s \in shown[p] : Backed(s.git)

PassesBacked == \A x \in passes : Backed(x.commit)

DeployedBacked ==
  \A c \in Clusters, r \in Resources : deployed[c][r] # None => Backed(deployed[c][r])

PreviewInv == PreviewShapes /\ OpenBacked /\ PollsBacked /\ ProxiesBacked

RolloutInv == RolloutShapes /\ Visible /\ ShownBacked /\ PassesBacked /\ DeployedBacked

AllBacked == PreviewInv /\ RolloutInv

(* A step of the one, of the other, of both at once, or of neither.         *)
Proposal == proposed' = [u \in Urls |-> proposed[u] \cup open'[u]]

Joint == [P!Next]_(P!vars) /\ [R!Next]_(R!vars) /\ [Proposal]_<<open, proposed>>

USE DEF Backed

LEMMA SourceUrls == \A s \in Sources : s.url \in Urls
BY EnvironmentConstants DEF Sources

LEMMA JointInit == P!Init /\ R!Init /\ proposed = InitOpen => AllBacked
<1> SUFFICES ASSUME P!Init, R!Init, proposed = InitOpen PROVE AllBacked
  OBVIOUS
<1>1. PreviewInv
  BY EnvironmentConstants
  DEF P!Init, PreviewInv, PreviewShapes, OpenBacked, PollsBacked, ProxiesBacked, Requests
<1>2. RolloutInv
  BY DEF R!Init, RolloutInv, RolloutShapes, Visible, ShownBacked, PassesBacked, DeployedBacked
<1> QED BY <1>1, <1>2 DEF AllBacked

-----------------------------------------------------------------------------
(* What is proposed stays proposed, so what is backed stays backed.         *)
LEMMA ProposedGrows ==
  ASSUME PreviewInv, PreviewShapes', [Proposal]_<<open, proposed>>
  PROVE  /\ OpenBacked'
         /\ \A u \in Urls : proposed[u] \subseteq proposed'[u]
         /\ \A git : Backed(git) => git.url \in Urls /\ \E pr \in proposed'[git.url] : pr.branch = git.ref
<1>1. OpenBacked' /\ \A u \in Urls : proposed[u] \subseteq proposed'[u]
  BY DEF PreviewInv, PreviewShapes, OpenBacked, Proposal
<1> QED BY <1>1

(* The polls after one of them has got on with its page, or has ended.      *)
LEMMA ShorterPolls ==
  ASSUME PreviewInv, NEW x \in polls, NEW pr,
         polls' = P!Shorter(x, pr) \/ polls' = polls \ {x}
  PROVE  \A y \in polls' : \E z \in polls : /\ DOMAIN y = DOMAIN z /\ y.gen = z.gen
                                            /\ y.source = z.source /\ y.page \subseteq z.page
<1> DEFINE y == [x EXCEPT !.page = @ \ {pr}]
<1>1. DOMAIN y = DOMAIN x /\ y.gen = x.gen /\ y.source = x.source /\ y.page = x.page \ {pr}
  BY DEF PreviewInv, PreviewShapes
<1>2. \A z \in polls' : z \in polls \/ z = y
  BY DEF P!Shorter
<1> HIDE DEF y
<1> QED BY <1>1, <1>2

(* What a step of Previews leaves is backed by what was proposed before it. *)
PreviewsKept ==
  /\ PreviewShapes'
  /\ \A x \in polls' : x.page \subseteq proposed[x.source.url]
  /\ \A g \in Generators, n \in Numbers : proxies'[g][n] # None => Backed(proxies'[g][n])

LEMMA BeginKeeps ==
  ASSUME PreviewInv, NEW g \in Generators, NEW s \in Sources, P!Begin(g, s)
  PROVE  PreviewsKept
<1>1. PICK page \in SUBSET open[s.url] :
        polls' = polls \cup {[gen |-> g, source |-> s, page |-> page]}
  BY DEF P!Begin
<1>2. s.url \in Urls
  BY SourceUrls
<1> QED
  BY <1>1, <1>2 DEF P!Begin, PreviewInv, PreviewShapes, OpenBacked, PollsBacked, ProxiesBacked,
                    PreviewsKept

LEMMA ShorterKeeps ==
  ASSUME PreviewInv, NEW x \in polls, NEW pr,
         polls' = P!Shorter(x, pr) \/ polls' = polls \ {x}, UNCHANGED <<open, proxies>>
  PROVE  PreviewsKept
BY ShorterPolls DEF PreviewInv, PreviewShapes, PollsBacked, ProxiesBacked, PreviewsKept

LEMMA ProposeKeeps ==
  ASSUME PreviewInv, NEW x \in polls, NEW pr \in x.page, P!Propose(x, pr)
  PROVE  PreviewsKept
<1> DEFINE proxy == [url |-> x.source.url, ref |-> pr.branch, template |-> x.source.template]
<1>1. /\ proxies' = [proxies EXCEPT ![x.gen][pr.number] = proxy]
      /\ polls' = P!Shorter(x, pr) /\ open' = open
  BY DEF P!Propose
<1>2. Backed(proxy)
  BY SourceUrls DEF PreviewInv, PreviewShapes, PollsBacked
<1>3. \A g \in Generators, n \in Numbers : proxies'[g][n] # None => Backed(proxies'[g][n])
  <2> HIDE DEF proxy
  <2> QED BY <1>1, <1>2 DEF PreviewInv, PreviewShapes, ProxiesBacked
<1>4. DOMAIN proxies' = Generators /\ \A g \in Generators : DOMAIN proxies'[g] = Numbers
  BY <1>1 DEF PreviewInv, PreviewShapes
<1> HIDE DEF proxy
<1> QED BY <1>1, <1>3, <1>4, ShorterPolls DEF PreviewInv, PreviewShapes, PollsBacked, PreviewsKept

LEMMA UsersKeep ==
  ASSUME PreviewInv,
         \/ P!Restart
         \/ \E u \in Urls : \E pr \in PullRequests[u] : P!Open(u, pr) \/ P!Close(u, pr)
         \/ \E g \in Generators, n \in Numbers : P!Discard(g, n)
  PROVE  PreviewsKept
<1> USE DEF PreviewInv, PreviewShapes, PollsBacked, ProxiesBacked, PreviewsKept
<1>1. CASE P!Restart
  BY <1>1 DEF P!Restart
<1>2. ASSUME NEW u \in Urls, NEW pr \in PullRequests[u], P!Open(u, pr) \/ P!Close(u, pr)
      PROVE  PreviewsKept
  <2>1. open' \in [Urls -> SUBSET Requests]
    BY <1>2 DEF P!Open, P!Close, Requests
  <2> QED BY <1>2, <2>1 DEF P!Open, P!Close
<1>3. ASSUME NEW g \in Generators, NEW n \in Numbers, P!Discard(g, n)
      PROVE  PreviewsKept
  BY <1>3 DEF P!Discard
<1> QED BY <1>1, <1>2, <1>3

LEMMA PreviewStep ==
  ASSUME PreviewInv, [P!Next]_(P!vars)
  PROVE  PreviewsKept
<1>1. CASE P!Next
  <2>1. ASSUME NEW x \in polls, P!End(x) \/ \E pr \in x.page : P!PassOver(x, pr)
        PROVE  PreviewsKept
    BY <2>1, ShorterKeeps DEF P!End, P!PassOver
  <2> QED BY <1>1, <2>1, BeginKeeps, ProposeKeeps, UsersKeep DEF P!Next
<1>2. CASE UNCHANGED P!vars
  BY <1>2 DEF P!vars, PreviewInv, PreviewShapes, PollsBacked, ProxiesBacked, PreviewsKept
<1> QED BY <1>1, <1>2

-----------------------------------------------------------------------------
(* What a step of Rollout leaves on the clusters, and the passes, come from *)
(* specs that could be read before it.                                      *)
RolloutKept ==
  /\ RolloutShapes' /\ Visible'
  /\ \A p \in Proxies : \A s \in shown'[p] : s \in shown[p] \/ (Wanted'[p] # None /\ s = Wanted'[p])
  /\ \A x \in passes' : Backed(x.commit)
  /\ \A c \in Clusters, r \in Resources : deployed'[c][r] # None => Backed(deployed'[c][r])

(* A step that changes nothing but passes and deployed.                     *)
WorkKept ==
  /\ \A x \in passes' : DOMAIN x = {"proxy", "spec", "targets", "commit"} /\ Backed(x.commit)
  /\ DOMAIN deployed' = Clusters /\ \A c \in Clusters : DOMAIN deployed'[c] = Resources
  /\ \A c \in Clusters, r \in Resources : deployed'[c][r] # None => Backed(deployed'[c][r])

LEMMA PassKeeps ==
  ASSUME RolloutInv, NEW x \in passes, R!Pass(x)
  PROVE  WorkKept
<1> USE DEF RolloutInv, RolloutShapes, PassesBacked, DeployedBacked, WorkKept
<1>1. CASE R!Aim(x)
  <2> DEFINE y == [x EXCEPT !.targets = {c \in Clusters : label[c] \in x.spec.sel}]
  <2>1. DOMAIN y = {"proxy", "spec", "targets", "commit"} /\ y.commit = x.commit
    OBVIOUS
  <2>2. \A z \in passes' : z \in passes \/ z = y
    BY <1>1 DEF R!Aim
  <2> HIDE DEF y
  <2> QED BY <1>1, <2>1, <2>2 DEF R!Aim
<1>2. CASE R!Declare(x) \/ R!Abandon(x)
  BY <1>2 DEF R!Declare, R!Abandon
<1>3. ASSUME NEW c \in Clusters, NEW i \in DOMAIN Manifests[x.commit.url], R!Put(x, c, i)
      PROVE  WorkKept
  BY <1>3 DEF R!Put
<1> QED BY <1>1, <1>2, <1>3 DEF R!Pass

LEMMA StepKeeps ==
  ASSUME RolloutInv, R!Step
  PROVE  WorkKept
<1> USE DEF RolloutInv, RolloutShapes, PassesBacked, DeployedBacked, WorkKept
<1>1. ASSUME NEW p \in Proxies, NEW s \in shown[p], R!Begin(p, s)
      PROVE  WorkKept
  <2>1. Backed(s.git)
    BY DEF ShownBacked
  <2> QED BY <1>1, <2>1 DEF R!Begin
<1>2. ASSUME NEW p \in Proxies, R!Withdraw(p) \/ \E s \in Specs : R!Want(p, s)
      PROVE  WorkKept
  BY <1>2 DEF R!Withdraw, R!Want
<1>3. CASE R!Restart
  BY <1>3 DEF R!Restart
<1>4. CASE \/ \E u \in Urls, ref \in Refs : R!Push(u, ref)
           \/ \E c \in Clusters, l \in Labels \cup {Gone} : R!Relabel(c, l)
  BY <1>4 DEF R!Push, R!Relabel
<1>5. ASSUME NEW c \in Clusters, NEW r \in Resources, R!Lose(c, r)
      PROVE  WorkKept
  BY <1>5 DEF R!Lose
<1> QED BY <1>1, <1>2, <1>3, <1>4, <1>5, PassKeeps DEF R!Step

LEMMA RolloutStep ==
  ASSUME RolloutInv, [R!Next]_(R!vars)
  PROVE  RolloutKept
<1> USE DEF RolloutInv, RolloutShapes, Visible, PassesBacked, DeployedBacked, RolloutKept
<1>1. CASE R!Next
  <2>1. WorkKept
    <3>1. CASE R!Look
      BY <3>1 DEF R!Look, WorkKept
    <3> QED BY <1>1, <3>1, StepKeeps DEF R!Next
  <2>2. R!Sight
    BY <1>1 DEF R!Next
  <2> HIDE DEF Wanted
  <2> QED BY <2>1, <2>2 DEF WorkKept, R!Sight
<1>2. CASE UNCHANGED R!vars
  <2> HIDE DEF Wanted
  <2> QED BY <1>2 DEF R!vars
<1> QED BY <1>1, <1>2

LEMMA JointStep ==
  ASSUME AllBacked, Joint
  PROVE  AllBacked'
<1>1. PreviewsKept /\ RolloutKept
  BY PreviewStep, RolloutStep DEF AllBacked, Joint
<1>2. /\ OpenBacked' /\ \A u \in Urls : proposed[u] \subseteq proposed'[u]
      /\ \A git : Backed(git) => git.url \in Urls /\ \E pr \in proposed'[git.url] : pr.branch = git.ref
  BY <1>1, ProposedGrows DEF AllBacked, Joint, PreviewsKept
<1>3. PollsBacked'
  <2> SUFFICES ASSUME NEW x \in polls' PROVE x.page \subseteq proposed'[x.source.url]
    BY DEF PollsBacked
  <2>1. x.page \subseteq proposed[x.source.url] /\ x.source.url \in Urls
    BY <1>1, SourceUrls DEF PreviewsKept, PreviewShapes
  <2> QED BY <1>2, <2>1
<1>4. ProxiesBacked'
  BY <1>1, <1>2 DEF PreviewsKept, ProxiesBacked
<1>5. ASSUME NEW p \in Proxies, Wanted'[p] # None
      PROVE  Wanted'[p].git.url \in Urls /\ \E pr \in proposed'[Wanted'[p].git.url] : pr.branch = Wanted'[p].git.ref
  <2>1. p[1] \in Generators /\ p[2] \in Numbers
    BY DEF Proxies
  <2>2. proxies'[p[1]][p[2]] # None /\ Wanted'[p] = SpecOf(proxies'[p[1]][p[2]])
    BY <1>5 DEF Wanted, SpecOf
  <2> QED BY <1>4, <2>1, <2>2 DEF SpecOf, ProxiesBacked
<1>6. ShownBacked' /\ PassesBacked' /\ DeployedBacked'
  <2> HIDE DEF Wanted
  <2>1. ShownBacked'
    BY <1>1, <1>2, <1>5 DEF RolloutKept, AllBacked, RolloutInv, ShownBacked
  <2> QED BY <1>1, <1>2, <2>1 DEF RolloutKept, PassesBacked, DeployedBacked
<1> QED
  BY <1>1, <1>2, <1>3, <1>4, <1>6
  DEF AllBacked, PreviewInv, RolloutInv, PreviewsKept, RolloutKept

(* Any two controllers that keep what Previews and Rollout promise deploy   *)
(* nothing but proposed code, be their steps taken in turn or at once: what *)
(* joins them is that the specs one wants are the proxies the other wrote   *)
(* (the object in the API server, read by Get in Reconcile).                *)
THEOREM OnlyProposedCodeOfBoth == P!Spec /\ R!Spec /\ Proposals => []OnlyProposedCode
<1>1. AllBacked => OnlyProposedCode
  BY DEF AllBacked, RolloutInv, DeployedBacked, OnlyProposedCode
<1>2. AllBacked /\ [P!Next]_(P!vars) /\ [R!Next]_(R!vars) /\ [Proposal]_<<open, proposed>>
        => AllBacked'
  BY JointStep DEF Joint
<1> QED BY <1>1, <1>2, JointInit, PTL DEF P!Spec, R!Spec, Proposals, Proposal

-----------------------------------------------------------------------------
(* The two controllers of PreviewEnvironments are two such controllers.     *)
LEMMA WantedKept == proxies' = proxies => Wanted' = Wanted
BY DEF Wanted

(* Where only the proxy controller, or the world, has got on.               *)
LEMMA RolloutAlone ==
  ASSUME AllBacked, UNCHANGED <<previewVars, shown, proposed>>, R!Step \/ R!Look
  PROVE  Joint
<1>1. [P!Next]_(P!vars) /\ [Proposal]_<<open, proposed>>
  BY DEF previewVars, P!vars
<1>2. R!Sight
  <2>1. Wanted' = Wanted /\ shown' = shown
    BY WantedKept DEF previewVars
  <2> HIDE DEF Wanted
  <2> QED BY <2>1 DEF AllBacked, RolloutInv, RolloutShapes, Visible, R!Sight
<1> QED BY <1>1, <1>2 DEF Joint, R!Next

(* Where only the generator controller, or the providers, have got on.      *)
LEMMA PreviewsAlone ==
  ASSUME P!Next, UNCHANGED <<proxies, rolloutVars, shown>>, [Proposal]_<<open, proposed>>
  PROVE  Joint
BY WantedKept DEF Joint, R!vars, rolloutVars

LEMMA WriteJoins ==
  ASSUME AllBacked, NEW x \in polls, NEW pr \in x.page, Write(x, pr)
  PROVE  Joint
<1> DEFINE p == <<x.gen, pr.number>>
           s == SpecOf(proxies'[x.gen][pr.number])
<1>1. /\ x.gen \in Generators /\ x.source \in Sources /\ pr \in Requests
      /\ pr.number \in Numbers /\ pr.branch \in Refs
  BY EnvironmentConstants DEF AllBacked, PreviewInv, PreviewShapes, Requests
<1>2. p \in Proxies
  BY <1>1 DEF Proxies
<1>3. s \in Specs /\ s # None
  <2>1. proxies'[x.gen][pr.number] =
          [url |-> x.source.url, ref |-> pr.branch, template |-> x.source.template]
    BY <1>1 DEF Write, P!Propose, AllBacked, PreviewInv, PreviewShapes
  <2>2. x.source.url \in Urls /\ x.source.template \in DOMAIN Selects
    BY <1>1, EnvironmentConstants DEF Sources
  <2> QED BY <1>1, <2>1, <2>2, NoneIsNoSpec DEF SpecOf, Specs
<1>4. P!Next
  BY DEF Write, P!Next
<1>5. R!Want(p, s) /\ shown' = [shown EXCEPT ![p] = @ \cup {s}]
  BY DEF Write
<1>6. R!Step
  BY <1>2, <1>3, <1>5 DEF R!Step
<1>7. R!Sight
  <2>1. Wanted' = [Wanted EXCEPT ![p] = s]
    BY <1>5 DEF R!Want
  <2>2. DOMAIN Wanted = Proxies
    BY DEF Wanted
  <2> HIDE DEF Wanted, s, p
  <2> QED
    BY <1>2, <1>3, <1>5, <2>1, <2>2 DEF AllBacked, RolloutInv, RolloutShapes, Visible, R!Sight
<1>8. [Proposal]_<<open, proposed>>
  BY DEF Write, P!Propose
<1> QED BY <1>4, <1>6, <1>7, <1>8 DEF Joint, R!Next

LEMMA CatchUpJoins ==
  ASSUME AllBacked, NEW p \in Proxies, CatchUp(p)
  PROVE  Joint
<1>1. Wanted' = Wanted /\ shown' = [shown EXCEPT ![p] = {Wanted[p]} \ {None}]
  BY WantedKept DEF CatchUp, previewVars
<1>2. R!Sight
  <2> HIDE DEF Wanted
  <2> QED BY <1>1 DEF AllBacked, RolloutInv, RolloutShapes, Visible, R!Sight
<1>3. R!Look
  BY <1>1 DEF R!Look, CatchUp, rolloutVars
<1> QED BY <1>2, <1>3 DEF Joint, R!Next, CatchUp, previewVars, P!vars

LEMMA ManagerJoins ==
  ASSUME AllBacked, Manager
  PROVE  Joint
<1>1. ASSUME NEW g \in Generators, Poll(g) PROVE Joint
  <2>1. P!Next
    BY <1>1 DEF Poll, P!Next, Sources
  <2> QED BY <1>1, <2>1, PreviewsAlone DEF Poll, P!Begin
<1>2. ASSUME NEW x \in polls, EndPoll(x) PROVE Joint
  <2>1. P!Next
    BY <1>2 DEF EndPoll, P!Next
  <2> QED BY <1>2, <2>1, PreviewsAlone DEF EndPoll, P!End
<1>3. ASSUME NEW x \in polls, NEW pr \in x.page, Pass(x, pr) PROVE Joint
  <2>1. P!Next
    BY <1>3 DEF Pass, P!Next
  <2> QED BY <1>3, <2>1, PreviewsAlone DEF Pass, P!PassOver
<1>4. ASSUME NEW p \in Proxies, Deploy(p) PROVE Joint
  <2>1. R!Step
    BY <1>4 DEF Deploy, R!Step
  <2> QED BY <1>4, <2>1, RolloutAlone DEF Deploy
<1> QED BY <1>1, <1>2, <1>3, <1>4, WriteJoins, CatchUpJoins DEF Manager

LEMMA EnvironmentJoins ==
  ASSUME AllBacked, Environment
  PROVE  Joint
<1>1. CASE Restart
  <2>1. P!Next /\ R!Step /\ UNCHANGED <<proxies, shown, open, proposed>>
    BY <1>1 DEF Restart, P!Next, R!Step, P!Restart
  <2>2. R!Sight
    <3>1. Wanted' = Wanted
      BY <2>1, WantedKept
    <3> HIDE DEF Wanted
    <3> QED BY <2>1, <3>1 DEF AllBacked, RolloutInv, RolloutShapes, Visible, R!Sight
  <2> QED BY <2>1, <2>2 DEF Joint, R!Next
<1>2. ASSUME NEW u \in Urls, NEW pr \in PullRequests[u], Open(u, pr) \/ Close(u, pr)
      PROVE  Joint
  <2>1. P!Next
    BY <1>2 DEF Open, Close, P!Next
  <2>2. Proposal
    BY <1>2 DEF Open, Close, P!Open, P!Close, Proposal, AllBacked, PreviewInv, PreviewShapes, OpenBacked
  <2> QED BY <1>2, <2>1, <2>2, PreviewsAlone DEF Open, Close, P!Open, P!Close
<1>3. ASSUME NEW g \in Generators, NEW n \in Numbers, Discard(g, n)
      PROVE  Joint
  <2>1. <<g, n>> \in Proxies
    BY DEF Proxies
  <2>2. P!Next /\ R!Step /\ UNCHANGED <<shown, open, proposed>>
    BY <1>3, <2>1 DEF Discard, P!Next, R!Step, P!Discard
  <2>3. R!Sight
    <3>1. Wanted' = [Wanted EXCEPT ![<<g, n>>] = None] /\ DOMAIN Wanted = Proxies
      BY <1>3 DEF Discard, R!Withdraw, Wanted
    <3> HIDE DEF Wanted
    <3> QED BY <2>1, <2>2, <3>1 DEF AllBacked, RolloutInv, RolloutShapes, Visible, R!Sight
  <2> QED BY <2>2, <2>3 DEF Joint, R!Next
<1>4. ASSUME NEW u \in Urls, NEW ref \in Refs, Push(u, ref) PROVE Joint
  BY <1>4, RolloutAlone DEF Push, R!Step
<1>5. ASSUME NEW c \in Clusters, \/ \E l \in Labels \cup {Gone} : Relabel(c, l)
                                 \/ \E r \in Resources : Lose(c, r)
      PROVE  Joint
  <2>1. R!Step /\ UNCHANGED <<previewVars, shown, proposed>>
    BY <1>5 DEF Relabel, Lose, R!Step
  <2> QED BY <2>1, RolloutAlone
<1>6. ASSUME UNCHANGED <<previewVars, rolloutVars, shown, proposed>> PROVE Joint
  BY <1>6, WantedKept DEF Joint, P!vars, R!vars, previewVars, rolloutVars
<1>7. ASSUME \/ \E u \in Urls : Obstruct(u)
             \/ \E c \in Clusters : Rekey(c)
      PROVE  Joint
  BY <1>6, <1>7 DEF Obstruct, Rekey
<1> QED BY <1>1, <1>2, <1>3, <1>4, <1>5, <1>7 DEF Environment

LEMMA StepJoins == AllBacked /\ [Next]_vars => Joint
<1> SUFFICES ASSUME AllBacked, [Next]_vars PROVE Joint
  OBVIOUS
<1>1. CASE UNCHANGED vars
  BY <1>1, WantedKept DEF vars, Joint, P!vars, R!vars
<1> QED BY <1>1, ManagerJoins, EnvironmentJoins DEF Next

(* PreviewEnvironments, on which EnvironmentFollows is checked, takes no    *)
(* liberties: each of its behaviours is one of the generator controller's   *)
(* specification and one of the proxy controller's (SetupWithManager of     *)
(* both in main).                                                           *)
THEOREM EnvironmentIsBoth == Spec => P!Spec /\ R!Spec /\ Proposals
<1>1. Init => P!Init /\ R!Init /\ proposed = InitOpen
  BY DEF Init
<1>2. AllBacked /\ [Next]_vars
        => /\ AllBacked' /\ [P!Next]_(P!vars) /\ [R!Next]_(R!vars)
           /\ [Proposal]_<<open, proposed>>
  BY StepJoins, JointStep DEF Joint
<1> QED BY <1>1, <1>2, JointInit, PTL DEF Spec, P!Spec, R!Spec, Proposals, Proposal

(* However many polls, passes, proxies and clusters there are: what is on a *)
(* cluster was put up for review (the chain from ListPullRequests over the  *)
(* proxy's reference to Clone and Apply).                                   *)
THEOREM OnlyProposedCodeCorrect == Spec => []OnlyProposedCode
BY EnvironmentIsBoth, OnlyProposedCodeOfBoth, PTL
=============================================================================
