----------------------- MODULE GeneratorPreviewsProofs -----------------------
(***************************************************************************)
(* The generator controller implements Previews, for every value of the     *)
(* constants. Beside the invariants of the other proofs it takes one: what  *)
(* a worker has in hand is of the spec it still holds, although rendering   *)
(* writes into that spec.                                                   *)
(***************************************************************************)
EXTENDS GeneratorReconcilerProofs, GeneratorPreviews

HandFits(g) ==
  hand[g] # None =>
    /\ hand[g].spec.url = obj[g].spec.url /\ hand[g].spec.template = obj[g].spec.template
    /\ Passes(hand[g].pr, obj[g].spec)

HandsFit == \A g \in Generators : HandFits(g)

-----------------------------------------------------------------------------
(* The invariant.                                                           *)

(* Nothing of a worker changes that the invariant and the poll depend on.   *)
SameSource(g) ==
  /\ obj'[g] = None <=> obj[g] = None
  /\ obj[g] # None =>
       /\ obj'[g].spec.url = obj[g].spec.url
       /\ obj'[g].spec.filters = obj[g].spec.filters
       /\ obj'[g].spec.template = obj[g].spec.template

LEMMA TickSource ==
  ASSUME TypeOK, Tick, NEW g \in Generators
  PROVE  SameSource(g)
<1>1. obj'[g] = None <=> obj[g] = None
  BY AgedType DEF TypeOK, Tick
<1>2. CASE obj[g] # None
  <2>1. obj[g] \in Generator /\ obj'[g] = [obj[g] EXCEPT !.lastPolled = Older(@)]
    BY <1>2 DEF TypeOK, Tick, Aged
  <2>2. obj'[g].spec = obj[g].spec
    BY <2>1 DEF Generator
  <2> QED BY <1>1, <2>2 DEF SameSource
<1> QED BY <1>1, <1>2 DEF SameSource

(* Only the reference in the template's gitRepository is written.           *)
LEMMA RenderSource ==
  ASSUME TypeOK, NEW g \in Generators, NEW pr \in todo[g], pc[g] = "pr",
         obj' = IF obj[g].spec.tmplGit
                THEN [obj EXCEPT ![g].spec.tmplRef = Reference(obj[g], pr)] ELSE obj
  PROVE  \A h \in Generators : SameSource(h)
<1>1. obj[g] \in Generator /\ obj[g] # None /\ pr \in Requests
  BY BusyTypes, NoneIsNoValue DEF TypeOK
<1>2. [obj[g] EXCEPT !.spec.tmplRef = Reference(obj[g], pr)] \in Generator
  BY <1>1, RenderedType DEF Generator, GeneratorSpec
<1>3. /\ obj'[g] # None /\ obj'[g].spec.url = obj[g].spec.url
      /\ obj'[g].spec.filters = obj[g].spec.filters
      /\ obj'[g].spec.template = obj[g].spec.template
  BY <1>1, <1>2, NoneIsNoValue DEF TypeOK, Generator, GeneratorSpec
<1>4. \A h \in Generators \ {g} : obj'[h] = obj[h]
  BY DEF TypeOK
<1> QED BY <1>1, <1>3, <1>4 DEF SameSource

LEMMA FitsStay ==
  ASSUME TypeOK, HandsFit, NEW g \in Generators, SameSource(g),
         \/ hand'[g] = hand[g] \/ hand'[g] = None
         \/ hand[g] # None /\ hand'[g] = [hand[g] EXCEPT !.current = FALSE]
  PROVE  HandFits(g)'
<1>1. CASE hand'[g] = None
  BY <1>1 DEF HandFits
<1>2. CASE hand'[g] # None
  <2>1. hand[g] # None /\ hand[g] \in Hands /\ obj[g] # None
    BY <1>2, HandTypes DEF TypeOK, WorkerShape
  <2>2. hand'[g].pr = hand[g].pr /\ hand'[g].spec = hand[g].spec
    BY <1>2, <2>1 DEF Hands
  <2> QED BY <2>1, <2>2 DEF HandsFit, HandFits, SameSource, Passes
<1> QED BY <1>1, <1>2

LEMMA RenderFits ==
  ASSUME TypeOK, HandsFit, NEW g \in Generators, RenderAndGet(g)
  PROVE  HandsFit'
<1> PICK pr \in todo[g] :
      /\ pc[g] = "pr" /\ Passes(pr, obj[g].spec)
      /\ hand' = [hand EXCEPT ![g] =
            [pr |-> pr, spec |-> Rendered(obj[g], pr), existing |-> pcache[g][pr.number],
             current |-> <<g, pr.number>> \notin pstale]]
      /\ obj' = IF obj[g].spec.tmplGit
                THEN [obj EXCEPT ![g].spec.tmplRef = Reference(obj[g], pr)] ELSE obj
  BY DEF RenderAndGet
<1>1. \A h \in Generators : SameSource(h)
  BY RenderSource
<1>2. ASSUME NEW h \in Generators \ {g}
      PROVE  HandFits(h)'
  BY <1>1, FitsStay DEF TypeOK
<1>3. /\ hand'[g].pr = pr /\ hand'[g].spec.url = obj[g].spec.url
      /\ hand'[g].spec.template = obj[g].spec.template
  BY DEF TypeOK, Rendered
<1>4. obj[g] # None
  BY DEF TypeOK, WorkerShape
<1>5. HandFits(g)'
  BY <1>1, <1>3, <1>4 DEF HandFits, SameSource, Passes
<1> QED BY <1>2, <1>5 DEF HandsFit

LEMMA WorkerFits ==
  ASSUME TypeOK, HandsFit, NEW g \in Generators, WorkerStep(g) \/ Take(g)
  PROVE  HandsFit'
<1>1. CASE RenderAndGet(g)
  BY <1>1, RenderFits
<1>2. CASE Leave(g)
  <2>1. ASSUME NEW h \in Generators \ {g}
        PROVE  HandFits(h)'
    BY <1>2, FitsStay DEF TypeOK, Leave, SameSource
  <2>2. HandFits(g)'
    BY <1>2 DEF TypeOK, Leave, HandFits
  <2> QED BY <2>1, <2>2 DEF HandsFit
<1>3. CASE obj' = obj /\ (hand' = hand \/ hand' = [hand EXCEPT ![g] = None])
  <2>1. ASSUME NEW h \in Generators
        PROVE  HandFits(h)'
    BY <1>3, FitsStay DEF TypeOK, SameSource
  <2> QED BY <2>1 DEF HandsFit
<1>4. CASE Get(g)
  <2>1. hand[g] = None /\ hand' = hand /\ obj' = [obj EXCEPT ![g] = gcache[g]]
    BY <1>4 DEF Get, TypeOK, WorkerShape
  <2>2. ASSUME NEW h \in Generators \ {g}
        PROVE  HandFits(h)'
    BY <2>1, FitsStay DEF TypeOK, SameSource
  <2>3. HandFits(g)'
    BY <2>1 DEF HandFits
  <2> QED BY <2>2, <2>3 DEF HandsFit
<1> QED BY <1>1, <1>2, <1>3, <1>4
        DEF WorkerStep, Take, GetNotFound, Wait, FetchSecretRef, CheckRepository, ListPullRequests,
            Skip, Create, Update, Processed, RecordPoll, RecordConflict, RecordFails, Finish,
            Fail, locals

LEMMA EnvironmentFits ==
  ASSUME TypeOK, HandsFit, Environment
  PROVE  HandsFit'
<1>1. CASE Crash
  BY <1>1 DEF Crash, HandsFit, HandFits
<1>2. ASSUME NEW g \in Generators, NEW n \in Numbers, Outdate(g, n), obj' = obj
      PROVE  HandsFit'
  <2>1. ASSUME NEW h \in Generators
        PROVE  HandFits(h)'
    BY <1>2, FitsStay DEF Outdate, TypeOK, SameSource
  <2> QED BY <2>1 DEF HandsFit
<1>3. CASE UNCHANGED <<obj, hand>>
  BY <1>3 DEF HandsFit, HandFits, Passes
<1> QED BY <1>1, <1>2, <1>3
        DEF Environment, CreateGenerator, UpdateGenerator, DeleteGenerator, GarbageCollect,
            DeleteProxy, RemoveProxy, StatusWritten, OpenPullRequest, ClosePullRequest, SetSecret,
            locals

LEMMA StepFits == TypeOK /\ HandsFit /\ [Next]_vars => HandsFit'
<1> SUFFICES ASSUME TypeOK, HandsFit, [Next]_vars PROVE HandsFit'
  OBVIOUS
<1>1. ASSUME NEW g \in Generators,
             GeneratorSync(g) \/ Resync(g) \/ \E n \in Numbers : ProxySync(g, n)
      PROVE  UNCHANGED <<obj, hand>>
  BY <1>1 DEF GeneratorSync, Resync, ProxySync, locals
<1>2. CASE UNCHANGED <<obj, hand>>
  BY <1>2 DEF HandsFit, HandFits, Passes
<1>3. CASE Manager
  BY <1>1, <1>2, <1>3, WorkerFits DEF Manager
<1>4. CASE Tick
  <2>1. ASSUME NEW g \in Generators
        PROVE  HandFits(g)'
    BY <1>4, TickSource, FitsStay DEF Tick
  <2> QED BY <2>1 DEF HandsFit
<1> QED BY <1>2, <1>3, <1>4, EnvironmentFits DEF Next, vars

-----------------------------------------------------------------------------
(* How a step of the controller changes the polls.                          *)
AbstractStep == [P!Next]_(P!vars)

(* Neither begins nor ends a poll, nor gets on with it.                     *)
Steady(g) ==
  /\ Polling(g)' <=> Polling(g)
  /\ Polling(g) => SameSource(g) /\ todo'[g] = todo[g]

LEMMA PollingBusy ==
  ASSUME TypeOK, NEW g \in Generators, Polling(g)
  PROVE  /\ obj[g] # None /\ PollOf(g) \in Polls
         /\ PollOf(g).gen = g /\ PollOf(g).source = SourceOf(obj[g].spec)
         /\ PollOf(g).page = todo[g]
BY DEF Polling, Polls, PollOf, TypeOK, WorkerShape

LEMMA SteadySource ==
  ASSUME TypeOK, NEW g \in Generators, Polling(g), SameSource(g)
  PROVE  SourceOf(obj'[g].spec) = SourceOf(obj[g].spec)
BY PollingBusy DEF SameSource, SourceOf

LEMMA SteadyPoll ==
  ASSUME TypeOK, NEW g \in Generators, Steady(g), Polling(g)
  PROVE  PollOf(g)' = PollOf(g)
<1>1. SourceOf(obj'[g].spec) = SourceOf(obj[g].spec)
  BY SteadySource DEF Steady
<1> QED BY <1>1 DEF Steady, PollOf

LEMMA SteadyPolls ==
  ASSUME TypeOK, \A g \in Generators : Steady(g)
  PROVE  Polls' = Polls
<1>1. Polls' = {PollOf(g)' : g \in {h \in Generators : Polling(h)'}}
  BY DEF Polls
<1>2. {h \in Generators : Polling(h)'} = {h \in Generators : Polling(h)}
  BY DEF Steady
<1> QED BY <1>1, <1>2, SteadyPoll DEF Polls

LEMMA PollBegins ==
  ASSUME TypeOK, NEW g \in Generators, ~Polling(g), Polling(g)',
         \A h \in Generators \ {g} : Steady(h)
  PROVE  /\ \A x \in Polls : x.gen # g
         /\ Polls' = Polls \cup {PollOf(g)'}
<1>1. Polls' = {PollOf(h)' : h \in {i \in Generators : Polling(i)'}}
  BY DEF Polls
<1>2. {i \in Generators : Polling(i)'} = {i \in Generators : Polling(i)} \cup {g}
  BY DEF Steady
<1>3. \A h \in Generators : Polling(h) => PollOf(h)' = PollOf(h) /\ PollOf(h).gen = h
  BY SteadyPoll, PollingBusy
<1> QED BY <1>1, <1>2, <1>3 DEF Polls

LEMMA PollEnds ==
  ASSUME TypeOK, NEW g \in Generators, Polling(g), ~Polling(g)',
         \A h \in Generators \ {g} : Steady(h)
  PROVE  Polls' = Polls \ {PollOf(g)}
<1>1. Polls' = {PollOf(h)' : h \in {i \in Generators : Polling(i)'}}
  BY DEF Polls
<1>2. {i \in Generators : Polling(i)'} = {i \in Generators : Polling(i)} \ {g}
  BY DEF Steady
<1>3. \A h \in Generators : Polling(h) => PollOf(h).gen = h /\ (h # g => PollOf(h)' = PollOf(h))
  BY SteadyPoll, PollingBusy
<1> QED BY <1>1, <1>2, <1>3 DEF Polls

LEMMA PollGoesOn ==
  ASSUME TypeOK, NEW g \in Generators, Polling(g), Polling(g)', SameSource(g), NEW pr,
         todo'[g] = todo[g] \ {pr},
         \A h \in Generators \ {g} : Steady(h)
  PROVE  Polls' = P!Shorter(PollOf(g), pr)
<1>1. Polls' = {PollOf(h)' : h \in {i \in Generators : Polling(i)'}}
  BY DEF Polls
<1>2. {i \in Generators : Polling(i)'} = {i \in Generators : Polling(i)}
  BY DEF Steady
<1>3. \A h \in Generators : Polling(h) => PollOf(h).gen = h /\ (h # g => PollOf(h)' = PollOf(h))
  BY SteadyPoll, PollingBusy
<1>4. PollOf(g)' = [PollOf(g) EXCEPT !.page = PollOf(g).page \ {pr}]
  <2>1. SourceOf(obj'[g].spec) = SourceOf(obj[g].spec)
    BY SteadySource
  <2> QED BY <2>1 DEF PollOf
<1>5. Polls \ {PollOf(g)} = {PollOf(h) : h \in {i \in Generators : Polling(i)} \ {g}}
  BY <1>3 DEF Polls
<1>6. Polls' = {PollOf(h) : h \in {i \in Generators : Polling(i)} \ {g}} \cup {PollOf(g)'}
  BY <1>1, <1>2, <1>3
<1> QED BY <1>4, <1>5, <1>6 DEF P!Shorter

(* What happens to a poll, of the actions of Previews.                      *)
LEMMA PollStep ==
  ASSUME NEW x \in Polls,
         P!End(x) \/ \E pr \in x.page : P!Propose(x, pr) \/ P!PassOver(x, pr)
  PROVE  AbstractStep
BY DEF AbstractStep, P!Next

LEMMA Stutters ==
  ASSUME TypeOK, UNCHANGED <<open, proxies>>, \A g \in Generators : Steady(g)
  PROVE  AbstractStep
<1>1. Polls' = Polls
  BY SteadyPolls
<1>2. Generated' = Generated
  BY DEF Generated
<1> QED BY <1>1, <1>2 DEF AbstractStep, P!vars

-----------------------------------------------------------------------------
(* The steps of a worker.                                                   *)
LEMMA OthersSteady ==
  ASSUME TypeOK, NEW g \in Generators, WorkerStep(g) \/ Take(g),
         NEW h \in Generators, h # g
  PROVE  Steady(h)
<1>1. CASE RenderAndGet(g)
  <2>1. SameSource(h) /\ todo'[h] = todo[h] /\ pc'[h] = pc[h]
    BY <1>1, RenderSource DEF RenderAndGet, Goto, TypeOK
  <2> QED BY <2>1 DEF Steady, Polling
<1>2. CASE ~RenderAndGet(g)
  <2>1. obj'[h] = obj[h] /\ todo'[h] = todo[h] /\ pc'[h] = pc[h]
    BY <1>2 DEF WorkerStep, Take, Get, GetNotFound, Wait, FetchSecretRef, CheckRepository,
        ListPullRequests, Skip, Create, Update, Processed, RecordPoll, RecordConflict,
        RecordFails, Finish, Leave, Fail, Goto, locals, TypeOK
  <2> QED BY <2>1 DEF Steady, Polling, SameSource
<1> QED BY <1>1, <1>2

LEMMA PrepareRefines ==
  ASSUME TypeOK, NEW g \in Generators,
         Take(g) \/ Wait(g) \/ FetchSecretRef(g) \/ CheckRepository(g) \/ Finish(g)
  PROVE  AbstractStep
<1>1. UNCHANGED <<open, proxies>>
  BY DEF Take, Get, GetNotFound, Wait, FetchSecretRef, CheckRepository, Finish, store, world
<1>2. ~Polling(g) /\ ~Polling(g)'
  BY DEF Take, Get, GetNotFound, Wait, FetchSecretRef, CheckRepository, Finish, Leave, Fail,
         Goto, Polling, TypeOK
<1>3. Steady(g)
  BY <1>2 DEF Steady
<1>4. \A h \in Generators : Steady(h)
  BY <1>3, OthersSteady DEF WorkerStep
<1> QED BY <1>1, <1>4, Stutters

LEMMA ListRefines ==
  ASSUME TypeOK, NEW g \in Generators, ListPullRequests(g)
  PROVE  AbstractStep
<1>1. UNCHANGED <<open, proxies>> /\ ~Polling(g)
  BY DEF ListPullRequests, Polling, store, world
<1>2. \A h \in Generators \ {g} : Steady(h)
  BY OthersSteady DEF WorkerStep
<1>3. CASE Fail(g)
  <2>1. ~Polling(g)'
    BY <1>3 DEF Fail, Leave, Polling, TypeOK
  <2>2. Steady(g)
    BY <1>1, <2>1 DEF Steady
  <2> QED BY <1>1, <1>2, <2>2, Stutters
<1>4. ASSUME NEW page \in FirstPages(open[Url(g)]), todo' = [todo EXCEPT ![g] = page],
             Goto(g, "pr"), UNCHANGED obj
      PROVE  AbstractStep
  <2>1. pc[g] # "idle" /\ obj[g].spec \in GeneratorSpec
    BY BusyTypes DEF ListPullRequests
  <2>2. SourceOf(obj[g].spec) \in Sources
    BY <2>1 DEF GeneratorSpec, SourceOf, Sources
  <2>3. /\ page \in SUBSET open[Url(g)]
        /\ page = open[Url(g)] \/ Cardinality(page) = PageSize
    BY <1>4 DEF FirstPages
  <2>4. Polling(g)' /\ todo'[g] = page
    BY <1>4 DEF Polling, Goto, TypeOK
  <2>5. PollOf(g)' = [gen |-> g, source |-> SourceOf(obj[g].spec), page |-> page]
    BY <1>4, <2>4 DEF PollOf
  <2>6. (\A x \in Polls : x.gen # g) /\ Polls' = Polls \cup {PollOf(g)'}
    BY <1>1, <1>2, <2>4, PollBegins
  <2>7. Generated' = Generated
    BY <1>1 DEF Generated
  <2>8. SourceOf(obj[g].spec).url = Url(g)
    BY DEF SourceOf, Url
  <2>9. P!Begin(g, SourceOf(obj[g].spec))
    <3>1. /\ page \in SUBSET open[SourceOf(obj[g].spec).url]
          /\ page = open[SourceOf(obj[g].spec).url] \/ Cardinality(page) = PageSize
      BY <2>3, <2>8
    <3>2. Cardinality(page) = P!Cardinality(page)
      BY DEF Cardinality, P!Cardinality
    <3>3. Polls' = Polls \cup
            {[gen |-> g, source |-> SourceOf(obj[g].spec), page |-> page]}
      BY <2>5, <2>6
    <3> QED BY <1>1, <2>6, <2>7, <3>1, <3>2, <3>3 DEF P!Begin
  <2> QED BY <2>2, <2>9 DEF AbstractStep, P!Next
<1> QED BY <1>3, <1>4 DEF ListPullRequests

LEMMA SkipRefines ==
  ASSUME TypeOK, NEW g \in Generators, Skip(g)
  PROVE  AbstractStep
<1>1. UNCHANGED <<open, proxies, obj, pc>> /\ Polling(g) /\ Polling(g)'
  BY DEF Skip, Polling, store, world
<1>2. PICK pr \in todo[g] : todo' = [todo EXCEPT ![g] = @ \ {pr}]
  BY DEF Skip
<1>3. SameSource(g) /\ todo'[g] = todo[g] \ {pr}
  BY <1>1, <1>2 DEF SameSource, TypeOK
<1>4. \A h \in Generators \ {g} : Steady(h)
  BY OthersSteady DEF WorkerStep
<1>5. Polls' = P!Shorter(PollOf(g), pr)
  BY <1>1, <1>3, <1>4, PollGoesOn
<1>6. P!PassOver(PollOf(g), pr)
  BY <1>1, <1>5 DEF P!PassOver, Generated
<1> QED BY <1>1, <1>6, PollingBusy, PollStep

LEMMA RenderRefines ==
  ASSUME TypeOK, NEW g \in Generators, RenderAndGet(g)
  PROVE  AbstractStep
<1>1. UNCHANGED <<open, proxies, todo>>
  BY DEF RenderAndGet, store, world
<1>2. Polling(g) /\ Polling(g)'
  BY DEF RenderAndGet, Polling, Goto, TypeOK
<1>3. SameSource(g)
  BY RenderSource DEF RenderAndGet
<1>4. \A h \in Generators : Steady(h)
  BY <1>1, <1>2, <1>3, OthersSteady DEF WorkerStep, Steady
<1> QED BY <1>1, <1>4, Stutters

(* One entry of the table of generated proxies is written.                  *)
LEMMA GeneratedWritten ==
  ASSUME TypeOK, NEW g \in Generators, NEW n \in Numbers, NEW new \in Proxy \cup {None},
         proxies' = [proxies EXCEPT ![g][n] = new]
  PROVE  Generated' = [Generated EXCEPT ![g][n] =
            IF new = None THEN None
            ELSE [url |-> new.url, ref |-> new.ref, template |-> new.template]]
BY DEF Generated, TypeOK

LEMMA WriteRefines ==
  ASSUME TypeOK, BranchInv, HandsFit, NEW g \in Generators, Create(g) \/ Update(g)
  PROVE  AbstractStep
<1> DEFINE pr == hand[g].pr
           n  == pr.number
           s  == SourceOf(obj[g].spec)
<1>1. hand[g] # None /\ pr \in todo[g] /\ n \in Numbers /\ Polling(g)
  BY HandTypes DEF Create, Update, TypeOK, WorkerShape, Polling
<1>2. UNCHANGED <<open, obj>> /\ todo'[g] = todo[g] \ {pr} /\ Polling(g)'
  BY DEF Create, Update, Processed, Rest, Goto, Polling, world, TypeOK
<1>3. \A h \in Generators \ {g} : Steady(h)
  BY OthersSteady DEF WorkerStep
<1>4. Polls' = P!Shorter(PollOf(g), pr)
  BY <1>1, <1>2, <1>3, PollGoesOn DEF SameSource
<1>5. PollOf(g) \in Polls /\ PollOf(g).gen = g /\ PollOf(g).source = s /\ pr \in PollOf(g).page
  BY <1>1, PollingBusy
<1>6. CASE UNCHANGED proxies
  <2>1. P!PassOver(PollOf(g), pr)
    BY <1>2, <1>4, <1>6 DEF P!PassOver, Generated
  <2> QED BY <1>5, <2>1, PollStep
<1>7. ASSUME NEW owner \in Nat,
             proxies' = [proxies EXCEPT ![g][n] = Owned(hand[g].spec, owner)],
             proxies[g][n] # None => proxies[g][n].url = hand[g].spec.url
      PROVE  AbstractStep
  <2>1. Owned(hand[g].spec, owner) \in Proxy /\ Owned(hand[g].spec, owner) # None
    BY <1>1, HandTypes, NoneIsNoValue
  <2>2. /\ hand[g].spec.url = s.url /\ hand[g].spec.template = s.template
        /\ hand[g].spec.ref = pr.branch
    BY <1>1 DEF HandsFit, HandFits, BranchInv, HandInv, SourceOf
  <2>3. Generated' = [Generated EXCEPT ![g][n] =
                        [url |-> s.url, ref |-> pr.branch, template |-> s.template]]
    BY <1>1, <1>7, <2>1, <2>2, GeneratedWritten DEF Owned
  <2>4. P!Admits(s, pr)
    BY <1>1 DEF HandsFit, HandFits, Passes, P!Admits, SourceOf
  <2>5. Generated[g][n] # None => Generated[g][n].url = s.url
    BY <1>1, <1>7, <2>2 DEF Generated
  <2>6. P!Propose(PollOf(g), pr)
    BY <1>2, <1>4, <1>5, <2>3, <2>4, <2>5 DEF P!Propose
  <2> QED BY <1>5, <2>6, PollStep
<1>8. CASE Create(g)
  <2>1. obj[g].uid \in Nat
    BY <1>8, BusyTypes DEF Create
  <2> QED BY <1>6, <1>7, <1>8, <2>1 DEF Create, WriteProxy
<1>9. CASE Update(g)
  <2>1. hand[g].existing.owner \in Nat
    BY <1>1, <1>9, HandTypes DEF Update, TypeOK, WorkerShape
  <2>2. Updatable(g) => proxies[g][n].url = hand[g].spec.url
    BY DEF Updatable
  <2> QED BY <1>6, <1>7, <1>9, <2>1, <2>2 DEF Update, WriteProxy
<1> QED BY <1>8, <1>9

LEMMA RecordRefines ==
  ASSUME TypeOK, NEW g \in Generators, RecordPoll(g) \/ RecordConflict(g) \/ RecordFails(g)
  PROVE  AbstractStep
<1>1. UNCHANGED <<open, proxies>> /\ Polling(g)
  BY DEF RecordPoll, RecordConflict, RecordFails, Recording, Polling, store, world
<1>2. \A h \in Generators \ {g} : Steady(h)
  BY OthersSteady DEF WorkerStep
<1>3. CASE Goto(g, "done") \/ Fail(g)
  <2>1. ~Polling(g)'
    BY <1>3 DEF Goto, Fail, Leave, Polling, TypeOK
  <2>2. Polls' = Polls \ {PollOf(g)}
    BY <1>1, <1>2, <2>1, PollEnds
  <2>3. P!End(PollOf(g))
    BY <1>1, <2>2 DEF P!End, Generated
  <2> QED BY <1>1, <2>3, PollingBusy, PollStep
<1>4. CASE UNCHANGED <<pc, obj, todo>>
  <2>1. Steady(g)
    BY <1>4 DEF Steady, SameSource, Polling
  <2> QED BY <1>1, <1>2, <2>1, Stutters
<1> QED BY <1>3, <1>4 DEF RecordPoll, RecordConflict, RecordFails

-----------------------------------------------------------------------------
(* The steps of everyone else.                                              *)
LEMMA EnvironmentRefines ==
  ASSUME TypeOK, BranchInv, Environment
  PROVE  AbstractStep
<1>1. CASE Crash
  <2>1. Polls' = {} /\ UNCHANGED <<open, Generated>>
    BY <1>1 DEF Crash, Polls, Polling, Generated, store, world
  <2>2. P!Restart
    BY <2>1 DEF P!Restart
  <2> QED BY <2>2 DEF AbstractStep, P!Next
<1>2. ASSUME UNCHANGED <<pc, obj, todo>>
      PROVE  (\A g \in Generators : Steady(g)) /\ Polls' = Polls
  <2>1. \A g \in Generators : Steady(g)
    BY <1>2 DEF Steady, SameSource, Polling
  <2> QED BY <2>1, SteadyPolls
<1>3. ASSUME NEW g \in Generators, NEW n \in Numbers, RemoveProxy(g, n)
      PROVE  AbstractStep
  <2>1. Polls' = Polls /\ open' = open
    BY <1>2, <1>3 DEF RemoveProxy, world
  <2>2. Generated' = [Generated EXCEPT ![g][n] = None]
    BY <1>3, GeneratedWritten DEF RemoveProxy, WriteProxy
  <2>3. P!Discard(g, n)
    BY <2>1, <2>2 DEF P!Discard
  <2> QED BY <2>3 DEF AbstractStep, P!Next
<1>4. ASSUME NEW u \in Urls, NEW pr \in PullRequests[u],
             OpenPullRequest(u, pr) \/ ClosePullRequest(u, pr)
      PROVE  AbstractStep
  <2>1. Polls' = Polls /\ Generated' = Generated
    BY <1>2, <1>4 DEF OpenPullRequest, ClosePullRequest, Generated, store, locals
  <2>2. P!Open(u, pr) \/ P!Close(u, pr)
    BY <1>4, <2>1 DEF OpenPullRequest, ClosePullRequest, P!Open, P!Close
  <2> QED BY <2>2 DEF AbstractStep, P!Next
<1>5. CASE UNCHANGED <<open, proxies, pc, obj, todo>>
  BY <1>2, <1>5, Stutters
<1> QED BY <1>1, <1>3, <1>4, <1>5
        DEF Environment, CreateGenerator, UpdateGenerator, DeleteGenerator, WriteGenerator,
            GarbageCollect, DeleteProxy, StatusWritten, SetSecret, store, locals, world

LEMMA TickRefines ==
  ASSUME TypeOK, Tick
  PROVE  AbstractStep
<1>1. UNCHANGED <<open, proxies, pc, todo>>
  BY DEF Tick, world
<1>2. ASSUME NEW g \in Generators
      PROVE  Steady(g)
  BY <1>1, TickSource DEF Steady, Polling
<1> QED BY <1>1, <1>2, Stutters

LEMMA StepRefines == TypeOK /\ BranchInv /\ HandsFit /\ [Next]_vars => AbstractStep
<1> SUFFICES ASSUME TypeOK, BranchInv, HandsFit, [Next]_vars PROVE AbstractStep
  OBVIOUS
<1>1. CASE UNCHANGED <<open, proxies, pc, obj, todo>>
  <2>1. \A g \in Generators : Steady(g)
    BY <1>1 DEF Steady, SameSource, Polling
  <2> QED BY <1>1, <2>1, Stutters
<1>2. ASSUME NEW g \in Generators, WorkerStep(g) \/ Take(g)
      PROVE  AbstractStep
  BY <1>2, PrepareRefines, ListRefines, SkipRefines, RenderRefines, WriteRefines, RecordRefines
     DEF WorkerStep
<1>3. CASE Manager
  BY <1>1, <1>2, <1>3 DEF Manager, GeneratorSync, Resync, ProxySync, store, world, locals
<1> QED BY <1>1, <1>3, EnvironmentRefines, TickRefines DEF Next, vars

LEMMA InitRefines == Init => P!Init /\ HandsFit
<1> SUFFICES ASSUME Init PROVE P!Init /\ HandsFit
  OBVIOUS
<1>1. Polls = {}
  BY DEF Init, Polls, Polling
<1>2. Generated = [g \in Generators |-> [n \in Numbers |-> None]]
  BY DEF Init, Generated
<1> QED BY <1>1, <1>2 DEF Init, P!Init, HandsFit, HandFits

(* The controller's queue, caches, clock, conflicts, retries and restarts,  *)
(* and every edit of a generator, leave of what happens to the generated    *)
(* proxies one poll after another, each of which writes a pull request of   *)
(* its page at most once and as the spec it began with says.                *)
THEOREM PreviewsImplemented == Spec => ImplementsPreviews
<1>1. TypeOK /\ BranchInv /\ HandsFit /\ [Next]_vars => [P!Next]_(P!vars)
  BY StepRefines DEF AbstractStep
<1> QED BY <1>1, InitRefines, InitBranch, StepBranch, StepFits, GeneratorTypeCorrect, PTL
        DEF Spec, ImplementsPreviews, P!Spec
(* A generated proxy stays with its repository for as long as it lives,     *)
(* whatever its generator is edited to meanwhile (ValidateUpdate refuses    *)
(* another URL; a rejected Update passes the pull request over).            *)
RepositoryStays ==
  [][\A g \in Generators, n \in Numbers :
       Generated[g][n] # None /\ Generated'[g][n] # None
         => Generated'[g][n].url = Generated[g][n].url]_vars

LEMMA RepositoryKept ==
  ASSUME P!Next, NEW g \in Generators, NEW n \in Numbers,
         Generated[g][n] # None, Generated'[g][n] # None
  PROVE  Generated'[g][n].url = Generated[g][n].url
<1>1. DOMAIN Generated = Generators /\ \A h \in Generators : DOMAIN Generated[h] = Numbers
  BY DEF Generated
<1> HIDE DEF Generated
<1>2. ASSUME NEW x \in Polls, NEW pr, P!Propose(x, pr)
      PROVE  Generated'[g][n].url = Generated[g][n].url
  <2> DEFINE proxy == [url |-> x.source.url, ref |-> pr.branch, template |-> x.source.template]
  <2>1. /\ Generated' = [Generated EXCEPT ![x.gen][pr.number] = proxy]
        /\ Generated[x.gen][pr.number] # None => Generated[x.gen][pr.number].url = proxy.url
    BY <1>2 DEF P!Propose
  <2> HIDE DEF proxy
  <2>2. CASE g = x.gen /\ n = pr.number
    BY <1>1, <2>1, <2>2
  <2>3. CASE ~(g = x.gen /\ n = pr.number)
    BY <1>1, <2>1, <2>3
  <2> QED BY <2>2, <2>3
<1>3. ASSUME NEW h \in Generators, NEW m \in Numbers, P!Discard(h, m)
      PROVE  Generated'[g][n].url = Generated[g][n].url
  BY <1>1, <1>3 DEF P!Discard
<1>4. CASE Generated' = Generated
  BY <1>4
<1>5. CASE \/ \E h \in Generators, s \in Sources : P!Begin(h, s)
           \/ \E x \in Polls : P!End(x) \/ \E pr \in x.page : P!PassOver(x, pr)
           \/ P!Restart
           \/ \E u \in Urls : \E pr \in PullRequests[u] : P!Open(u, pr) \/ P!Close(u, pr)
  BY <1>4, <1>5 DEF P!Begin, P!End, P!PassOver, P!Restart, P!Open, P!Close
<1> QED BY <1>2, <1>3, <1>5 DEF P!Next

THEOREM RepositoryStaysCorrect == Spec => RepositoryStays
<1> DEFINE Stays ==
      \A g \in Generators, n \in Numbers :
        Generated[g][n] # None /\ Generated'[g][n] # None
          => Generated'[g][n].url = Generated[g][n].url
<1>1. [P!Next]_(P!vars) => [Stays]_vars
  <2>1. CASE P!Next
    BY <2>1, RepositoryKept
  <2>2. CASE UNCHANGED P!vars
    <3>1. Generated' = Generated
      BY <2>2 DEF P!vars
    <3> HIDE DEF Generated
    <3> QED BY <3>1
  <2> QED BY <2>1, <2>2
<1> QED BY <1>1, PreviewsImplemented, PTL DEF RepositoryStays, ImplementsPreviews, P!Spec
=============================================================================
