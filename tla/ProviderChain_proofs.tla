------------------------ MODULE ProviderChain_proofs ------------------------
(***************************************************************************)
(* What the provider chain keeps, for any set of providers, configurations, *)
(* channels and ways to fail: a skip is founded on something that was seen, *)
(* retries end, and the configured order is gone through.                  *)
(***************************************************************************)
EXTENDS ProviderChain, Induction, SequenceTheorems

-----------------------------------------------------------------------------
(* Types *)

\* The renders a step may lead to are renders.
LEMMA RenderTyped ==
    ASSUME NEW r \in Renders
    PROVE  /\ \A pc \in {"idle", "next", "trying", "done"} : [r EXCEPT !.pc = pc] \in Renders
           /\ \A plan \in Seq(Channels) :
                 /\ [r EXCEPT !.pc = "trying", !.plan = plan] \in Renders
                 /\ [r EXCEPT !.plan = plan, !.retried = FALSE] \in Renders
           /\ [r EXCEPT !.retried = TRUE] \in Renders
BY DEF Renders

LEMMA IdleTyped ==
    /\ Idle \in Renders
    /\ \A c \in Configs : [Idle EXCEPT !.pc = "next", !.config = c] \in Renders
    /\ \A c \in Configs \cup {None}, n \in Nat \ {0} :
          [Idle EXCEPT !.pc = "next", !.config = c, !.at = n] \in Renders
    /\ \A c \in Configs \cup {None}, n \in Nat \ {0}, p \in Providers :
          [Idle EXCEPT !.pc = "done", !.config = c, !.at = n, !.body = p] \in Renders
<1>1. Idle \in Renders
  BY DEF Idle, Renders
<1> QED BY <1>1 DEF Renders

LEMMA NextProviderTyped ==
    ASSUME render \in Renders
    PROVE  NextProvider \in Renders /\ NextProvider.pc = "next"
<1>1. render.config \in Configs \cup {None} /\ render.at + 1 \in Nat \ {0}
  BY DEF Renders
<1>2. Idle \in Renders
  BY IdleTyped
<1>3. NextProvider.pc = "next"
  BY <1>2 DEF NextProvider, Renders
<1> QED BY <1>1, <1>3, IdleTyped DEF NextProvider

\* The channels of a plan are channels, and there is one.
PlanInv == render.pc = "trying" => render.plan # <<>>

LEMMA PlansTyped ==
    ASSUME NEW p \in Providers, NEW plan \in Plans(p)
    PROVE  plan \in Seq(Channels) /\ plan # <<>>
<1>1. Mode[p] \in {"cli_only", "api_only", "cli_first", "api_fallback"}
  BY ProviderChainAssumption
<1>2. /\ <<"cli">> \in Seq(Channels) /\ <<"api">> \in Seq(Channels)
      /\ <<"cli", "api">> \in Seq(Channels)
  BY DEF Channels
<1>3. <<"cli">> # <<>> /\ <<"api">> # <<>> /\ <<"cli", "api">> # <<>>
  OBVIOUS
<1> QED BY <1>1, <1>2, <1>3 DEF Plans

LEMMA NextChannelTyped ==
    ASSUME render \in Renders, PlanInv, render.pc = "trying"
    PROVE  /\ NextChannel \in Renders
           /\ NextChannel.pc = "trying" => NextChannel.plan # <<>>
           /\ NextChannel.pc # "idle"
<1>1. CASE Len(render.plan) = 1
  BY <1>1, NextProviderTyped DEF NextChannel
<1>2. CASE Len(render.plan) # 1
  <2>1. render.plan \in Seq(Channels) /\ render.plan # <<>>
    BY DEF Renders, PlanInv
  <2>2. Tail(render.plan) \in Seq(Channels) /\ Len(Tail(render.plan)) = Len(render.plan) - 1
    BY <2>1
  <2>3. Len(render.plan) \in Nat /\ Len(render.plan) # 0
    BY <2>1
  <2>4. Tail(render.plan) # <<>>
    <3>1. Len(Tail(render.plan)) # 0
      BY <2>2, <2>3, <1>2
    <3>2. Len(<<>>) = 0
      OBVIOUS
    <3> QED BY <3>1, <3>2
  <2>5. NextChannel = [render EXCEPT !.plan = Tail(render.plan), !.retried = FALSE]
    BY <1>2 DEF NextChannel
  <2>6. NextChannel.pc = render.pc /\ NextChannel.plan = Tail(render.plan)
    BY <2>5 DEF Renders
  <2> QED BY <2>2, <2>4, <2>5, <2>6, RenderTyped
<1> QED BY <1>1, <1>2

\* An attempt is recorded behind the others.
LEMMA AttemptedTyped ==
    ASSUME attempts \in Seq(Attempts), NEW id \in Ids, NEW channel \in Channels \cup {None},
           NEW status \in Statuses, Attempted(id, channel, status)
    PROVE  /\ attempts' \in Seq(Attempts)
           /\ Len(attempts') = Len(attempts) + 1
           /\ attempts'[Len(attempts')] = [provider |-> id, channel |-> channel, status |-> status]
           /\ \A i \in 1 .. Len(attempts) : attempts'[i] = attempts[i]
<1>1. [provider |-> id, channel |-> channel, status |-> status] \in Attempts
  BY DEF Attempts
<1> QED BY <1>1 DEF Attempted

LEMMA HeadTyped ==
    ASSUME render \in Renders, PlanInv, render.pc = "trying"
    PROVE  Head(render.plan) \in Channels
<1>1. render.plan \in Seq(Channels) /\ render.plan # <<>>
  BY DEF Renders, PlanInv
<1> QED BY <1>1

LEMMA EvidenceTyped ==
    /\ Nothing \in [Providers -> Evidence]
    /\ \A known \in [Providers -> Evidence] :
          /\ Aged(known) \in [Providers -> Evidence]
          /\ \A p \in Providers, e \in Evidence : [known EXCEPT ![p] = e] \in [Providers -> Evidence]
    /\ 0 \in Evidence /\ None \in Evidence
<1>1. 0 \in Evidence /\ None \in Evidence
  BY ProviderChainAssumption DEF Evidence
<1>2. ASSUME NEW known \in [Providers -> Evidence], NEW p \in Providers,
             ~(known[p] = None \/ known[p] = MaxAge)
      PROVE  known[p] + 1 \in Evidence
  BY <1>2, ProviderChainAssumption DEF Evidence
<1> QED BY <1>1, <1>2 DEF Nothing, Aged

TInv == TypeOK /\ PlanInv

LEMMA TypeInit == Init => TInv
<1> SUFFICES ASSUME Init PROVE TInv
  OBVIOUS
<1>1. render \in Renders /\ render.pc = "idle"
  BY IdleTyped DEF Init, Idle
<1>2. refresh \in Refreshes /\ refresh.pending \subseteq refresh.targets
  BY EvidenceTyped DEF Init, NoRefresh, Refreshes
<1>3. attempts \in Seq(Attempts)
  BY DEF Init
<1> QED BY <1>1, <1>2, <1>3, EvidenceTyped DEF Init, TInv, TypeOK, PlanInv

\* A step of the render: what it leaves alone, and what is left to show of it.
LEMMA RenderStepTyped ==
    ASSUME TInv, render' \in Renders, PlanInv', attempts' \in Seq(Attempts),
           cache' = cache, inferred' \in [Providers -> Evidence], seen' \in [Providers -> Evidence],
           refresh' = refresh
    PROVE  TInv'
BY DEF TInv, TypeOK

\* A step of a refresh.
LEMMA RefreshStepTyped ==
    ASSUME TInv, render' = render, attempts' = attempts, inferred' = inferred,
           cache' \in [Providers -> Evidence], seen' \in [Providers -> Evidence],
           refresh' \in Refreshes, refresh'.pending \subseteq refresh'.targets
    PROVE  TInv'
BY DEF TInv, TypeOK, PlanInv

LEMMA TypeStep == TInv /\ [Next]_vars => TInv'
<1> SUFFICES ASSUME TInv, [Next]_vars PROVE TInv'
  OBVIOUS
<1>t. /\ render \in Renders /\ attempts \in Seq(Attempts) /\ PlanInv
      /\ cache \in [Providers -> Evidence] /\ inferred \in [Providers -> Evidence]
      /\ seen \in [Providers -> Evidence] /\ refresh \in Refreshes
      /\ refresh.pending \subseteq refresh.targets
  BY DEF TInv, TypeOK
<1>n. NextProvider \in Renders /\ NextProvider.pc = "next"
  BY <1>t, NextProviderTyped
<1>1. ASSUME Begin PROVE TInv'
  <2>1. PICK c \in Configs : render' = [Idle EXCEPT !.pc = "next", !.config = c]
    BY <1>1 DEF Begin
  <2>2. render' \in Renders
    BY <2>1, IdleTyped
  <2>3. render'.pc = "next"
    BY <2>1, IdleTyped DEF Renders
  <2> QED BY <1>1, <1>t, <2>2, <2>3, RenderStepTyped DEF Begin, evidence, PlanInv
<1>2. ASSUME NEW id \in Ids, SkipForGood(id) PROVE TInv'
  <2>1. attempts' \in Seq(Attempts)
    BY <1>2, <1>t, AttemptedTyped DEF SkipForGood, Statuses
  <2> QED BY <1>2, <1>t, <1>n, <2>1, RenderStepTyped DEF SkipForGood, evidence, PlanInv
<1>3. ASSUME NEW p \in Providers, SkipOnHealth(p) PROVE TInv'
  <2>1. attempts' \in Seq(Attempts)
    BY <1>3, <1>t, AttemptedTyped DEF SkipOnHealth, Statuses, Ids
  <2> QED BY <1>3, <1>t, <1>n, <2>1, RenderStepTyped DEF SkipOnHealth, evidence, PlanInv
<1>4. ASSUME NEW p \in Providers, Try(p) PROVE TInv'
  <2>1. PICK plan \in Plans(p) : render' = [render EXCEPT !.pc = "trying", !.plan = plan]
    BY <1>4 DEF Try
  <2>2. plan \in Seq(Channels) /\ plan # <<>>
    BY PlansTyped
  <2>3. render' \in Renders
    BY <2>1, <2>2, <1>t, RenderTyped
  <2>4. render'.plan = plan
    BY <2>1, <1>t DEF Renders
  <2> QED BY <1>4, <1>t, <2>2, <2>3, <2>4, RenderStepTyped DEF Try, evidence, PlanInv
<1>5. ASSUME GiveUp PROVE TInv'
  <2>1. render' \in Renders
    BY <1>5, <1>t, RenderTyped DEF GiveUp
  <2>2. render'.pc = "done"
    BY <1>5, <1>t DEF GiveUp, Renders
  <2> QED BY <1>5, <1>t, <2>1, <2>2, RenderStepTyped DEF GiveUp, evidence, PlanInv
<1>6. ASSUME NEW p \in Providers, Succeed(p) PROVE TInv'
  <2>1. attempts' \in Seq(Attempts)
    BY <1>6, <1>t, AttemptedTyped, HeadTyped DEF Succeed, Trying, Statuses, Ids
  <2>2. render.config \in Configs \cup {None} /\ render.at \in Nat \ {0}
    BY <1>t DEF Renders
  <2>3. render' \in Renders
    BY <1>6, <2>2, IdleTyped DEF Succeed
  <2>4. render'.pc = "done"
    BY <1>6, IdleTyped DEF Succeed, Renders
  <2> QED BY <1>6, <1>t, <2>1, <2>3, <2>4, RenderStepTyped DEF Succeed, evidence, PlanInv
<1>7. ASSUME NEW p \in Providers, Reject(p) PROVE TInv'
  <2>1. attempts' \in Seq(Attempts)
    BY <1>7, <1>t, AttemptedTyped, HeadTyped DEF Reject, Trying, Statuses, Ids
  <2> QED BY <1>7, <1>t, <1>n, <2>1, RenderStepTyped DEF Reject, evidence, PlanInv
<1>8. ASSUME NEW p \in Providers, Fail(p) PROVE TInv'
  <2>1. PICK status \in Fails[p] \cap {"error", "dead", "empty"} :
           /\ Attempted(p, Head(render.plan), IF status = "error" THEN "failed" ELSE status)
           /\ IF status = "dead" THEN Seen(p) ELSE UNCHANGED seen
    BY <1>8 DEF Fail
  <2>2. (IF status = "error" THEN "failed" ELSE status) \in Statuses
    BY DEF Statuses
  <2>3. attempts' \in Seq(Attempts)
    BY <1>8, <1>t, <2>1, <2>2, AttemptedTyped, HeadTyped DEF Fail, Trying, Ids
  <2>4. seen' \in [Providers -> Evidence]
    BY <1>t, <2>1, EvidenceTyped DEF Seen
  <2>5. NextChannel \in Renders /\ (NextChannel.pc = "trying" => NextChannel.plan # <<>>)
    BY <1>8, <1>t, NextChannelTyped DEF Fail, Trying
  <2> QED BY <1>8, <1>t, <2>3, <2>4, <2>5, RenderStepTyped DEF Fail, PlanInv
<1>9. ASSUME NEW p \in Providers, RateLimited(p) PROVE TInv'
  <2>1. attempts' \in Seq(Attempts)
    BY <1>9, <1>t, AttemptedTyped, HeadTyped DEF RateLimited, Trying, Statuses, Ids
  <2>2. seen' \in [Providers -> Evidence]
    BY <1>9, <1>t, EvidenceTyped DEF RateLimited, Seen
  <2>3. NextChannel \in Renders /\ (NextChannel.pc = "trying" => NextChannel.plan # <<>>)
    BY <1>9, <1>t, NextChannelTyped DEF RateLimited, Trying
  <2>4. /\ [render EXCEPT !.retried = TRUE] \in Renders
        /\ [render EXCEPT !.retried = TRUE].plan = render.plan
        /\ render.plan # <<>>
    BY <1>9, <1>t, RenderTyped DEF RateLimited, Trying, Renders, PlanInv
  <2>5. render' \in Renders /\ PlanInv'
    <3>1. CASE render' = NextChannel
      BY <3>1, <2>3 DEF PlanInv
    <3>2. CASE render' = [render EXCEPT !.retried = TRUE]
      BY <3>2, <2>4 DEF PlanInv
    <3> QED BY <1>9, <3>1, <3>2 DEF RateLimited
  <2> QED BY <1>9, <1>t, <2>1, <2>2, <2>5, RenderStepTyped DEF RateLimited
<1>10. ASSUME Record PROVE TInv'
  <2>1. \A p \in Providers : Inferred(p) \in Evidence
    BY <1>t, EvidenceTyped DEF Inferred
  <2>2. render' \in Renders /\ render'.pc = "idle"
    BY <1>10, IdleTyped DEF Record, Idle
  <2> QED BY <1>10, <1>t, <2>1, <2>2, RenderStepTyped DEF Record, PlanInv
<1>11. ASSUME Refresh PROVE TInv'
  <2>1. PICK ids \in SUBSET Providers :
           refresh' = [NoRefresh EXCEPT !.targets = ids, !.pending = ids]
    BY <1>11 DEF Refresh
  <2>2. refresh' \in Refreshes /\ refresh'.pending \subseteq refresh'.targets
    BY <2>1, EvidenceTyped DEF NoRefresh, Refreshes
  <2> QED BY <1>11, <1>t, <2>2, RefreshStepTyped DEF Refresh, evidence
<1>12. ASSUME NEW p \in Providers, Probe(p) \/ Silent(p) PROVE TInv'
  <2>1. PICK reading \in Evidence : Answers(p, reading)
    BY <1>12, <1>t, EvidenceTyped DEF Probe, Silent
  <2>2. seen' \in [Providers -> Evidence]
    BY <1>12, <1>t, EvidenceTyped DEF Probe, Silent, Seen
  <2>3. refresh' \in Refreshes /\ refresh'.pending \subseteq refresh'.targets
    BY <2>1, <1>t, EvidenceTyped DEF Answers, Refreshes
  <2> QED BY <1>t, <2>1, <2>2, <2>3, RefreshStepTyped DEF Answers
<1>13. ASSUME Store PROVE TInv'
  <2>1. refresh' \in Refreshes /\ refresh'.pending \subseteq refresh'.targets
    BY <1>13, EvidenceTyped DEF Store, NoRefresh, Refreshes
  <2>2. cache' \in [Providers -> Evidence]
    BY <1>13, <1>t DEF Store, Refreshes
  <2> QED BY <1>13, <1>t, <2>1, <2>2, RefreshStepTyped DEF Store
<1>14. ASSUME Pass PROVE TInv'
  <2>1. refresh' \in Refreshes /\ refresh'.pending \subseteq refresh'.targets
    BY <1>14, <1>t, EvidenceTyped DEF Pass, Refreshes
  <2> QED BY <1>14, <1>t, <2>1, EvidenceTyped DEF Pass, TInv, TypeOK, PlanInv
<1>15. ASSUME Restart PROVE TInv'
  <2>1. refresh' \in Refreshes /\ refresh'.pending \subseteq refresh'.targets
    BY <1>15, EvidenceTyped DEF Restart, NoRefresh, Refreshes
  <2>2. render' \in Renders /\ render'.pc = "idle"
    BY <1>15, IdleTyped DEF Restart, Idle
  <2> QED BY <1>15, <1>t, <2>1, <2>2, EvidenceTyped DEF Restart, TInv, TypeOK, PlanInv
<1>16. CASE UNCHANGED vars
  BY <1>16, <1>t DEF vars, TInv, TypeOK, PlanInv
<1> QED BY <1>1, <1>2, <1>3, <1>4, <1>5, <1>6, <1>7, <1>8, <1>9, <1>10, <1>11, <1>12, <1>13, <1>14,
          <1>15, <1>16 DEF Next, RenderStep

\* ProviderChain!TypeOK: the evidence, the render, its attempts and a refresh keep their types.
THEOREM TypeCorrect == Spec => []TypeOK
<1>1. TInv => TypeOK
  BY DEF TInv
<1> QED BY <1>1, TypeInit, TypeStep, PTL DEF Spec

-----------------------------------------------------------------------------
(* What a skip is founded on *)

\* What is remembered of a provider was seen, and not longer ago than it says.
BackedBy(known, found) ==
    \A p \in Providers : known[p] # None => found[p] # None /\ found[p] <= known[p]

\* What the attempts of a render say was seen in this step of time.
Fresh(list, found) ==
    \A i \in 1 .. Len(list) :
        list[i].status \in {"dead", "rate_limit"} => found[list[i].provider] = 0

FoundedInv ==
    /\ BackedBy(cache, seen) /\ BackedBy(inferred, seen) /\ BackedBy(refresh.found, seen)
    /\ Fresh(attempts, seen)
    /\ render.pc = "idle" => attempts = <<>>

LEMMA NothingIsBacked ==
    ASSUME NEW found \in [Providers -> Evidence] PROVE BackedBy(Nothing, found)
BY DEF BackedBy, Nothing

\* To see a provider dead only adds to what is backed.
LEMMA SeenKeeps ==
    ASSUME NEW found \in [Providers -> Evidence], NEW q \in Providers
    PROVE  LET later == [found EXCEPT ![q] = 0]
           IN  /\ \A known \in [Providers -> Evidence] :
                     BackedBy(known, found) => BackedBy(known, later)
               /\ \A list \in Seq(Attempts) : Fresh(list, found) => Fresh(list, later)
<1> DEFINE later == [found EXCEPT ![q] = 0]
<1>1. ASSUME NEW known \in [Providers -> Evidence], BackedBy(known, found)
      PROVE  BackedBy(known, later)
  <2> SUFFICES ASSUME NEW p \in Providers, known[p] # None
               PROVE  later[p] # None /\ later[p] <= known[p]
    BY DEF BackedBy
  <2>1. CASE p = q
    BY <2>1, ProviderChainAssumption DEF Evidence
  <2>2. CASE p # q
    BY <1>1, <2>2 DEF BackedBy
  <2> QED BY <2>1, <2>2
<1>2. ASSUME NEW list \in Seq(Attempts), Fresh(list, found)
      PROVE  Fresh(list, later)
  <2> SUFFICES ASSUME NEW i \in 1 .. Len(list), list[i].status \in {"dead", "rate_limit"}
               PROVE  later[list[i].provider] = 0
    BY DEF Fresh
  <2>1. found[list[i].provider] = 0
    BY <1>2 DEF Fresh
  <2>2. CASE list[i].provider = q
    BY <2>2
  <2>3. CASE list[i].provider # q /\ list[i].provider \in Providers
    BY <2>1, <2>3
  <2>4. CASE list[i].provider \notin Providers
    BY <2>1, <2>4
  <2> QED BY <2>2, <2>3, <2>4
<1> QED BY <1>1, <1>2

\* Both age alike, and what is seen ages out no sooner.
LEMMA AgedTogether ==
    ASSUME NEW known \in [Providers -> Evidence], NEW found \in [Providers -> Evidence],
           BackedBy(known, found)
    PROVE  BackedBy(Aged(known), Aged(found))
<1> SUFFICES ASSUME NEW p \in Providers, Aged(known)[p] # None
             PROVE  Aged(found)[p] # None /\ Aged(found)[p] <= Aged(known)[p]
  BY DEF BackedBy
<1>1. known[p] # None /\ known[p] # MaxAge /\ Aged(known)[p] = known[p] + 1
  BY DEF Aged
<1>2. found[p] # None /\ found[p] <= known[p]
  BY <1>1 DEF BackedBy
<1>3. found[p] \in 0 .. MaxAge /\ known[p] \in 0 .. MaxAge
  BY <1>1, <1>2 DEF Evidence
<1>4. found[p] # MaxAge /\ found[p] + 1 \in 0 .. MaxAge /\ found[p] + 1 <= known[p] + 1
  BY <1>1, <1>2, <1>3, ProviderChainAssumption
<1>5. Aged(found)[p] = found[p] + 1
  BY <1>2, <1>4 DEF Aged
<1> QED BY <1>1, <1>4, <1>5, ProviderChainAssumption

\* What is inferred of the attempts is backed by them.
LEMMA InferredIsBacked ==
    ASSUME TInv, FoundedInv
    PROVE  BackedBy([p \in Providers |-> Inferred(p)], seen)
<1> SUFFICES ASSUME NEW p \in Providers, Inferred(p) # None
             PROVE  seen[p] # None /\ seen[p] <= Inferred(p)
  BY DEF BackedBy
<1>1. CASE Inferred(p) = inferred[p]
  BY <1>1 DEF FoundedInv, BackedBy
<1>2. CASE Inferred(p) # inferred[p]
  <2>1. PICK i \in 1 .. Len(attempts) :
           attempts[i].provider = p /\ attempts[i].status \in {"dead", "rate_limit"}
    BY <1>2 DEF Inferred
  <2>2. Inferred(p) = 0
    BY <1>2 DEF Inferred
  <2>3. seen[p] = 0
    BY <2>1 DEF FoundedInv, Fresh
  <2> QED BY <2>2, <2>3, ProviderChainAssumption
<1> QED BY <1>1, <1>2

\* A new attempt that says nothing of a dead end, or of a provider just seen dead.
LEMMA AttemptIsFresh ==
    ASSUME attempts \in Seq(Attempts), Fresh(attempts, seen'), NEW id \in Ids,
           NEW channel \in Channels \cup {None}, NEW status \in Statuses,
           Attempted(id, channel, status),
           status \in {"dead", "rate_limit"} => seen'[id] = 0
    PROVE  Fresh(attempts', seen')
<1> SUFFICES ASSUME NEW i \in 1 .. Len(attempts'),
                    attempts'[i].status \in {"dead", "rate_limit"}
             PROVE  seen'[attempts'[i].provider] = 0
  BY DEF Fresh
<1>a. /\ Len(attempts') = Len(attempts) + 1
      /\ attempts'[Len(attempts')] = [provider |-> id, channel |-> channel, status |-> status]
      /\ \A k \in 1 .. Len(attempts) : attempts'[k] = attempts[k]
  BY AttemptedTyped
<1>1. CASE i = Len(attempts')
  BY <1>a, <1>1
<1>2. CASE i # Len(attempts')
  <2>1. i \in 1 .. Len(attempts)
    BY <1>a, <1>2
  <2> QED BY <1>a, <2>1 DEF Fresh
<1> QED BY <1>1, <1>2

\* A step of the render that may add an attempt.
LEMMA RenderStepFounded ==
    ASSUME TInv, FoundedInv, UNCHANGED <<cache, inferred, refresh>>,
           seen' = seen \/ \E p \in Providers : seen' = [seen EXCEPT ![p] = 0],
           render'.pc # "idle",
           attempts' = attempts \/ (Fresh(attempts, seen') => Fresh(attempts', seen'))
    PROVE  FoundedInv'
<1>1. /\ seen \in [Providers -> Evidence] /\ attempts \in Seq(Attempts)
      /\ cache \in [Providers -> Evidence] /\ inferred \in [Providers -> Evidence]
      /\ refresh.found \in [Providers -> Evidence]
  BY DEF TInv, TypeOK, Refreshes
<1>2. /\ BackedBy(cache, seen') /\ BackedBy(inferred, seen') /\ BackedBy(refresh.found, seen')
      /\ Fresh(attempts, seen')
  <2>1. CASE seen' = seen
    BY <2>1 DEF FoundedInv
  <2>2. ASSUME NEW p \in Providers, seen' = [seen EXCEPT ![p] = 0]
        PROVE  /\ BackedBy(cache, seen') /\ BackedBy(inferred, seen')
               /\ BackedBy(refresh.found, seen') /\ Fresh(attempts, seen')
    <3>1. /\ BackedBy(cache, seen) /\ BackedBy(inferred, seen)
          /\ BackedBy(refresh.found, seen) /\ Fresh(attempts, seen)
      BY DEF FoundedInv
    <3> QED BY <1>1, <2>2, <3>1, SeenKeeps
  <2> QED BY <2>1, <2>2
<1> QED BY <1>2 DEF FoundedInv

LEMMA FoundedInit == Init => FoundedInv
<1> SUFFICES ASSUME Init PROVE FoundedInv
  OBVIOUS
<1>1. Nothing \in [Providers -> Evidence]
  BY EvidenceTyped
<1>2. cache = Nothing /\ inferred = Nothing /\ refresh.found = Nothing /\ seen = Nothing
  BY DEF Init, NoRefresh
<1>3. attempts = <<>>
  BY DEF Init
<1> QED BY <1>1, <1>2, <1>3, NothingIsBacked DEF FoundedInv, Fresh

LEMMA FoundedStep == TInv /\ FoundedInv /\ [Next]_vars => FoundedInv'
<1> SUFFICES ASSUME TInv, FoundedInv, [Next]_vars PROVE FoundedInv'
  OBVIOUS
<1>t. /\ render \in Renders /\ attempts \in Seq(Attempts) /\ PlanInv
      /\ cache \in [Providers -> Evidence] /\ inferred \in [Providers -> Evidence]
      /\ seen \in [Providers -> Evidence] /\ refresh \in Refreshes
      /\ refresh.found \in [Providers -> Evidence]
  BY DEF TInv, TypeOK, Refreshes
<1>f. /\ BackedBy(cache, seen) /\ BackedBy(inferred, seen) /\ BackedBy(refresh.found, seen)
      /\ Fresh(attempts, seen) /\ (render.pc = "idle" => attempts = <<>>)
  BY DEF FoundedInv
<1>n. NextProvider \in Renders /\ NextProvider.pc = "next"
  BY <1>t, NextProviderTyped
<1>1. ASSUME Begin PROVE FoundedInv'
  <2>1. PICK c \in Configs : render' = [Idle EXCEPT !.pc = "next", !.config = c]
    BY <1>1 DEF Begin
  <2>2. render'.pc = "next"
    BY <2>1, IdleTyped DEF Renders
  <2> QED BY <1>1, <2>2, RenderStepFounded DEF Begin, evidence
<1>2. ASSUME NEW id \in Ids, SkipForGood(id) PROVE FoundedInv'
  <2>1. Fresh(attempts', seen')
    BY <1>2, <1>t, <1>f, AttemptIsFresh DEF SkipForGood, Statuses, evidence
  <2> QED BY <1>2, <1>n, <2>1, RenderStepFounded DEF SkipForGood, evidence
<1>3. ASSUME NEW p \in Providers, SkipOnHealth(p) PROVE FoundedInv'
  <2>1. Fresh(attempts', seen')
    BY <1>3, <1>t, <1>f, AttemptIsFresh DEF SkipOnHealth, Statuses, Ids, evidence
  <2> QED BY <1>3, <1>n, <2>1, RenderStepFounded DEF SkipOnHealth, evidence
<1>4. ASSUME NEW p \in Providers, Try(p) PROVE FoundedInv'
  <2>1. render'.pc = "trying"
    BY <1>4, <1>t DEF Try, Renders
  <2> QED BY <1>4, <2>1, RenderStepFounded DEF Try, evidence
<1>5. ASSUME GiveUp PROVE FoundedInv'
  <2>1. render'.pc = "done"
    BY <1>5, <1>t DEF GiveUp, Renders
  <2> QED BY <1>5, <2>1, RenderStepFounded DEF GiveUp, evidence
<1>6. ASSUME NEW p \in Providers, Succeed(p) PROVE FoundedInv'
  <2>1. Fresh(attempts', seen')
    BY <1>6, <1>t, <1>f, HeadTyped, AttemptIsFresh DEF Succeed, Trying, Statuses, Ids, evidence
  <2>2. render'.pc = "done"
    BY <1>6, IdleTyped DEF Succeed, Renders
  <2> QED BY <1>6, <2>1, <2>2, RenderStepFounded DEF Succeed, evidence
<1>7. ASSUME NEW p \in Providers, Reject(p) PROVE FoundedInv'
  <2>1. Fresh(attempts', seen')
    BY <1>7, <1>t, <1>f, HeadTyped, AttemptIsFresh DEF Reject, Trying, Statuses, Ids, evidence
  <2> QED BY <1>7, <1>n, <2>1, RenderStepFounded DEF Reject, evidence
<1>8. ASSUME NEW p \in Providers, Fail(p) PROVE FoundedInv'
  <2>1. PICK status \in Fails[p] \cap {"error", "dead", "empty"} :
           /\ Attempted(p, Head(render.plan), IF status = "error" THEN "failed" ELSE status)
           /\ IF status = "dead" THEN Seen(p) ELSE UNCHANGED seen
    BY <1>8 DEF Fail
  <2>2. seen' = seen \/ seen' = [seen EXCEPT ![p] = 0]
    BY <2>1 DEF Seen
  <2>3. status = "dead" => seen'[p] = 0
    BY <1>t, <2>1 DEF Seen
  <2>4. Head(render.plan) \in Channels /\ p \in Ids
    BY <1>8, <1>t, HeadTyped DEF Fail, Trying, Ids
  <2>5. Fresh(attempts, seen') => Fresh(attempts', seen')
    <3>1. (IF status = "error" THEN "failed" ELSE status) \in Statuses
      BY DEF Statuses
    <3>2. (IF status = "error" THEN "failed" ELSE status) \in {"dead", "rate_limit"}
            => seen'[p] = 0
      BY <2>3
    <3> QED BY <1>t, <2>1, <2>4, <3>1, <3>2, AttemptIsFresh
  <2>6. NextChannel.pc # "idle"
    BY <1>8, <1>t, NextChannelTyped DEF Fail, Trying
  <2> QED BY <1>8, <2>2, <2>5, <2>6, RenderStepFounded DEF Fail
<1>9. ASSUME NEW p \in Providers, RateLimited(p) PROVE FoundedInv'
  <2>1. seen' = [seen EXCEPT ![p] = 0] /\ seen'[p] = 0
    BY <1>9, <1>t DEF RateLimited, Seen
  <2>2. Fresh(attempts, seen') => Fresh(attempts', seen')
    BY <1>9, <1>t, <2>1, HeadTyped, AttemptIsFresh DEF RateLimited, Trying, Statuses, Ids
  <2>3. NextChannel.pc # "idle"
    BY <1>9, <1>t, NextChannelTyped DEF RateLimited, Trying
  <2>4. [render EXCEPT !.retried = TRUE].pc # "idle"
    BY <1>9, <1>t DEF RateLimited, Trying, Renders
  <2> QED BY <1>9, <2>1, <2>2, <2>3, <2>4, RenderStepFounded DEF RateLimited
<1>10. ASSUME Record PROVE FoundedInv'
  <2>1. BackedBy(inferred', seen')
    BY <1>10, InferredIsBacked DEF Record
  <2> QED BY <1>10, <1>f, <2>1 DEF Record, FoundedInv, Fresh
<1>11. ASSUME Refresh PROVE FoundedInv'
  <2>1. refresh'.found = Nothing
    BY <1>11 DEF Refresh, NoRefresh
  <2> QED BY <1>11, <1>t, <1>f, <2>1, NothingIsBacked DEF Refresh, evidence, FoundedInv
<1>12. ASSUME NEW p \in Providers, Probe(p) \/ Silent(p) PROVE FoundedInv'
  <2>1. PICK reading \in Evidence :
           /\ Answers(p, reading)
           /\ \/ reading = 0 /\ Seen(p)
              \/ reading \in {None, inferred[p]} /\ UNCHANGED seen
    BY <1>12, <1>t, EvidenceTyped DEF Probe, Silent
  <2>2. seen' = seen \/ seen' = [seen EXCEPT ![p] = 0]
    BY <2>1 DEF Seen
  <2>3. /\ BackedBy(cache, seen') /\ BackedBy(inferred, seen')
        /\ BackedBy(refresh.found, seen') /\ Fresh(attempts, seen')
    BY <1>t, <1>f, <2>2, SeenKeeps
  <2>4. reading # None => seen'[p] # None /\ seen'[p] <= reading
    BY <1>t, <1>f, <2>1, ProviderChainAssumption DEF Seen, BackedBy
  <2>5. refresh'.found = [refresh.found EXCEPT ![p] = reading]
    BY <1>t, <2>1 DEF Answers, Refreshes
  <2>6. BackedBy(refresh'.found, seen')
    BY <1>t, <2>3, <2>4, <2>5 DEF BackedBy
  <2> QED BY <1>f, <2>1, <2>3, <2>6 DEF Answers, FoundedInv
<1>13. ASSUME Store PROVE FoundedInv'
  <2>1. BackedBy(cache', seen')
    BY <1>13, <1>t, <1>f DEF Store, BackedBy
  <2>2. refresh'.found = Nothing
    BY <1>13 DEF Store, NoRefresh
  <2> QED BY <1>13, <1>t, <1>f, <2>1, <2>2, NothingIsBacked DEF Store, FoundedInv
<1>14. ASSUME Pass PROVE FoundedInv'
  <2>1. refresh'.found = Aged(refresh.found)
    BY <1>14, <1>t DEF Pass, Refreshes
  <2>2. BackedBy(cache', seen') /\ BackedBy(inferred', seen') /\ BackedBy(refresh'.found, seen')
    BY <1>14, <1>t, <1>f, <2>1, AgedTogether DEF Pass
  <2>3. attempts' = <<>>
    BY <1>14, <1>f DEF Pass
  <2> QED BY <2>2, <2>3 DEF FoundedInv, Fresh
<1>15. ASSUME Restart PROVE FoundedInv'
  <2>1. refresh'.found = Nothing
    BY <1>15 DEF Restart, NoRefresh
  <2> QED BY <1>15, <1>t, <1>f, <2>1, NothingIsBacked DEF Restart, FoundedInv, Fresh
<1>16. CASE UNCHANGED vars
  BY <1>16, <1>f DEF vars, FoundedInv
<1> QED BY <1>1, <1>2, <1>3, <1>4, <1>5, <1>6, <1>7, <1>8, <1>9, <1>10, <1>11, <1>12, <1>13, <1>14,
          <1>15, <1>16 DEF Next, RenderStep

\* The inductive invariant: whatever the inference, a refresh under way or the cache remember
\* of a provider, an attempt or a probe saw, and saw no longer ago than is remembered.
THEOREM EvidenceIsSeen == Spec => [](TInv /\ FoundedInv)
BY TypeInit, TypeStep, FoundedInit, FoundedStep, PTL DEF Spec

\* Only a skip on health looks like one.
LEMMA SkipStep ==
    ASSUME TInv, FoundedInv, [Next]_vars, NEW p \in Providers, Len(attempts') > Len(attempts),
           Last(attempts') = [provider |-> p, channel |-> None, status |-> "skipped_on_health"]
    PROVE  seen[p] # None
<1>t. /\ render \in Renders /\ attempts \in Seq(Attempts) /\ PlanInv
      /\ attempts'[Len(attempts')] =
             [provider |-> p, channel |-> None, status |-> "skipped_on_health"]
      /\ attempts' # attempts /\ attempts' # <<>> /\ Len(attempts) \in Nat
  <2>1. Len(attempts) \in Nat /\ Len(<<>>) = 0
    BY DEF TInv, TypeOK
  <2> QED BY <2>1 DEF TInv, TypeOK, Last
<1>1. ASSUME NEW id \in Ids, NEW channel \in Channels \cup {None}, NEW status \in Statuses,
             Attempted(id, channel, status)
      PROVE  id = p /\ status = "skipped_on_health"
  <2>1. attempts'[Len(attempts')] = [provider |-> id, channel |-> channel, status |-> status]
    BY <1>t, <1>1, AttemptedTyped
  <2> QED BY <1>t, <2>1
<1>2. ASSUME NEW q \in Providers, SkipOnHealth(q) PROVE seen[p] # None
  <2>1. q = p
    BY <1>2, <1>1 DEF SkipOnHealth, Statuses, Ids
  <2>2. cache[p] # None
    BY <1>2, <2>1 DEF SkipOnHealth, HealthSkipReason
  <2> QED BY <2>2 DEF FoundedInv, BackedBy
<1>3. ASSUME NEW id \in Ids, SkipForGood(id) PROVE FALSE
  BY <1>3, <1>1 DEF SkipForGood, Statuses
<1>4. ASSUME NEW q \in Providers, Succeed(q) \/ Reject(q) \/ RateLimited(q) PROVE FALSE
  <2>1. Head(render.plan) \in Channels /\ q \in Ids
    BY <1>4, <1>t, HeadTyped DEF Succeed, Reject, RateLimited, Trying, Ids
  <2>2. PICK status \in {"succeeded", "invalid", "rate_limit"} :
           Attempted(q, Head(render.plan), status)
    BY <1>4 DEF Succeed, Reject, RateLimited
  <2> QED BY <1>1, <2>1, <2>2 DEF Statuses
<1>5. ASSUME NEW q \in Providers, Fail(q) PROVE FALSE
  <2>1. Head(render.plan) \in Channels /\ q \in Ids
    BY <1>5, <1>t, HeadTyped DEF Fail, Trying, Ids
  <2>2. PICK status \in {"failed", "dead", "empty"} : Attempted(q, Head(render.plan), status)
    BY <1>5 DEF Fail
  <2> QED BY <1>1, <2>1, <2>2 DEF Statuses
<1>6. \/ Begin \/ GiveUp \/ Refresh \/ Store \/ Pass
      \/ \E q \in Providers : Try(q) \/ Probe(q) \/ Silent(q)
      \/ UNCHANGED vars
      => attempts' = attempts
  BY DEF Begin, GiveUp, Refresh, Store, Pass, Try, Probe, Silent, Answers, vars
<1>7. Record \/ Restart => attempts' = <<>>
  BY DEF Record, Restart
<1> QED BY <1>t, <1>2, <1>3, <1>4, <1>5, <1>6, <1>7 DEF Next, RenderStep

\* ProviderChain!SkipsAreFounded: a provider is passed over only when an attempt or a probe
\* found it dead within the time evidence counts, however often that was inferred, refreshed
\* and stored since.
THEOREM SkipsRestOnEvidence == Spec => SkipsAreFounded
<1>1. ASSUME TInv, FoundedInv, [Next]_vars
      PROVE  [\A p \in Providers :
                 Len(attempts') > Len(attempts)
                 /\ Last(attempts') = [provider |-> p, channel |-> None,
                                       status |-> "skipped_on_health"]
                 => seen[p] # None]_vars
  BY <1>1, SkipStep
<1> QED BY <1>1, EvidenceIsSeen, PTL DEF Spec, SkipsAreFounded

-----------------------------------------------------------------------------
(* The chain *)

\* The values of a stretch of a sequence.
Prefix(s, m) == {s[j] : j \in 1 .. m}

LEMMA PrefixGrows ==
    ASSUME NEW s, NEW m \in Nat
    PROVE  /\ Prefix(s, 0) = {}
           /\ Prefix(s, m + 1) = Prefix(s, m) \cup {s[m + 1]}
<1>1. 1 .. m + 1 = (1 .. m) \cup {m + 1}
  OBVIOUS
<1> QED BY <1>1 DEF Prefix

\* What is kept of the first n that are listed: no id twice, and each as the last of those
\* listed up to its first place.
Kept(listed, n, r) ==
    /\ r \in Seq(Ids)
    /\ \A i, k \in 1 .. Len(r) : r[i] = r[k] => i = k
    /\ Prefix(r, Len(r)) = Prefix(listed, n) \ {None}
    /\ \A m \in 1 .. Len(r) : \E k \in 1 .. n :
          /\ listed[k] = r[m] /\ \A j \in 1 .. k - 1 : listed[j] # r[m]
          /\ Prefix(r, m) = Prefix(listed, k) \ {None}

KeepOne(listed, n, r) ==
    IF listed[n] = None \/ Contains(r, listed[n]) THEN r ELSE Append(r, listed[n])

LEMMA KeptGrows ==
    ASSUME NEW listed \in Seq(Ids \cup {None}), NEW n \in 1 .. Len(listed), NEW r,
           Kept(listed, n - 1, r)
    PROVE  Kept(listed, n, KeepOne(listed, n, r))
<1> DEFINE x == listed[n]
           q == KeepOne(listed, n, r)
<1>1. /\ x \in Ids \cup {None} /\ n - 1 \in Nat /\ (n - 1) + 1 = n
      /\ r \in Seq(Ids) /\ Len(r) \in Nat
  BY DEF Kept
<1>2. Prefix(listed, n) = Prefix(listed, n - 1) \cup {x}
  BY <1>1, PrefixGrows
<1>3. Contains(r, x) <=> x \in Prefix(r, Len(r))
  BY DEF Contains, Prefix
<1>4. ASSUME NEW m \in 1 .. Len(r)
      PROVE  \E k \in 1 .. n :
                /\ listed[k] = r[m] /\ \A j \in 1 .. k - 1 : listed[j] # r[m]
                /\ Prefix(r, m) = Prefix(listed, k) \ {None}
  <2>1. PICK k \in 1 .. n - 1 :
                /\ listed[k] = r[m] /\ \A j \in 1 .. k - 1 : listed[j] # r[m]
                /\ Prefix(r, m) = Prefix(listed, k) \ {None}
    BY DEF Kept
  <2>2. k \in 1 .. n
    OBVIOUS
  <2> QED BY <2>1, <2>2
<1>5. CASE x = None \/ Contains(r, x)
  <2>1. q = r
    BY <1>5 DEF KeepOne
  <2>2. Prefix(listed, n) \ {None} = Prefix(listed, n - 1) \ {None}
    BY <1>2, <1>3, <1>5 DEF Kept
  <2>3. Kept(listed, n, r)
    BY <1>4, <2>2 DEF Kept
  <2> QED BY <2>1, <2>3
<1>6. CASE x # None /\ ~Contains(r, x)
  <2>1. q = Append(r, x) /\ x \in Ids
    BY <1>1, <1>6 DEF KeepOne
  <2>2. /\ q \in Seq(Ids) /\ Len(q) = Len(r) + 1 /\ q[Len(r) + 1] = x
        /\ \A i \in 1 .. Len(r) : q[i] = r[i]
    BY <1>1, <2>1
  <2>3. \A m \in 0 .. Len(r) : Prefix(q, m) = Prefix(r, m)
    <3> SUFFICES ASSUME NEW m \in 0 .. Len(r) PROVE Prefix(q, m) = Prefix(r, m)
      OBVIOUS
    <3>1. \A j \in 1 .. m : q[j] = r[j]
      BY <2>2
    <3> QED BY <3>1 DEF Prefix
  <2>4. Prefix(q, Len(q)) = Prefix(r, Len(r)) \cup {x}
    <3>1. Len(r) \in 0 .. Len(r)
      BY <1>1
    <3>2. Prefix(q, Len(r) + 1) = Prefix(q, Len(r)) \cup {q[Len(r) + 1]}
      BY <1>1, PrefixGrows
    <3> HIDE DEF q
    <3> QED BY <2>2, <2>3, <3>1, <3>2
  <2>5. Prefix(q, Len(q)) = Prefix(listed, n) \ {None}
    BY <1>2, <1>6, <2>4 DEF Kept
  <2>6. ASSUME NEW i \in 1 .. Len(q), NEW k \in 1 .. Len(q), q[i] = q[k] PROVE i = k
    <3>1. \A j \in 1 .. Len(r) : r[j] # x
      BY <1>6 DEF Contains
    <3>2. CASE i = Len(r) + 1 \/ k = Len(r) + 1
      BY <1>1, <2>2, <2>6, <3>1, <3>2
    <3>3. CASE i # Len(r) + 1 /\ k # Len(r) + 1
      <4>1. i \in 1 .. Len(r) /\ k \in 1 .. Len(r)
        BY <1>1, <2>2, <3>3
      <4> QED BY <2>2, <2>6, <4>1 DEF Kept
    <3> QED BY <3>2, <3>3
  <2>7. ASSUME NEW m \in 1 .. Len(q)
        PROVE  \E k \in 1 .. n :
                  /\ listed[k] = q[m] /\ \A j \in 1 .. k - 1 : listed[j] # q[m]
                  /\ Prefix(q, m) = Prefix(listed, k) \ {None}
    <3>1. CASE m = Len(r) + 1
      <4>1. \A j \in 1 .. n - 1 : listed[j] # x
        <5>1. x \notin Prefix(listed, n - 1)
          BY <1>3, <1>6 DEF Kept
        <5> QED BY <5>1 DEF Prefix
      <4>2. n \in 1 .. n /\ q[m] = x /\ m = Len(q)
        BY <1>1, <2>2, <3>1
      <4> QED BY <2>5, <4>1, <4>2
    <3>2. CASE m # Len(r) + 1
      <4>1. m \in 1 .. Len(r)
        BY <1>1, <2>2, <3>2
      <4>2. q[m] = r[m] /\ Prefix(q, m) = Prefix(r, m)
        BY <2>2, <2>3, <4>1
      <4> QED BY <1>4, <4>1, <4>2
    <3> QED BY <3>1, <3>2
  <2> QED BY <2>2, <2>5, <2>6, <2>7 DEF Kept
<1> QED BY <1>5, <1>6

\* provider_chain's loop keeps the first of every id.
LEMMA KeepFirstKeeps ==
    ASSUME NEW listed \in Seq(Ids \cup {None})
    PROVE  Kept(listed, Len(listed), KeepFirst(listed))
<1> DEFINE N == Len(listed)
           step == [n \in 1 .. N |-> [r \in Seq(Ids) |-> KeepOne(listed, n, r)]]
           Loop(f) == [n \in 0 .. N |-> IF n = 0 THEN <<>> ELSE KeepOne(listed, n, f[n - 1])]
           upTo == CHOOSE f : f = Loop(f)
<1>1. N \in Nat /\ <<>> \in Seq(Ids) /\ \A n \in 1 .. N : listed[n] \in Ids \cup {None}
  OBVIOUS
<1>2. \A n \in 1 .. N, r \in Seq(Ids) : KeepOne(listed, n, r) \in Seq(Ids)
  BY <1>1 DEF KeepOne
<1>3. step \in [1 .. N -> [Seq(Ids) -> Seq(Ids)]]
  BY <1>2
<1>4. PICK f \in [0 .. N -> Seq(Ids)] : f = Values(N, <<>>, step, f)
  <2> DEFINE none == <<>>
             S == Seq(Ids)
  <2>1. N \in Nat /\ none \in S /\ step \in [1 .. N -> [S -> S]]
    BY <1>1, <1>3
  <2> HIDE DEF step, N, none, S
  <2>2. \E f \in [0 .. N -> S] : f = Values(N, none, step, f)
    BY <2>1, Iterates
  <2> QED BY <2>2 DEF none, S
<1>5. f = Loop(f)
  <2>1. ASSUME NEW n \in 1 .. N
        PROVE  n - 1 \in 0 .. N /\ step[n][f[n - 1]] = KeepOne(listed, n, f[n - 1])
    <3>1. n - 1 \in 0 .. N
      BY <1>1
    <3>2. f[n - 1] \in Seq(Ids)
      BY <1>4, <3>1
    <3> QED BY <3>1, <3>2
  <2>2. ASSUME NEW n \in 0 .. N PROVE f[n] = Loop(f)[n]
    <3>1. f[n] = IF n = 0 THEN <<>> ELSE step[n][f[n - 1]]
      <4> HIDE DEF step
      <4> QED BY <1>4 DEF Values
    <3>2. n # 0 => n \in 1 .. N
      BY <1>1
    <3> HIDE DEF step
    <3> QED BY <2>1, <3>1, <3>2
  <2> QED BY <1>4, <2>2
<1>6. upTo = Loop(upTo)
  <2> HIDE DEF Loop
  <2> QED BY <1>5
<1>7. KeepFirst(listed) = upTo[N]
  BY DEF KeepFirst, KeepOne
<1> HIDE DEF upTo
<1> DEFINE P == {n \in 0 .. N : Kept(listed, n, upTo[n])}
<1>8. 0 \in P
  <2>1. upTo[0] = <<>> /\ 0 \in 0 .. N
    BY <1>1, <1>6
  <2>2. Prefix(<<>>, 0) = {} /\ Prefix(listed, 0) = {}
    BY DEF Prefix
  <2>3. Len(<<>>) = 0 /\ <<>> \in Seq(Ids)
    OBVIOUS
  <2>4. Kept(listed, 0, <<>>)
    BY <2>2, <2>3 DEF Kept
  <2> QED BY <2>1, <2>4
<1>9. ASSUME NEW n \in 0 .. N - 1, n \in P PROVE n + 1 \in P
  <2>1. /\ n + 1 \in 1 .. N /\ (n + 1) - 1 = n /\ n + 1 \in 0 .. N /\ n + 1 # 0
        /\ Kept(listed, n, upTo[n])
    BY <1>1, <1>9
  <2>2. upTo[n + 1] = KeepOne(listed, n + 1, upTo[n])
    BY <1>6, <2>1
  <2>3. Kept(listed, n + 1, upTo[n + 1])
    BY <2>1, <2>2, KeptGrows
  <2> QED BY <2>1, <2>3
<1>10. N \in P
  <2>1. N \in Nat /\ N \in 0 .. N
    BY <1>1
  <2> HIDE DEF P, N
  <2> QED BY <2>1, <1>8, <1>9, Upward
<1> QED BY <1>7, <1>10

LEMMA CandidatesTyped ==
    ASSUME NEW c \in Configs
    PROVE  Candidates(c) \in Seq(Ids \cup {None})
<1>1. /\ c.order \in Seq(Ids \cup {None}) /\ c.stored \in Seq(Ids \cup {None})
      /\ c.preferred \in Ids \cup {None}
  BY ProviderChainAssumption
<1>2. <<c.preferred>> \in Seq(Ids \cup {None})
  BY <1>1
<1>3. <<c.preferred>> \o c.stored \in Seq(Ids \cup {None})
  BY <1>1, <1>2, ConcatProperties, Zenon
<1> QED BY <1>1, <1>3 DEF Candidates

\* The chain is an order on the listed ids: each is in it once, where it is listed first.
ChainIsOrder(c) ==
    LET chain == ChainOf(c)
    IN  /\ chain \in Seq(Ids)
        /\ \A i, k \in 1 .. Len(chain) : chain[i] = chain[k] => i = k
        /\ \A m \in 1 .. Len(chain) : \E k \in Places(c) :
              Asked(c)[k] = chain[m] /\ AskedUpTo(c, k) = Prefix(chain, m)
        /\ AskedUpTo(c, Len(Asked(c))) = Prefix(chain, Len(chain))

\* With fallback every filled place is one that a render may come to.
LEMMA AskedWithFallback ==
    ASSUME NEW c \in Configs, c.env = None, c.fallback, NEW k \in 0 .. Len(Candidates(c))
    PROVE  AskedUpTo(c, k) = Prefix(Candidates(c), k) \ {None}
<1>1. Candidates(c) \in Seq(Ids \cup {None}) /\ Asked(c) = Candidates(c)
  BY CandidatesTyped DEF Asked
<1>2. {j \in Places(c) : j <= k} = {j \in 1 .. k : Candidates(c)[j] # None}
  BY <1>1 DEF Places
<1> QED BY <1>1, <1>2 DEF AskedUpTo, Prefix

LEMMA ChainsAreOrders ==
    ASSUME NEW c \in Configs
    PROVE  ChainIsOrder(c)
<1> DEFINE listed == Candidates(c)
           ordered == KeepFirst(listed)
<1>1. listed \in Seq(Ids \cup {None}) /\ Len(listed) \in Nat
  BY CandidatesTyped
<1>2. Kept(listed, Len(listed), ordered) /\ ordered \in Seq(Ids) /\ Len(ordered) \in Nat
  BY <1>1, KeepFirstKeeps DEF Kept
<1> HIDE DEF ordered, listed
<1>3. CASE c.env # None
  <2>1. /\ ChainOf(c) = <<c.env>> /\ Asked(c) = <<c.env>> /\ c.env \in Ids
    BY <1>3, ProviderChainAssumption DEF ChainOf, Asked
  <2>2. Places(c) = {1}
    BY <1>3, <2>1 DEF Places
  <2>3. AskedUpTo(c, 1) = {c.env} /\ Prefix(ChainOf(c), 1) = {c.env}
    BY <2>1, <2>2 DEF AskedUpTo, Prefix
  <2> QED BY <2>1, <2>2, <2>3 DEF ChainIsOrder
<1>4. CASE c.env = None /\ c.fallback
  <2>1. ChainOf(c) = ordered /\ Asked(c) = listed
    BY <1>4 DEF ChainOf, Asked, ordered, listed
  <2>2. \A k \in 0 .. Len(listed) : AskedUpTo(c, k) = Prefix(listed, k) \ {None}
    BY <1>4, AskedWithFallback DEF listed
  <2>3. ASSUME NEW m \in 1 .. Len(ordered)
        PROVE  \E k \in Places(c) : Asked(c)[k] = ordered[m] /\ AskedUpTo(c, k) = Prefix(ordered, m)
    <3>1. PICK k \in 1 .. Len(listed) :
              listed[k] = ordered[m] /\ Prefix(ordered, m) = Prefix(listed, k) \ {None}
      BY <1>2 DEF Kept
    <3>2. ordered[m] \in Ids /\ None \notin Ids
      BY <1>2, ProviderChainAssumption
    <3>3. k \in Places(c) /\ k \in 0 .. Len(listed)
      BY <1>4, <2>1, <3>1, <3>2 DEF Places
    <3> QED BY <2>1, <2>2, <3>1, <3>3
  <2>4. AskedUpTo(c, Len(Asked(c))) = Prefix(ordered, Len(ordered))
    BY <1>1, <1>2, <2>1, <2>2 DEF Kept
  <2> QED BY <1>2, <2>1, <2>3, <2>4 DEF ChainIsOrder, Kept
<1>5. CASE c.env = None /\ ~c.fallback /\ ordered = <<>>
  <2>1. ChainOf(c) = <<>> /\ Asked(c) = listed
    BY <1>5 DEF ChainOf, Asked, ordered, listed
  <2>2. Prefix(<<>>, 0) = {} /\ Len(<<>>) = 0 /\ <<>> \in Seq(Ids)
    BY DEF Prefix
  <2>3. \A j \in 1 .. Len(listed) : listed[j] = None
    BY <1>2, <1>5, <2>2 DEF Kept, Prefix
  <2>4. Places(c) = {}
    BY <2>1, <2>3 DEF Places
  <2>5. AskedUpTo(c, Len(Asked(c))) = {}
    BY <2>4 DEF AskedUpTo
  <2> QED BY <2>1, <2>2, <2>5 DEF ChainIsOrder
<1>6. CASE c.env = None /\ ~c.fallback /\ ordered # <<>>
  <2> DEFINE first == ordered[1]
  <2>1. ChainOf(c) = <<first>> /\ Asked(c) = listed /\ first \in Ids /\ first # None
        /\ 1 \in 1 .. Len(ordered)
    BY <1>2, <1>6, ProviderChainAssumption DEF ChainOf, Asked, ordered, listed
  <2>2. PICK k \in 1 .. Len(listed) :
            /\ listed[k] = first /\ \A j \in 1 .. k - 1 : listed[j] # first
            /\ Prefix(ordered, 1) = Prefix(listed, k) \ {None}
    BY <1>2, <2>1 DEF Kept
  <2>3. Prefix(ordered, 1) = {first} /\ Prefix(<<first>>, 1) = {first}
    BY DEF Prefix
  <2>4. \A j \in 1 .. k - 1 : listed[j] = None
    <3> SUFFICES ASSUME NEW j \in 1 .. k - 1, listed[j] # None PROVE FALSE
      OBVIOUS
    <3>1. j \in 1 .. k
      BY <1>1
    <3>2. listed[j] \in Prefix(listed, k) \ {None}
      BY <3>1 DEF Prefix
    <3> HIDE DEF first
    <3> QED BY <2>2, <2>3, <3>2
  <2>5. Places(c) = {k}
    <3> HIDE DEF first
    <3>1. k \in Places(c)
      BY <2>1, <2>2, <2>4 DEF Places
    <3>2. ASSUME NEW j \in Places(c) PROVE j = k
      <4>1. j \in 1 .. Len(listed) /\ listed[j] # None /\ \A i \in 1 .. j - 1 : listed[i] = None
        BY <1>6, <2>1 DEF Places
      <4>2. ~ (j < k)
        BY <1>1, <2>4, <4>1
      <4>3. ~ (k < j)
        BY <1>1, <2>1, <2>2, <4>1
      <4> QED BY <1>1, <4>1, <4>2, <4>3
    <3> QED BY <3>1, <3>2
  <2>6. AskedUpTo(c, k) = {first} /\ AskedUpTo(c, Len(Asked(c))) = {first}
    <3>1. k <= k /\ k <= Len(Asked(c))
      BY <1>1, <2>1
    <3>2. {j \in Places(c) : j <= k} = {k} /\ {j \in Places(c) : j <= Len(Asked(c))} = {k}
      BY <2>5, <3>1
    <3> HIDE DEF first
    <3> QED BY <2>1, <2>2, <3>2 DEF AskedUpTo
  <2> HIDE DEF first
  <2>7. Len(<<first>>) = 1 /\ <<first>>[1] = first /\ <<first>> \in Seq(Ids)
    BY <2>1
  <2>8. \A m \in 1 .. 1 : m = 1
    OBVIOUS
  <2> QED BY <2>1, <2>2, <2>3, <2>5, <2>6, <2>7, <2>8 DEF ChainIsOrder
<1> QED BY <1>3, <1>4, <1>5, <1>6

-----------------------------------------------------------------------------
(* Retries *)

\* All attempts are at the first n providers.
AmongFirst(r, n, list) ==
    \A i \in 1 .. Len(list) :
        \E k \in 1 .. n : k <= Len(ChainOf(r.config)) /\ list[i].provider = ChainOf(r.config)[k]

\* The last attempt is about to be repeated.
Again(r, list, i) ==
    /\ r.retried /\ i = Len(list)
    /\ list[i].status = "rate_limit" /\ r.config.retry /\ list[i].channel = Head(r.plan)

\* What is left of the plan was not tried, but for a rate limit that is to be tried again.
Untried(r, list) ==
    \A i \in 1 .. Len(list) :
        list[i].provider = ChainOf(r.config)[r.at] /\ list[i].channel # None =>
            \/ \A k \in 1 .. Len(r.plan) : r.plan[k] # list[i].channel
            \/ Again(r, list, i)

NoRepetition(plan) == \A i, k \in 1 .. Len(plan) : plan[i] = plan[k] => i = k

Bounded(r, list) ==
    \A i, j \in 1 .. Len(list) :
        i < j /\ list[i].channel # None
              /\ <<list[i].provider, list[i].channel>> = <<list[j].provider, list[j].channel>>
        => j = i + 1 /\ list[i].status = "rate_limit" /\ r.config.retry

RetryInv ==
    /\ render.pc # "idle" => render.config \in Configs
    /\ render.pc = "idle" => attempts = <<>>
    /\ render.pc = "next" => AmongFirst(render, render.at - 1, attempts)
    /\ render.pc = "trying" =>
          /\ render.at <= Len(ChainOf(render.config))
          /\ AmongFirst(render, render.at, attempts)
          /\ NoRepetition(render.plan) /\ Untried(render, attempts)
    /\ Bounded(render, attempts)

LEMMA ChainIs ==
    ASSUME render.config \in Configs
    PROVE  Chain = ChainOf(render.config)
<1>1. <<render.config, ChainOf(render.config)>> \in Chains
  BY DEF Chains
<1>2. \A entry \in Chains : entry[1] = render.config => entry[2] = ChainOf(render.config)
  BY DEF Chains
<1> DEFINE found == CHOOSE entry \in Chains : entry[1] = render.config
<1>3. found \in Chains /\ found[1] = render.config
  BY <1>1
<1> QED BY <1>2, <1>3 DEF Chain

\* A recorded attempt at the provider whose turn it is.
LEMMA AmongFirstGrows ==
    ASSUME TInv, NEW id \in Ids, NEW channel \in Channels \cup {None}, NEW status \in Statuses,
           Attempted(id, channel, status), NEW m \in Nat, m <= render.at,
           AmongFirst(render, m, attempts),
           render.at <= Len(ChainOf(render.config)), id = ChainOf(render.config)[render.at]
    PROVE  AmongFirst(render, render.at, attempts')
<1>t. attempts \in Seq(Attempts) /\ render.at \in Nat \ {0}
  BY DEF TInv, TypeOK, Renders
<1>a. /\ Len(attempts') = Len(attempts) + 1
      /\ attempts'[Len(attempts')] = [provider |-> id, channel |-> channel, status |-> status]
      /\ \A i \in 1 .. Len(attempts) : attempts'[i] = attempts[i]
  BY <1>t, AttemptedTyped
<1> SUFFICES ASSUME NEW i \in 1 .. Len(attempts')
             PROVE  \E k \in 1 .. render.at :
                        /\ k <= Len(ChainOf(render.config))
                        /\ attempts'[i].provider = ChainOf(render.config)[k]
  BY DEF AmongFirst
<1>1. CASE i = Len(attempts')
  <2>1. attempts'[i].provider = id /\ render.at \in 1 .. render.at
    BY <1>a, <1>1, <1>t
  <2> QED BY <2>1
<1>2. CASE i # Len(attempts')
  <2>1. i \in 1 .. Len(attempts) /\ attempts'[i] = attempts[i]
    BY <1>a, <1>2, <1>t
  <2>2. PICK k \in 1 .. m : /\ k <= Len(ChainOf(render.config))
                            /\ attempts[i].provider = ChainOf(render.config)[k]
    BY <2>1 DEF AmongFirst
  <2>3. k \in 1 .. render.at
    BY <1>t
  <2> QED BY <2>1, <2>2, <2>3
<1> QED BY <1>1, <1>2

\* Nothing was tried of a provider that comes after those that were.
LEMMA NothingTriedYet ==
    ASSUME render \in Renders, render.config \in Configs,
           render.at <= Len(ChainOf(render.config)),
           AmongFirst(render, render.at - 1, attempts), NEW i \in 1 .. Len(attempts)
    PROVE  attempts[i].provider # ChainOf(render.config)[render.at]
<1>1. PICK k \in 1 .. render.at - 1 : /\ k <= Len(ChainOf(render.config))
                                      /\ attempts[i].provider = ChainOf(render.config)[k]
  BY DEF AmongFirst
<1>2. render.at \in Nat \ {0} /\ Len(ChainOf(render.config)) \in Nat
  BY ChainsAreOrders DEF Renders, ChainIsOrder
<1>3. k \in 1 .. Len(ChainOf(render.config)) /\ render.at \in 1 .. Len(ChainOf(render.config))
      /\ k # render.at
  BY <1>1, <1>2
<1> QED BY <1>1, <1>3, ChainsAreOrders DEF ChainIsOrder

\* The attempt at the head of the plan repeats at most the one before it.
LEMMA BoundedGrows ==
    ASSUME TInv, RetryInv, render.pc = "trying", NEW id \in Ids, NEW status \in Statuses,
           id = ChainOf(render.config)[render.at],
           Attempted(id, Head(render.plan), status)
    PROVE  Bounded(render, attempts')
<1>t. attempts \in Seq(Attempts) /\ render \in Renders /\ PlanInv
  BY DEF TInv, TypeOK
<1>h. /\ Head(render.plan) \in Channels /\ Head(render.plan) = render.plan[1]
      /\ 1 \in 1 .. Len(render.plan)
  <2>1. render.plan \in Seq(Channels) /\ render.plan # <<>>
    BY <1>t DEF Renders, PlanInv
  <2> QED BY <2>1
<1>a. /\ Len(attempts') = Len(attempts) + 1 /\ Len(attempts) \in Nat
      /\ attempts'[Len(attempts')] = [provider |-> id, channel |-> Head(render.plan),
                                      status |-> status]
      /\ \A i \in 1 .. Len(attempts) : attempts'[i] = attempts[i]
  BY <1>t, <1>h, AttemptedTyped
<1> SUFFICES ASSUME NEW i \in 1 .. Len(attempts'), NEW j \in 1 .. Len(attempts'), i < j,
                    attempts'[i].channel # None,
                    attempts'[i].provider = attempts'[j].provider,
                    attempts'[i].channel = attempts'[j].channel
             PROVE  j = i + 1 /\ attempts'[i].status = "rate_limit" /\ render.config.retry
  BY DEF Bounded
<1>1. i \in 1 .. Len(attempts) /\ attempts'[i] = attempts[i]
  BY <1>a
<1>2. CASE j = Len(attempts')
  <2>1. attempts[i].provider = ChainOf(render.config)[render.at]
        /\ attempts[i].channel = render.plan[1] /\ attempts[i].channel # None
    BY <1>1, <1>2, <1>a, <1>h
  <2>2. Again(render, attempts, i)
    BY <1>1, <1>h, <2>1 DEF RetryInv, Untried
  <2> QED BY <1>1, <1>2, <1>a, <2>2 DEF Again
<1>3. CASE j # Len(attempts')
  <2>1. j \in 1 .. Len(attempts) /\ attempts'[j] = attempts[j]
    BY <1>a, <1>3
  <2> QED BY <1>1, <2>1 DEF RetryInv, Bounded
<1> QED BY <1>2, <1>3

\* On to the next provider, with what was attempted so far behind.
LEMMA MovesOn ==
    ASSUME TInv, RetryInv, render.config \in Configs,
           render' = NextProvider, AmongFirst(render, render.at, attempts'),
           Bounded(render, attempts')
    PROVE  RetryInv'
<1>1. render \in Renders /\ render.at \in Nat \ {0}
  BY DEF TInv, TypeOK, Renders
<1>2. render'.pc = "next" /\ render'.config = render.config /\ render'.at = render.at + 1
  BY <1>1, IdleTyped DEF NextProvider, Renders
<1>3. render'.at - 1 = render.at
  BY <1>1, <1>2
<1>4. AmongFirst(render', render'.at - 1, attempts')
  BY <1>2, <1>3 DEF AmongFirst
<1>5. Bounded(render', attempts')
  BY <1>2 DEF Bounded
<1> QED BY <1>2, <1>4, <1>5 DEF RetryInv

\* On to the next channel: the one just tried is not among those left.
LEMMA NextChannelUntried ==
    ASSUME TInv, RetryInv, render.pc = "trying", NEW p \in Providers,
           p = ChainOf(render.config)[render.at], NEW status \in Statuses,
           Attempted(p, Head(render.plan), status), render' = NextChannel
    PROVE  RetryInv'
<1>t. attempts \in Seq(Attempts) /\ render \in Renders /\ PlanInv
      /\ render.plan \in Seq(Channels) /\ render.plan # <<>>
  BY DEF TInv, TypeOK, Renders, PlanInv
<1>c. render.config \in Configs /\ render.at <= Len(ChainOf(render.config))
      /\ AmongFirst(render, render.at, attempts)
      /\ NoRepetition(render.plan) /\ Untried(render, attempts)
  BY DEF RetryInv
<1>h. /\ Head(render.plan) \in Channels /\ Head(render.plan) = render.plan[1]
      /\ 1 \in 1 .. Len(render.plan) /\ p \in Ids
  BY <1>t DEF Ids
<1>a. /\ Len(attempts') = Len(attempts) + 1 /\ Len(attempts) \in Nat
      /\ attempts'[Len(attempts')] = [provider |-> p, channel |-> Head(render.plan),
                                      status |-> status]
      /\ \A i \in 1 .. Len(attempts) : attempts'[i] = attempts[i]
  BY <1>t, <1>h, AttemptedTyped
<1>b. Bounded(render, attempts')
  BY <1>h, BoundedGrows
<1>f. AmongFirst(render, render.at, attempts')
  <2>1. render.at \in Nat /\ render.at <= render.at
    BY <1>t DEF Renders
  <2> QED BY <1>c, <1>h, <2>1, AmongFirstGrows
<1>1. CASE Len(render.plan) = 1
  BY <1>1, <1>b, <1>c, <1>f, MovesOn DEF NextChannel
<1>2. CASE Len(render.plan) # 1
  <2>1. render' = [render EXCEPT !.plan = Tail(render.plan), !.retried = FALSE]
    BY <1>2 DEF NextChannel
  <2>2. /\ render'.pc = "trying" /\ render'.config = render.config /\ render'.at = render.at
        /\ render'.plan = Tail(render.plan) /\ render'.retried = FALSE
    BY <2>1, <1>t DEF Renders
  <2>3. /\ Len(render'.plan) = Len(render.plan) - 1
        /\ \A k \in 1 .. Len(render'.plan) :
              k + 1 \in 1 .. Len(render.plan) /\ render'.plan[k] = render.plan[k + 1]
    BY <1>t, <2>2
  <2>4. NoRepetition(render'.plan)
    BY <1>c, <2>3 DEF NoRepetition
  <2>5. \A k \in 1 .. Len(render'.plan) : render'.plan[k] # Head(render.plan)
    BY <1>c, <1>h, <2>3 DEF NoRepetition
  <2>6. Untried(render', attempts')
    <3> SUFFICES ASSUME NEW i \in 1 .. Len(attempts'), attempts'[i].channel # None,
                        attempts'[i].provider = ChainOf(render.config)[render.at],
                        NEW k \in 1 .. Len(render'.plan)
                 PROVE  render'.plan[k] # attempts'[i].channel
      BY <2>2 DEF Untried
    <3>1. CASE i = Len(attempts')
      BY <1>a, <2>5, <3>1
    <3>2. CASE i # Len(attempts')
      <4>1. i \in 1 .. Len(attempts) /\ attempts'[i] = attempts[i]
        BY <1>a, <3>2
      <4>2. CASE Again(render, attempts, i)
        BY <4>1, <4>2, <2>5 DEF Again
      <4>3. CASE ~Again(render, attempts, i)
        <5>1. \A m \in 1 .. Len(render.plan) : render.plan[m] # attempts[i].channel
          BY <1>c, <4>1, <4>3 DEF Untried
        <5> QED BY <2>3, <4>1, <5>1
      <4> QED BY <4>2, <4>3
    <3> QED BY <3>1, <3>2
  <2>7. AmongFirst(render', render'.at, attempts') /\ Bounded(render', attempts')
    BY <1>b, <1>f, <2>2 DEF AmongFirst, Bounded
  <2>8. render'.at <= Len(ChainOf(render'.config)) /\ render'.config \in Configs
    BY <1>c, <2>2
  <2> QED BY <2>2, <2>4, <2>6, <2>7, <2>8 DEF RetryInv
<1> QED BY <1>1, <1>2

LEMMA RetryInit == Init => RetryInv
<1> SUFFICES ASSUME Init PROVE RetryInv
  OBVIOUS
<1>1. render.pc = "idle" /\ attempts = <<>>
  BY DEF Init, Idle
<1> QED BY <1>1 DEF RetryInv, Bounded

LEMMA RetryStep ==
    ASSUME TInv, RetryInv, [Next]_vars
    PROVE  RetryInv'
<1>t. /\ render \in Renders /\ attempts \in Seq(Attempts) /\ PlanInv
      /\ render.at \in Nat \ {0}
  BY DEF TInv, TypeOK, Renders
<1>w. ASSUME render.pc \in {"next", "trying"}, render.at <= Len(Chain)
      PROVE  /\ render.config \in Configs /\ Chain = ChainOf(render.config)
             /\ render.at <= Len(ChainOf(render.config))
  BY <1>w, ChainIs DEF RetryInv
<1>y. ASSUME NEW p \in Providers, Trying(p)
      PROVE  /\ render.pc = "trying" /\ render.config \in Configs /\ p \in Ids
             /\ p = ChainOf(render.config)[render.at]
             /\ Head(render.plan) \in Channels
             /\ render.at <= Len(ChainOf(render.config))
             /\ AmongFirst(render, render.at, attempts)
  <2>1. render.pc = "trying" /\ render.config \in Configs
    BY <1>y DEF Trying, RetryInv
  <2> QED BY <1>y, <1>t, <2>1, ChainIs, HeadTyped DEF Trying, Current, RetryInv, Ids
<1>1. ASSUME Begin PROVE RetryInv'
  <2>1. PICK c \in Configs : render' = [Idle EXCEPT !.pc = "next", !.config = c]
    BY <1>1 DEF Begin
  <2>2. render'.pc = "next" /\ render'.config = c
    BY <2>1, IdleTyped DEF Renders
  <2>3. attempts' = <<>>
    BY <1>1 DEF Begin, RetryInv
  <2> QED BY <2>2, <2>3 DEF RetryInv, Bounded, AmongFirst
<1>2. ASSUME NEW id \in Ids, NEW status \in Statuses, Reached(id),
             Attempted(id, None, status), render' = NextProvider
      PROVE  RetryInv'
  <2>1. /\ render.config \in Configs /\ render.at <= Len(ChainOf(render.config))
        /\ id = ChainOf(render.config)[render.at] /\ render.pc = "next"
    BY <1>2, <1>w DEF Reached, Current
  <2>2. AmongFirst(render, render.at - 1, attempts) /\ render.at - 1 \in Nat
        /\ render.at - 1 <= render.at
    BY <1>t, <2>1 DEF RetryInv
  <2>3. AmongFirst(render, render.at, attempts')
    BY <1>2, <2>1, <2>2, AmongFirstGrows
  <2>4. /\ Len(attempts') = Len(attempts) + 1 /\ Len(attempts) \in Nat
        /\ attempts'[Len(attempts')].channel = None
        /\ \A i \in 1 .. Len(attempts) : attempts'[i] = attempts[i]
    <3>1. attempts \in Seq(Attempts) /\ Len(attempts) \in Nat /\ None \in Channels \cup {None}
      BY <1>t
    <3>2. Attempted(id, None, status)
      BY <1>2
    <3>3. /\ attempts' \in Seq(Attempts)
          /\ Len(attempts') = Len(attempts) + 1
          /\ attempts'[Len(attempts')] = [provider |-> id, channel |-> None, status |-> status]
          /\ \A i \in 1 .. Len(attempts) : attempts'[i] = attempts[i]
      BY <3>1, <3>2, AttemptedTyped
    <3> QED BY <3>1, <3>3
  <2>5. Bounded(render, attempts')
    <3> SUFFICES ASSUME NEW i \in 1 .. Len(attempts'), NEW j \in 1 .. Len(attempts'), i < j,
                        attempts'[i].channel # None,
                        attempts'[i].provider = attempts'[j].provider,
                        attempts'[i].channel = attempts'[j].channel
                 PROVE  /\ j = i + 1 /\ attempts'[i].status = "rate_limit"
                        /\ render.config.retry
      BY DEF Bounded
    <3>1. j # Len(attempts') /\ i # Len(attempts')
      BY <2>4
    <3>2. i \in 1 .. Len(attempts) /\ j \in 1 .. Len(attempts)
      BY <2>4, <3>1
    <3> QED BY <2>4, <3>2 DEF RetryInv, Bounded
  <2> QED BY <1>2, <2>1, <2>3, <2>5, MovesOn
<1>3. ASSUME NEW id \in Ids, SkipForGood(id) PROVE RetryInv'
  BY <1>2, <1>3 DEF SkipForGood, Statuses
<1>4. ASSUME NEW p \in Providers, SkipOnHealth(p) PROVE RetryInv'
  BY <1>2, <1>4 DEF SkipOnHealth, Statuses, Ids
<1>5. ASSUME NEW p \in Providers, Try(p) PROVE RetryInv'
  <2>1. PICK plan \in Plans(p) : render' = [render EXCEPT !.pc = "trying", !.plan = plan]
    BY <1>5 DEF Try
  <2>2. /\ render'.pc = "trying" /\ render'.plan = plan
        /\ render'.config = render.config /\ render'.at = render.at
    BY <2>1, <1>t DEF Renders
  <2>3. /\ render.config \in Configs /\ render.at <= Len(ChainOf(render.config))
        /\ render.pc = "next"
    BY <1>5, <1>w DEF Try, Reached
  <2>4. attempts' = attempts
    BY <1>5 DEF Try
  <2>5. AmongFirst(render, render.at - 1, attempts)
    BY <2>3 DEF RetryInv
  <2>6. Untried(render', attempts')
    BY <1>t, <2>2, <2>3, <2>4, <2>5, NothingTriedYet DEF Untried
  <2>7. AmongFirst(render', render'.at, attempts')
    <3>1. \A k \in 1 .. render.at - 1 : k \in 1 .. render.at
      BY <1>t
    <3> QED BY <2>2, <2>4, <2>5, <3>1 DEF AmongFirst
  <2>8. NoRepetition(render'.plan)
    <3>1. Mode[p] \in {"cli_only", "api_only", "cli_first", "api_fallback"}
      BY ProviderChainAssumption
    <3>2. plan = <<"cli">> \/ plan = <<"api">> \/ plan = <<"cli", "api">>
      BY <3>1 DEF Plans
    <3> QED BY <2>2, <3>2 DEF NoRepetition
  <2>9. Bounded(render', attempts')
    BY <2>2, <2>4 DEF RetryInv, Bounded
  <2> QED BY <2>2, <2>3, <2>6, <2>7, <2>8, <2>9 DEF RetryInv
<1>6. ASSUME GiveUp PROVE RetryInv'
  <2>1. render'.pc = "done" /\ render'.config = render.config /\ attempts' = attempts
    BY <1>6, <1>t DEF GiveUp, Renders
  <2> QED BY <1>6, <2>1 DEF GiveUp, RetryInv, Bounded
<1>7. ASSUME NEW p \in Providers, Succeed(p) PROVE RetryInv'
  <2>1. Bounded(render, attempts')
    BY <1>7, <1>y, BoundedGrows DEF Succeed, Statuses
  <2>2. render.config \in Configs
    BY <1>7, <1>y DEF Succeed
  <2>3. render'.pc = "done" /\ render'.config = render.config
    BY <1>7, <1>t, <2>2, IdleTyped DEF Succeed, Renders
  <2> QED BY <2>1, <2>2, <2>3 DEF RetryInv, Bounded
<1>8. ASSUME NEW p \in Providers, Reject(p) PROVE RetryInv'
  <2>1. Bounded(render, attempts')
    BY <1>8, <1>y, BoundedGrows DEF Reject, Statuses
  <2>2. AmongFirst(render, render.at, attempts')
    BY <1>8, <1>t, <1>y, AmongFirstGrows DEF Reject, Statuses
  <2> QED BY <1>8, <1>y, <2>1, <2>2, MovesOn DEF Reject
<1>9. ASSUME NEW p \in Providers, Fail(p) PROVE RetryInv'
  <2>1. PICK status \in {"failed", "dead", "empty"} : Attempted(p, Head(render.plan), status)
    BY <1>9 DEF Fail
  <2>2. status \in Statuses
    BY DEF Statuses
  <2> QED BY <1>9, <1>y, <2>1, <2>2, NextChannelUntried DEF Fail
<1>10. ASSUME NEW p \in Providers, RateLimited(p) PROVE RetryInv'
  <2>1. Attempted(p, Head(render.plan), "rate_limit") /\ Trying(p) /\ "rate_limit" \in Statuses
    BY <1>10 DEF RateLimited, Statuses
  <2>2. CASE render' = NextChannel
    BY <1>y, <2>1, <2>2, NextChannelUntried
  <2>3. CASE /\ render.config.retry /\ ~render.retried
             /\ render' = [render EXCEPT !.retried = TRUE]
    <3>1. /\ render'.pc = "trying" /\ render'.plan = render.plan /\ render'.retried
          /\ render'.config = render.config /\ render'.at = render.at
      BY <1>t, <1>y, <2>1, <2>3 DEF Renders
    <3>2. Bounded(render, attempts')
      BY <1>y, <2>1, BoundedGrows
    <3>3. AmongFirst(render, render.at, attempts')
      BY <1>t, <1>y, <2>1, AmongFirstGrows
    <3>4. Untried(render', attempts')
      <4>a. /\ Len(attempts') = Len(attempts) + 1 /\ Len(attempts) \in Nat
            /\ attempts'[Len(attempts')] = [provider |-> p, channel |-> Head(render.plan),
                                            status |-> "rate_limit"]
            /\ \A i \in 1 .. Len(attempts) : attempts'[i] = attempts[i]
        <5>1. Head(render.plan) \in Channels \cup {None} /\ p \in Ids
          BY <1>y, <2>1
        <5>2. attempts \in Seq(Attempts) /\ Len(attempts) \in Nat
          BY <1>t
        <5>3. "rate_limit" \in Statuses /\ Attempted(p, Head(render.plan), "rate_limit")
          BY <2>1
        <5> QED BY <5>1, <5>2, <5>3, AttemptedTyped
      <4> SUFFICES ASSUME NEW i \in 1 .. Len(attempts'), attempts'[i].channel # None,
                          attempts'[i].provider = ChainOf(render.config)[render.at],
                          ~Again(render', attempts', i)
                   PROVE  \A k \in 1 .. Len(render.plan) : render.plan[k] # attempts'[i].channel
        BY <3>1 DEF Untried
      <4>1. i # Len(attempts')
        BY <2>3, <3>1, <4>a DEF Again
      <4>2. i \in 1 .. Len(attempts) /\ attempts'[i] = attempts[i]
        BY <4>a, <4>1
      <4>3. ~Again(render, attempts, i)
        BY <2>3 DEF Again
      <4>4. Untried(render, attempts)
        BY <1>y, <2>1 DEF RetryInv
      <4> QED BY <4>2, <4>3, <4>4 DEF Untried
    <3>5. AmongFirst(render', render'.at, attempts') /\ Bounded(render', attempts')
          /\ NoRepetition(render'.plan)
      BY <1>y, <2>1, <3>1, <3>2, <3>3 DEF RetryInv, AmongFirst, Bounded
    <3> QED BY <1>y, <2>1, <3>1, <3>4, <3>5 DEF RetryInv
  <2> QED BY <1>10, <2>2, <2>3 DEF RateLimited
<1>11. ASSUME Record \/ Restart PROVE RetryInv'
  <2>1. render'.pc = "idle" /\ attempts' = <<>>
    BY <1>11 DEF Record, Restart, Idle
  <2> QED BY <2>1 DEF RetryInv, Bounded
<1>12. ASSUME UNCHANGED <<render, attempts>> PROVE RetryInv'
  BY <1>12 DEF RetryInv, AmongFirst, Untried, Again, NoRepetition, Bounded
<1>13. ASSUME NEW p \in Providers, Probe(p) \/ Silent(p) PROVE RetryInv'
  BY <1>12, <1>13 DEF Probe, Silent, Answers
<1>14. ASSUME Refresh \/ Store \/ Pass \/ UNCHANGED vars PROVE RetryInv'
  BY <1>12, <1>14 DEF Refresh, Store, Pass, vars
<1> QED BY <1>1, <1>3, <1>4, <1>5, <1>6, <1>7, <1>8, <1>9, <1>10, <1>11, <1>13, <1>14
    DEF Next, RenderStep

\* ProviderChain!RetriesAreBounded: whatever fails, and whatever is refreshed meanwhile, a
\* render asks a channel a second time only after a rate limit, and never a third.
THEOREM RetriesEnd == Spec => []RetriesAreBounded
<1>1. RetryInv => RetriesAreBounded
  BY DEF RetryInv, Bounded, RetriesAreBounded
<1>2. TInv /\ RetryInv /\ [Next]_vars => TInv' /\ RetryInv'
  BY TypeStep, RetryStep
<1>3. Init => TInv /\ RetryInv
  BY TypeInit, RetryInit
<1> QED BY <1>1, <1>2, <1>3, PTL DEF Spec

-----------------------------------------------------------------------------
(* The order of the attempts *)

MentionedIn(list, n) == {list[i].provider : i \in 1 .. n}

\* Whoever is attempted, so are all before it in the chain, and nobody else was before.
InOrder(r, list) ==
    \A i \in 1 .. Len(list) :
        \E m \in 1 .. Len(ChainOf(r.config)) :
            /\ ChainOf(r.config)[m] = list[i].provider
            /\ MentionedIn(list, i) = Prefix(ChainOf(r.config), m)

\* A success is the last attempt, and the body that is used.
SuccessIsUsed(r, list) ==
    \A i \in 1 .. Len(list) :
        list[i].status = "succeeded" =>
            i = Len(list) /\ r.pc = "done" /\ r.body = list[i].provider

\* How far the chain has been gone, by where the render stands.
GoneTo(r, list) ==
    LET mentioned == MentionedIn(list, Len(list))
        chain == ChainOf(r.config)
    IN  /\ r.pc = "next" => r.at - 1 <= Len(chain) /\ mentioned = Prefix(chain, r.at - 1)
        /\ r.pc = "trying" => mentioned \in {Prefix(chain, r.at - 1), Prefix(chain, r.at)}
        /\ r.pc = "done" /\ r.body = None => mentioned = Prefix(chain, Len(chain))

FollowInv ==
    /\ InOrder(render, attempts) /\ SuccessIsUsed(render, attempts) /\ GoneTo(render, attempts)

\* An attempt at the provider whose turn it is, that all before it have had.
LEMMA OrderGrows ==
    ASSUME TInv, RetryInv, FollowInv, render.pc \in {"next", "trying"},
           render.at <= Len(ChainOf(render.config)),
           NEW id \in Ids, id = ChainOf(render.config)[render.at],
           NEW channel \in Channels \cup {None}, NEW status \in Statuses,
           Attempted(id, channel, status)
    PROVE  /\ InOrder(render, attempts')
           /\ MentionedIn(attempts', Len(attempts')) = Prefix(ChainOf(render.config), render.at)
           /\ Len(attempts') = Len(attempts) + 1 /\ Len(attempts) \in Nat
           /\ attempts'[Len(attempts')] = [provider |-> id, channel |-> channel, status |-> status]
           /\ \A i \in 1 .. Len(attempts) : attempts'[i] = attempts[i]
           /\ \A i \in 1 .. Len(attempts) : attempts'[i].status # "succeeded"
<1> DEFINE chain == ChainOf(render.config)
           N == Len(attempts)
<1>t. /\ attempts \in Seq(Attempts) /\ N \in Nat /\ render.at \in Nat \ {0}
      /\ render.config \in Configs /\ chain \in Seq(Ids)
  BY ChainsAreOrders DEF TInv, TypeOK, Renders, RetryInv, ChainIsOrder
<1>a. /\ Len(attempts') = N + 1
      /\ attempts'[N + 1] = [provider |-> id, channel |-> channel, status |-> status]
      /\ \A i \in 1 .. N : attempts'[i] = attempts[i]
  BY <1>t, AttemptedTyped
<1>1. ASSUME NEW n \in 0 .. N PROVE MentionedIn(attempts', n) = MentionedIn(attempts, n)
  <2>1. \A i \in 1 .. n : i \in 1 .. N
    BY <1>t
  <2> QED BY <1>a, <2>1 DEF MentionedIn
<1>2. MentionedIn(attempts', N + 1) = MentionedIn(attempts, N) \cup {id}
  <2>1. 1 .. N + 1 = (1 .. N) \cup {N + 1} /\ N \in 0 .. N
    BY <1>t
  <2>2. MentionedIn(attempts', N + 1) = MentionedIn(attempts', N) \cup {attempts'[N + 1].provider}
    BY <2>1 DEF MentionedIn
  <2> QED BY <1>1, <1>a, <2>1, <2>2
<1>3. /\ render.at - 1 \in Nat /\ (render.at - 1) + 1 = render.at
      /\ render.at \in 1 .. render.at /\ render.at \in 1 .. Len(chain)
  BY <1>t
<1>4. Prefix(chain, render.at) = Prefix(chain, render.at - 1) \cup {id}
  BY <1>3, PrefixGrows
<1>5. MentionedIn(attempts, N) \in {Prefix(chain, render.at - 1), Prefix(chain, render.at)}
  BY DEF FollowInv, GoneTo
<1>6. MentionedIn(attempts', N + 1) = Prefix(chain, render.at)
  BY <1>2, <1>4, <1>5
<1>7. InOrder(render, attempts')
  <2> SUFFICES ASSUME NEW i \in 1 .. Len(attempts')
               PROVE  \E m \in 1 .. Len(chain) :
                          /\ chain[m] = attempts'[i].provider
                          /\ MentionedIn(attempts', i) = Prefix(chain, m)
    BY DEF InOrder
  <2>1. CASE i = N + 1
    BY <1>3, <1>6, <1>a, <2>1
  <2>2. CASE i # N + 1
    <3>1. i \in 1 .. N /\ i \in 0 .. N
      BY <1>a, <1>t, <2>2
    <3>2. \E m \in 1 .. Len(chain) :
              /\ chain[m] = attempts[i].provider
              /\ MentionedIn(attempts, i) = Prefix(chain, m)
      BY <3>1 DEF FollowInv, InOrder
    <3> QED BY <1>1, <1>a, <3>1, <3>2
  <2> QED BY <2>1, <2>2
<1>8. \A i \in 1 .. N : attempts[i].status # "succeeded"
  BY DEF FollowInv, SuccessIsUsed
<1> QED BY <1>6, <1>7, <1>8, <1>a, <1>t

\* Such an attempt, when it is no success, ends the provider or leaves it its turn.
LEMMA FollowsOn ==
    ASSUME TInv, RetryInv, FollowInv, render.pc \in {"next", "trying"},
           render.at <= Len(ChainOf(render.config)),
           NEW id \in Ids, id = ChainOf(render.config)[render.at],
           NEW channel \in Channels \cup {None}, NEW status \in Statuses \ {"succeeded"},
           Attempted(id, channel, status),
           \/ render' = NextProvider
           \/ /\ render'.pc = "trying" /\ render'.config = render.config
              /\ render'.at = render.at
    PROVE  FollowInv'
<1>1. /\ InOrder(render, attempts')
      /\ MentionedIn(attempts', Len(attempts')) = Prefix(ChainOf(render.config), render.at)
      /\ Len(attempts') = Len(attempts) + 1 /\ Len(attempts) \in Nat
      /\ attempts'[Len(attempts')] = [provider |-> id, channel |-> channel, status |-> status]
      /\ \A i \in 1 .. Len(attempts) : attempts'[i].status # "succeeded"
  BY OrderGrows
<1>2. \A i \in 1 .. Len(attempts') : attempts'[i].status # "succeeded"
  BY <1>1
<1>3. render \in Renders /\ render.at \in Nat \ {0}
  BY DEF TInv, TypeOK, Renders
<1>4. CASE render' = NextProvider
  <2>1. render'.pc = "next" /\ render'.config = render.config /\ render'.at = render.at + 1
    BY <1>3, <1>4, IdleTyped DEF NextProvider, Renders
  <2>2. render'.at - 1 = render.at
    BY <1>3, <2>1
  <2> QED BY <1>1, <1>2, <2>1, <2>2 DEF FollowInv, InOrder, SuccessIsUsed, GoneTo
<1>5. CASE render'.pc = "trying" /\ render'.config = render.config /\ render'.at = render.at
  BY <1>1, <1>2, <1>5 DEF FollowInv, InOrder, SuccessIsUsed, GoneTo
<1> QED BY <1>4, <1>5

LEMMA FollowInit == Init => FollowInv
<1> SUFFICES ASSUME Init PROVE FollowInv
  OBVIOUS
<1>1. render.pc = "idle" /\ attempts = <<>>
  BY DEF Init, Idle
<1> QED BY <1>1 DEF FollowInv, InOrder, SuccessIsUsed, GoneTo

LEMMA FollowStep ==
    ASSUME TInv, RetryInv, FollowInv, [Next]_vars
    PROVE  FollowInv'
<1>t. render \in Renders /\ PlanInv /\ render.at \in Nat \ {0}
  BY DEF TInv, TypeOK, Renders
<1>n. ASSUME NEW id, Reached(id)
      PROVE  /\ render.pc = "next" /\ render.at <= Len(ChainOf(render.config))
             /\ id = ChainOf(render.config)[render.at]
  BY <1>n, ChainIs DEF Reached, Current, RetryInv
<1>y. ASSUME NEW p \in Providers, Trying(p)
      PROVE  /\ render.pc = "trying" /\ render.at <= Len(ChainOf(render.config))
             /\ p = ChainOf(render.config)[render.at] /\ p \in Ids
             /\ Head(render.plan) \in Channels \cup {None}
  <2>1. render.pc = "trying" /\ render.config \in Configs
    BY <1>y DEF Trying, RetryInv
  <2> QED BY <1>y, <1>t, <2>1, ChainIs, HeadTyped DEF Trying, Current, RetryInv, Ids
<1>g. ASSUME render' = NextChannel, render.pc = "trying"
      PROVE  \/ render' = NextProvider
             \/ /\ render'.pc = "trying" /\ render'.config = render.config
                /\ render'.at = render.at
  <2>1. CASE Len(render.plan) = 1
    BY <1>g, <2>1 DEF NextChannel
  <2>2. CASE Len(render.plan) # 1
    BY <1>g, <1>t, <2>2 DEF NextChannel, Renders
  <2> QED BY <2>1, <2>2
<1>1. ASSUME Begin PROVE FollowInv'
  <2>1. PICK c \in Configs : render' = [Idle EXCEPT !.pc = "next", !.config = c]
    BY <1>1 DEF Begin
  <2>2. render'.pc = "next" /\ render'.config = c /\ render'.at = 1
    BY <2>1, IdleTyped DEF Renders, Idle
  <2>3. attempts' = <<>>
    BY <1>1 DEF Begin, RetryInv
  <2>4. /\ MentionedIn(<<>>, 0) = {} /\ Prefix(ChainOf(c), 0) = {} /\ Len(<<>>) = 0
        /\ 1 - 1 = 0 /\ Len(ChainOf(c)) \in Nat
    BY ChainsAreOrders DEF MentionedIn, Prefix, ChainIsOrder
  <2>5. render'.at - 1 <= Len(ChainOf(c))
    BY <2>2, <2>4
  <2>6. GoneTo(render', attempts')
    BY <2>2, <2>3, <2>4, <2>5 DEF GoneTo
  <2> QED BY <2>3, <2>4, <2>6 DEF FollowInv, InOrder, SuccessIsUsed
<1>2. ASSUME NEW id \in Ids, SkipForGood(id) PROVE FollowInv'
  <2>1. "skipped" \in Statuses \ {"succeeded"} /\ None \in Channels \cup {None}
    BY DEF Statuses
  <2>2. Reached(id) /\ Attempted(id, None, "skipped") /\ render' = NextProvider
    BY <1>2 DEF SkipForGood
  <2> QED BY <1>n, <2>1, <2>2, FollowsOn
<1>3. ASSUME NEW p \in Providers, SkipOnHealth(p) PROVE FollowInv'
  <2>1. "skipped_on_health" \in Statuses \ {"succeeded"} /\ None \in Channels \cup {None}
        /\ p \in Ids
    BY DEF Statuses, Ids
  <2>2. Reached(p) /\ Attempted(p, None, "skipped_on_health") /\ render' = NextProvider
    BY <1>3 DEF SkipOnHealth
  <2> QED BY <1>n, <2>1, <2>2, FollowsOn
<1>4. ASSUME NEW p \in Providers, Try(p) PROVE FollowInv'
  <2>1. PICK plan \in Plans(p) : render' = [render EXCEPT !.pc = "trying", !.plan = plan]
    BY <1>4 DEF Try
  <2>2. /\ render'.pc = "trying" /\ render'.config = render.config /\ render'.at = render.at
        /\ attempts' = attempts /\ render.pc = "next"
    BY <1>4, <2>1, <1>t DEF Renders, Try, Reached
  <2> QED BY <2>2 DEF FollowInv, InOrder, SuccessIsUsed, GoneTo
<1>5. ASSUME GiveUp PROVE FollowInv'
  <2>1. /\ render'.pc = "done" /\ render'.config = render.config /\ attempts' = attempts
        /\ render.pc = "next" /\ render.at > Len(Chain)
    BY <1>5, <1>t DEF GiveUp, Renders
  <2>2. Chain = ChainOf(render.config) /\ Len(ChainOf(render.config)) \in Nat
    BY <2>1, ChainIs, ChainsAreOrders DEF RetryInv, ChainIsOrder
  <2>3. render.at - 1 = Len(ChainOf(render.config))
    BY <1>t, <2>1, <2>2 DEF FollowInv, GoneTo
  <2>4. GoneTo(render', attempts')
    BY <2>1, <2>3 DEF FollowInv, GoneTo
  <2>5. SuccessIsUsed(render', attempts')
    BY <2>1 DEF FollowInv, SuccessIsUsed
  <2> QED BY <2>1, <2>4, <2>5 DEF FollowInv, InOrder
<1>6. ASSUME NEW p \in Providers, Succeed(p) PROVE FollowInv'
  <2>1. Trying(p) /\ Attempted(p, Head(render.plan), "succeeded") /\ "succeeded" \in Statuses
    BY <1>6 DEF Succeed, Statuses
  <2>2. /\ InOrder(render, attempts')
        /\ Len(attempts') = Len(attempts) + 1 /\ Len(attempts) \in Nat
        /\ attempts'[Len(attempts')] = [provider |-> p, channel |-> Head(render.plan),
                                        status |-> "succeeded"]
        /\ \A i \in 1 .. Len(attempts) : attempts'[i].status # "succeeded"
    BY <1>y, <2>1, OrderGrows
  <2>3. render'.pc = "done" /\ render'.config = render.config /\ render'.body = p
    BY <1>6, <1>t, IdleTyped DEF Succeed, Renders
  <2>4. SuccessIsUsed(render', attempts')
    <3> SUFFICES ASSUME NEW i \in 1 .. Len(attempts'), attempts'[i].status = "succeeded"
                 PROVE  i = Len(attempts') /\ attempts'[i].provider = p
      BY <2>3 DEF SuccessIsUsed
    <3>1. i = Len(attempts')
      BY <2>2
    <3> QED BY <2>2, <3>1
  <2>5. p # None
    BY ProviderChainAssumption DEF Ids
  <2> QED BY <2>2, <2>3, <2>4, <2>5 DEF FollowInv, InOrder, GoneTo
<1>7. ASSUME NEW p \in Providers, Reject(p) PROVE FollowInv'
  <2>1. /\ Trying(p) /\ Attempted(p, Head(render.plan), "invalid") /\ render' = NextProvider
        /\ "invalid" \in Statuses \ {"succeeded"}
    BY <1>7 DEF Reject, Statuses
  <2> QED BY <1>y, <2>1, FollowsOn
<1>8. ASSUME NEW p \in Providers, Fail(p) PROVE FollowInv'
  <2>1. PICK status \in {"failed", "dead", "empty"} : Attempted(p, Head(render.plan), status)
    BY <1>8 DEF Fail
  <2>2. /\ status \in Statuses \ {"succeeded"} /\ Trying(p) /\ render' = NextChannel
    BY <1>8 DEF Fail, Statuses
  <2> QED BY <1>y, <1>g, <2>1, <2>2, FollowsOn
<1>9. ASSUME NEW p \in Providers, RateLimited(p) PROVE FollowInv'
  <2>1. /\ Trying(p) /\ Attempted(p, Head(render.plan), "rate_limit")
        /\ "rate_limit" \in Statuses \ {"succeeded"}
    BY <1>9 DEF RateLimited, Statuses
  <2>2. CASE render' = NextChannel
    BY <1>y, <1>g, <2>1, <2>2, FollowsOn
  <2>3. CASE render' = [render EXCEPT !.retried = TRUE]
    <3>1. render'.pc = "trying" /\ render'.config = render.config /\ render'.at = render.at
      BY <1>t, <1>y, <2>1, <2>3 DEF Renders
    <3> QED BY <1>y, <2>1, <3>1, FollowsOn
  <2> QED BY <1>9, <2>2, <2>3 DEF RateLimited
<1>10. ASSUME Record \/ Restart PROVE FollowInv'
  <2>1. render'.pc = "idle" /\ attempts' = <<>>
    BY <1>10 DEF Record, Restart, Idle
  <2> QED BY <2>1 DEF FollowInv, InOrder, SuccessIsUsed, GoneTo
<1>11. ASSUME UNCHANGED <<render, attempts>> PROVE FollowInv'
  BY <1>11 DEF FollowInv, InOrder, SuccessIsUsed, GoneTo
<1>12. ASSUME NEW p \in Providers, Probe(p) \/ Silent(p) PROVE FollowInv'
  BY <1>11, <1>12 DEF Probe, Silent, Answers
<1>13. ASSUME Refresh \/ Store \/ Pass \/ UNCHANGED vars PROVE FollowInv'
  BY <1>11, <1>13 DEF Refresh, Store, Pass, vars
<1> QED BY <1>1, <1>2, <1>3, <1>4, <1>5, <1>6, <1>7, <1>8, <1>9, <1>10, <1>12, <1>13
    DEF Next, RenderStep

\* ProviderChain!ChainIsFollowed: for any configuration, repetitions and blanks included, a
\* render goes through the listed providers in their order, passes over none without a trace,
\* and stops at the first success.
THEOREM ChainIsGoneThrough == Spec => []ChainIsFollowed
<1>1. TInv /\ RetryInv /\ FollowInv => ChainIsFollowed
  <2> SUFFICES ASSUME TInv, RetryInv, FollowInv PROVE ChainIsFollowed
    OBVIOUS
  <2>1. \A n : MentionedIn(attempts, n) = Mentioned(n)
    BY DEF MentionedIn, Mentioned
  <2>2. ASSUME NEW i \in 1 .. Len(attempts)
        PROVE  \E k \in Places(render.config) :
                  /\ Asked(render.config)[k] = attempts[i].provider
                  /\ Mentioned(i) = AskedUpTo(render.config, k)
    <3>1. render.config \in Configs
      BY <2>2 DEF RetryInv, TInv, TypeOK, Renders
    <3>2. PICK m \in 1 .. Len(ChainOf(render.config)) :
            /\ ChainOf(render.config)[m] = attempts[i].provider
            /\ MentionedIn(attempts, i) = Prefix(ChainOf(render.config), m)
      BY DEF FollowInv, InOrder
    <3>3. PICK k \in Places(render.config) :
            /\ Asked(render.config)[k] = ChainOf(render.config)[m]
            /\ AskedUpTo(render.config, k) = Prefix(ChainOf(render.config), m)
      BY <3>1, ChainsAreOrders DEF ChainIsOrder
    <3> QED BY <2>1, <3>2, <3>3
  <2>3. ASSUME render.pc = "done", render.body = None
        PROVE  Mentioned(Len(attempts)) = AskedUpTo(render.config, Len(Asked(render.config)))
    <3>1. render.config \in Configs
      BY <2>3 DEF RetryInv
    <3> QED BY <2>1, <2>3, <3>1, ChainsAreOrders DEF ChainIsOrder, FollowInv, GoneTo
  <2> QED BY <2>2, <2>3 DEF ChainIsFollowed, FollowInv, SuccessIsUsed
<1>2. TInv /\ RetryInv /\ FollowInv /\ [Next]_vars => TInv' /\ RetryInv' /\ FollowInv'
  BY TypeStep, RetryStep, FollowStep
<1>3. Init => TInv /\ RetryInv /\ FollowInv
  BY TypeInit, RetryInit, FollowInit
<1> QED BY <1>1, <1>2, <1>3, PTL DEF Spec

=============================================================================
