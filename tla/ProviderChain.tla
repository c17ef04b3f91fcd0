--------------------------- MODULE ProviderChain ---------------------------
(***************************************************************************)
(* How a compile gets a body out of the configured providers (render.rs)    *)
(* and what is remembered of their failures (commands/llm.rs): the chain,   *)
(* the attempts over each provider's channels, the inference drawn from     *)
(* them, the refresh that probes the providers and stores what it finds,    *)
(* and the skip that trusts what was stored.                                *)
(*                                                                         *)
(* What is remembered of a provider is the age of a reading that leads to a *)
(* skip (exhausted, rate limited, not authenticated), in steps of which     *)
(* MaxAge make the six hours that it counts, and None when there is no such *)
(* reading, when it says anything else, unknown included, or when it is too *)
(* old.                                                                    *)
(***************************************************************************)
EXTENDS Integers, SequencesExt

CONSTANTS Providers,
          Unknown,  \* ids of the configuration that no adapter has
          Probed,   \* providers that can be asked for their usage
          Mode,     \* each provider's channels
          Fails,    \* how a channel of each provider may fail
          Configs,  \* configurations a run may load
          MaxAge,   \* HEALTH_EVIDENCE_MAX_AGE_SECS
          None

Ids == Providers \cup Unknown

ASSUME ProviderChainAssumption ==
    /\ Probed \subseteq Providers
    /\ Mode \in [Providers -> {"cli_only", "api_only", "cli_first", "api_fallback"}]
    /\ Fails \in [Providers -> SUBSET {"error", "dead", "rate_limit", "empty", "invalid"}]
    /\ \A c \in Configs :
          /\ {c.order, c.stored} \subseteq Seq(Ids \cup {None})
          /\ c.preferred \in Ids \cup {None} /\ c.env \in Ids \cup {None}
          /\ c.disabled \subseteq Ids /\ c.fallback \in BOOLEAN /\ c.retry \in BOOLEAN
    /\ MaxAge \in Nat /\ None \notin Ids \cup 0 .. MaxAge

VARIABLES cache,    \* provider-health.json, loaded once
          inferred, \* INFERRED_HEALTH
          render,   \* where the chain stands, with the configuration it goes by
          attempts, \* of the render under way
          refresh,  \* the providers a refresh asks, those it waits for, and what it has found
          seen      \* history: how long ago each was last found dead, by an attempt or a probe

vars == <<cache, inferred, render, attempts, refresh, seen>>
evidence == <<cache, inferred, seen>>

Evidence == 0 .. MaxAge \cup {None}
Nothing == [p \in Providers |-> None]
Channels == {"cli", "api"}
Statuses == {"skipped", "skipped_on_health", "failed", "dead", "rate_limit", "empty", "invalid",
             "succeeded"}
Attempts == [provider : Ids, channel : Channels \cup {None}, status : Statuses]
Idle == [pc |-> "idle", config |-> None, at |-> 1, plan |-> <<>>, retried |-> FALSE, body |-> None]
NoRefresh == [targets |-> {}, pending |-> {}, found |-> Nothing]

Renders == [pc : {"idle", "next", "trying", "done"}, config : Configs \cup {None},
            at : Nat \ {0}, plan : Seq(Channels), retried : BOOLEAN, body : Providers \cup {None}]
Refreshes == [targets : SUBSET Providers, pending : SUBSET Providers, found : [Providers -> Evidence]]

TypeOK ==
    /\ cache \in [Providers -> Evidence] /\ inferred \in [Providers -> Evidence]
    /\ seen \in [Providers -> Evidence]
    /\ render \in Renders /\ attempts \in Seq(Attempts)
    /\ refresh \in Refreshes /\ refresh.pending \subseteq refresh.targets

Init ==
    /\ cache = Nothing /\ inferred = Nothing /\ seen = Nothing
    /\ render = Idle /\ attempts = <<>> /\ refresh = NoRefresh

(***************************************************************************)
(* provider_chain: an override alone; otherwise the order, or what older    *)
(* configurations have in its place, without blanks and repetitions, and    *)
(* without fallback the first of it only.                                   *)
(***************************************************************************)

Candidates(c) == IF c.order = <<>> THEN <<c.preferred>> \o c.stored ELSE c.order

KeepFirst(listed) ==
    LET upTo[n \in 0 .. Len(listed)] ==
            IF n = 0 THEN <<>>
            ELSE IF listed[n] = None \/ Contains(upTo[n - 1], listed[n]) THEN upTo[n - 1]
            ELSE Append(upTo[n - 1], listed[n])
    IN  upTo[Len(listed)]

ChainOf(c) ==
    LET ordered == KeepFirst(Candidates(c))
    IN  IF c.env # None THEN <<c.env>>
        ELSE IF c.fallback \/ ordered = <<>> THEN ordered
        ELSE <<Head(ordered)>>

\* As a table, so that a model checker looks it up.
Chains == {<<c, ChainOf(c)>> : c \in Configs}
Chain == (CHOOSE entry \in Chains : entry[1] = render.config)[2]

\* attempt_plan: with api_fallback the API only stands in for a CLI that is not there.
Plans(p) ==
    CASE Mode[p] = "cli_only" -> {<<"cli">>}
      [] Mode[p] = "api_only" -> {<<"api">>}
      [] Mode[p] = "cli_first" -> {<<"cli", "api">>}
      [] Mode[p] = "api_fallback" -> {<<"cli">>, <<"api">>}

Current == Chain[render.at]
Reached(id) == render.pc = "next" /\ render.at <= Len(Chain) /\ id = Current
NextProvider == [Idle EXCEPT !.pc = "next", !.config = render.config, !.at = render.at + 1]

Attempted(id, channel, status) ==
    attempts' = Append(attempts, [provider |-> id, channel |-> channel, status |-> status])

(***************************************************************************)
(* render_llm_outcome_inner                                                *)
(***************************************************************************)

Begin ==
    /\ render.pc = "idle"
    /\ \E c \in Configs : render' = [Idle EXCEPT !.pc = "next", !.config = c]
    /\ UNCHANGED <<attempts, evidence, refresh>>

\* Disabled, or of no known adapter; the health is asked in between.
Usable(id) == id \notin render.config.disabled \cup Unknown

SkipForGood(id) ==
    /\ Reached(id) /\ ~Usable(id)
    /\ Attempted(id, None, "skipped")
    /\ render' = NextProvider
    /\ UNCHANGED <<evidence, refresh>>

\* health_skip_reason: never without fallback, never on what is unknown or too old.
HealthSkipReason(p) == render.config.fallback /\ cache[p] # None

SkipOnHealth(p) ==
    /\ Reached(p) /\ Usable(p) /\ HealthSkipReason(p)
    /\ Attempted(p, None, "skipped_on_health")
    /\ render' = NextProvider
    /\ UNCHANGED <<evidence, refresh>>

Try(p) ==
    /\ Reached(p) /\ Usable(p) /\ ~HealthSkipReason(p)
    /\ \E plan \in Plans(p) : render' = [render EXCEPT !.pc = "trying", !.plan = plan]
    /\ UNCHANGED <<attempts, evidence, refresh>>

GiveUp ==
    /\ render.pc = "next" /\ render.at > Len(Chain)
    /\ render' = [render EXCEPT !.pc = "done"]
    /\ UNCHANGED <<attempts, evidence, refresh>>

(***************************************************************************)
(* render_via_backend                                                      *)
(***************************************************************************)

Trying(p) == render.pc = "trying" /\ p = Current
NextChannel ==
    IF Len(render.plan) = 1 THEN NextProvider
    ELSE [render EXCEPT !.plan = Tail(@), !.retried = FALSE]
Seen(p) == seen' = [seen EXCEPT ![p] = 0]

\* An answer that is a standup.
Succeed(p) ==
    /\ Trying(p)
    /\ Attempted(p, Head(render.plan), "succeeded")
    /\ render' = [Idle EXCEPT !.pc = "done", !.config = render.config, !.at = render.at, !.body = p]
    /\ UNCHANGED <<evidence, refresh>>

\* Mutant: the rejected attempt stays a success.
RejectUnnoticed(p) ==
    /\ Trying(p) /\ "invalid" \in Fails[p]
    /\ Attempted(p, Head(render.plan), "succeeded")
    /\ render' = NextProvider
    /\ UNCHANGED <<evidence, refresh>>

\* An answer that validate_render rejects ends the provider, its other channel included;
\* the attempt just recorded becomes a failure.
Reject(p) ==
    /\ Trying(p) /\ "invalid" \in Fails[p]
    /\ Attempted(p, Head(render.plan), "invalid")
    /\ render' = NextProvider
    /\ UNCHANGED <<evidence, refresh>>

Fail(p) ==
    /\ Trying(p)
    /\ \E status \in Fails[p] \cap {"error", "dead", "empty"} :
          /\ Attempted(p, Head(render.plan), IF status = "error" THEN "failed" ELSE status)
          /\ IF status = "dead" THEN Seen(p) ELSE UNCHANGED seen
    /\ render' = NextChannel
    /\ UNCHANGED <<cache, inferred, refresh>>

\* Mutant: a retry does not count as one.
RateLimitedAgain(p) ==
    /\ Trying(p) /\ "rate_limit" \in Fails[p]
    /\ Attempted(p, Head(render.plan), "rate_limit")
    /\ render' \in {NextChannel} \cup (IF render.config.retry THEN {render} ELSE {})
    /\ Seen(p)
    /\ UNCHANGED <<cache, inferred, refresh>>

\* One retry of the channel, if the policy allows it and the wait is short.
RateLimited(p) ==
    /\ Trying(p) /\ "rate_limit" \in Fails[p]
    /\ Attempted(p, Head(render.plan), "rate_limit")
    /\ \/ render' = NextChannel
       \/ render.config.retry /\ ~render.retried /\ render' = [render EXCEPT !.retried = TRUE]
    /\ Seen(p)
    /\ UNCHANGED <<cache, inferred, refresh>>

(***************************************************************************)
(* record_provider_attempts, once the render has returned                  *)
(***************************************************************************)

\* Of each provider the last attempt counts that says something: a success forgets, and so
\* does a failure of another kind; a skip says nothing new.
Inferred(p) ==
    LET telling == {i \in 1 .. Len(attempts) :
                       /\ attempts[i].provider = p
                       /\ attempts[i].status \notin {"skipped", "skipped_on_health"}}
        last == {i \in telling : \A k \in telling : k <= i}
    IN  IF telling = {} THEN inferred[p]
        ELSE IF \E i \in last : attempts[i].status \in {"dead", "rate_limit"} THEN 0
        ELSE None

Record ==
    /\ render.pc = "done"
    /\ inferred' = [p \in Providers |-> Inferred(p)]
    /\ render' = Idle /\ attempts' = <<>>
    /\ UNCHANGED <<cache, seen, refresh>>

(***************************************************************************)
(* refresh_provider_health                                                 *)
(***************************************************************************)

\* All the configured providers, or one of them.
Refresh ==
    /\ refresh.targets = {}
    /\ \E ids \in {Providers} \cup {{p} : p \in Providers} :
          refresh' = [NoRefresh EXCEPT !.targets = ids, !.pending = ids]
    /\ UNCHANGED <<evidence, render, attempts>>

Answers(p, reading) ==
    /\ p \in refresh.pending
    /\ refresh' = [refresh EXCEPT !.pending = @ \ {p}, !.found[p] = reading]
    /\ UNCHANGED <<cache, inferred, render, attempts>>

\* A probe that says something, of a dead end or of the opposite.
Probe(p) ==
    /\ p \in Probed
    /\ \/ Answers(p, 0) /\ Seen(p)
       \/ Answers(p, None) /\ UNCHANGED seen

\* Mutant: what was inferred is dated to the refresh.
SilentNow(p) ==
    /\ Answers(p, IF inferred[p] = None THEN None ELSE 0)
    /\ UNCHANGED seen

\* provider_health of a provider that says nothing: what was inferred, as of then.
Silent(p) == Answers(p, inferred[p]) /\ UNCHANGED seen

\* When the last has answered, all are stored.
Store ==
    /\ refresh.targets # {} /\ refresh.pending = {}
    /\ cache' = [p \in Providers |-> IF p \in refresh.targets THEN refresh.found[p] ELSE cache[p]]
    /\ refresh' = NoRefresh
    /\ UNCHANGED <<inferred, seen, render, attempts>>

(***************************************************************************)
(* The environment                                                         *)
(***************************************************************************)

\* Mutant: the oldest reading stays.
AgedForEver(known) ==
    [p \in Providers |-> IF known[p] \in {None, MaxAge} THEN known[p] ELSE known[p] + 1]

\* Mutant: no reading is too old.
AgedUnlimited(known) == [p \in Providers |-> IF known[p] = None THEN None ELSE known[p] + 1]

Aged(known) ==
    [p \in Providers |-> IF known[p] = None \/ known[p] = MaxAge THEN None ELSE known[p] + 1]

\* Bound: a render is over before its evidence is a step older.
Pass ==
    /\ render.pc = "idle"
    /\ cache' = Aged(cache) /\ inferred' = Aged(inferred) /\ seen' = Aged(seen)
    /\ refresh' = [refresh EXCEPT !.found = Aged(@)]
    /\ UNCHANGED <<render, attempts>>

\* The application starts again, with what is on disk.
Restart ==
    /\ inferred' = Nothing
    /\ render' = Idle /\ attempts' = <<>> /\ refresh' = NoRefresh
    /\ UNCHANGED <<cache, seen>>

RenderStep ==
    \/ \E id \in Ids : SkipForGood(id)
    \/ \E p \in Providers : SkipOnHealth(p) \/ Try(p)
    \/ \E p \in Providers : Succeed(p) \/ Reject(p) \/ Fail(p) \/ RateLimited(p)
    \/ GiveUp \/ Record

Next ==
    \/ Begin \/ RenderStep
    \/ Refresh \/ Store
    \/ \E p \in Providers : Probe(p) \/ Silent(p)
    \/ Pass \/ Restart

Spec == Init /\ [][Next]_vars

\* Renders are begun again and again, and each goes on; time passes; the application is not
\* always restarted before a render is over.
Fairness == WF_vars(Begin) /\ WF_vars(RenderStep) /\ SF_vars(\E p \in Providers : Try(p)) /\ SF_vars(Pass)

FairSpec == Spec /\ Fairness

(***************************************************************************)
(* Properties                                                              *)
(***************************************************************************)

Mentioned(upTo) == {attempts[i].provider : i \in 1 .. upTo}

\* The reference: the places of the list, repetitions and blanks included, that a render may
\* come to; without fallback no place after one that is filled.
Asked(c) == IF c.env # None THEN <<c.env>> ELSE Candidates(c)
Places(c) ==
    {k \in 1 .. Len(Asked(c)) :
        /\ Asked(c)[k] # None
        /\ c.fallback \/ \A j \in 1 .. k - 1 : Asked(c)[j] = None}
AskedUpTo(c, k) == {Asked(c)[j] : j \in {j \in Places(c) : j <= k}}

\* render.rs:403, "this never reorders anything and never promotes a provider": whoever is
\* attempted, every provider listed before it has its attempts or its skip in the sidecar,
\* and a success in the sidecar is the body that is used.
ChainIsFollowed ==
    /\ \A i \in 1 .. Len(attempts) :
          \E k \in Places(render.config) :
              /\ Asked(render.config)[k] = attempts[i].provider
              /\ Mentioned(i) = AskedUpTo(render.config, k)
    /\ \A i \in 1 .. Len(attempts) :
          attempts[i].status = "succeeded" =>
              i = Len(attempts) /\ render.pc = "done" /\ render.body = attempts[i].provider
    /\ render.pc = "done" /\ render.body = None =>
          Mentioned(Len(attempts)) = AskedUpTo(render.config, Len(Asked(render.config)))

\* A channel is asked twice at most, the second time only after a rate limit.
RetriesAreBounded ==
    \A i, j \in 1 .. Len(attempts) :
        i < j /\ attempts[i].channel # None
              /\ <<attempts[i].provider, attempts[i].channel>> = <<attempts[j].provider, attempts[j].channel>>
        => j = i + 1 /\ attempts[i].status = "rate_limit" /\ render.config.retry

\* render.rs:404, "It only converts a *known* dead end into a skip": a skip rests on an
\* attempt or a probe that found the provider dead within the last six hours, however often
\* it was inferred, refreshed, stored and read again in between.
SkipsAreFounded ==
    [][\A p \in Providers :
          Len(attempts') > Len(attempts)
          /\ Last(attempts') = [provider |-> p, channel |-> None, status |-> "skipped_on_health"]
          => seen[p] # None]_vars

\* A provider that cannot be asked for its usage is not passed over for ever on the strength
\* of an old failure, whatever is refreshed meanwhile.
Heads ==
    {p \in Providers \ Probed : \A c \in Configs :
        ChainOf(c) # <<>> /\ Head(ChainOf(c)) = p /\ p \notin c.disabled}
SilentIsTriedAgain ==
    \A p \in Heads : []<>(render.pc = "trying" /\ Current = p)

=============================================================================
