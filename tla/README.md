# The budget controller in TLA+

Agent Budget Controller is a gateway in front of LLM providers. Before it lets
a call through, it holds the call's worst-case cost on every budget the call
falls under (its team's, its agent's, its session's, the allocation of the
model), and after the call it settles the hold against what the provider says
it charged. This directory models that gateway and what surrounds it, checks
the models on small instances with TLC, and proves with TLAPS, for every value
of the constants, the safety properties of the budget engine, the two stores,
routing, provider registry, effects, runaway detector, authentication, pricing
and budget windows.

`GW/` below stands for `apps/gateway/src/abc_gateway/`.

## The system

| part | state it keeps | operations | hard because |
|---|---|---|---|
| budget engine `GW/engine/budget_engine.py` | none of its own: budget-window items, reservations, idempotency records and ledger entries in the store | reserve (with bounded retry), mark_dispatched, reconcile, release, mark_pending | every await is a point where other gateways, operators and crashes come in between; the store's conditions cannot add |
| stores `GW/repo/dynamo`, `GW/repo/memory` | one table of items; transactions over several items | `apply(plan)`: all conditions and updates of a plan, or none; single reads and writes | DynamoDB cancels on conflict, and the two stores must agree |
| gateway service `GW/api/service.py` | the local state of one `invoke` | read policies, route and reserve, mark, call the provider, settle, effects | reads policies long before it uses them; may die anywhere |
| scope resolver, windows `GW/engine/scope_resolver.py`, `GW/domain/window.py` | none | which items a call falls under at an instant | time zones, month ends, a window that rolls while a call is in flight |
| routing `GW/engine/routing.py` | none | tries a chain of models, reserving for each | several reservations' worth of attempts with one idempotency key |
| settlement effects `GW/engine/effects.py` | warning flags, alerts, session status | threshold flip, session closure when spent out or when the next call would not fit | second transaction, decided on what was read after the first |
| stream processor `apps/stream_processor/handler.py` | none | feeds ledger entries to the detector, backstops warnings | at-least-once, out-of-order delivery |
| runaway detector, review `GW/runaway` | rolling buckets, claimed entries, agent status | claim, add, sum, pause; review, resume | crash between its steps, redelivery, races with operators |
| pricing `GW/pricing` | a loaded catalogue | worst-case estimate, actual cost | integer rounding must never put an estimate below its bill |
| providers `GW/providers` | adapters, cached credentials | invoke, classify the outcome | what is billed is not always known |
| authentication `GW/auth`, `GW/api/auth_routes.py` | throttle table, failure counters, sessions | login, logout, check | eviction, check and count in two steps |
| control plane `GW/api/routes.py` | policies, agent and session records | create, amend, pause, resume, close | unconditional writes over states that others move |
| dashboard, infrastructure, scripts, settings, observability | no budget state | - | - |

Calls interact only through the store: the items of the scopes they share, the
idempotency record of a repeated key, and the status of agents and sessions. A
reservation is written by the call that made it and by nobody else.

What makes each part correct:

- *engine and stores*: remaining, committed and reserved always add up; settled
  and held money stay within the limit but for what a provider overshot; a hold
  is reversed once, by what was held, on the items it was held on; the ledger
  agrees with the counters; spent money is never free again; one provider call
  per idempotency key; a settlement is never refused; a call always ends.
- *effects, stream*: a warning is sent once and is not lost by a crash; a session
  is closed when spent out, and not over a decision that has become stale.
- *runaway*: each entry counts once, a tripped agent is paused, and resumed only
  by a review.
- *routing*: only an allocation is routed around, a key is granted once whatever
  the candidate, and a hold is at the cost of its own model.
- *pricing, windows*: an estimate on a full count covers its bill; windows of a kind partition time.
- *authentication*: the number of guesses against an account is bounded; a revoked
  session stays revoked.

## Modules

| module | models |
|---|---|
| `BudgetEngine` | the engine, the store's transactions, the `invoke` around them, operators and the clock; properties, the two inductive invariants, and the mapping by which it implements `HardCap` |
| `HardCap` | abstract specification: holds and settlements on several accounts, with the condition `spent + held + amount <= limit` that `domain/state.py` says the store cannot express |
| `SettlementEffects` | threshold warning and session closure after settlements and denials, the stream's backstop, the session routes |
| `Runaway` | the stream's delivery of ledger entries, the detector, review by operators |
| `Routing` | the chain of candidates, each judged, recounted and reserved, with providers that come and go |
| `Login`, `Credentials` | logins, throttle, lockout, sessions and updates of one account; API keys and account creation across gateways |
| `Providers` | the registry of providers in each gateway and the routes that change it |
| `Pricing` | the arithmetic of estimates and bills |
| `BudgetWindows`, `Calendar` | the windows of budgets in billing zones; the dates, weeks and clock changes they are counted in |
| `Repositories` | the DynamoDB and the in-memory repository side by side |
| `Sums` | lemmas about sums over finite sets |
| `BudgetEngineProofs`, `RoutingProofs`, `SettlementEffectsProofs`, `RunawayProofs` | the proofs about the module they are named for |
| `BackendsProofs`, `AuthenticationProofs`, `CalculationsProofs` | the proofs about `Repositories` and `Providers`, about `Login` and `Credentials`, about `Pricing` and `BudgetWindows` |
| `MC...` | the instances TLC checks. `MCAuthentication` composes `Login` and `Credentials`, `MCCalculations` composes `Pricing` and `BudgetWindows`: the two parts share no variable, and a behaviour moves one of them |

The modules meet where the code does. `SettlementEffects` and `Routing` use
reservation and settlement as the atomic steps on one balance that
`BudgetEngine` (with `HardCap` above it) establishes them to be. `Runaway` reads
the ledger entries `BudgetEngine.UsageEntries` writes. `Routing` looks providers
up in the map that `Providers` maintains, and prices with `Pricing`'s worst
case. `BudgetWindows` gives the items that `BudgetEngine` takes as `KeysAt`.
`Repositories` compares the transactions of `BudgetEngine`'s two backends.

### How `BudgetEngine` corresponds to the code

State:

| variable | code |
|---|---|
| `policy` | budget policies, by scope (`put_budget_policy`) |
| `seeded`, `budget` | budget-window items: present or not, and `remaining`, `committed`, `reserved` (money and token dimensions), `pending_nano`, `overage_nano`, `open_reservations`, `limit` |
| `resv` | `RequestReservation` records: state, dispatch state, the items and amounts held, and whether the record is in the index of unsettled ones (GSI2) |
| `idem` | idempotency records: the call that claimed the key |
| `ledger` | usage ledger entries |
| `agentStatus`, `sessionStatus` | the records the status slots of an authorization check |
| `call` | the local variables of one run of `invoke`: where it is, the instant and policies it read, its attempt, what the provider answered |
| `billed` | what the provider really charged, which the code sees only through the answer |
| `clock` | `Clock.now()`, as far as windows and session expiry depend on it |

One `TransactWriteItems` is one step, and so is any other single write. `Arrive`
is `invoke` up to `reserve`; the three outcomes of the authorization transaction
are `ReserveGranted`, `ReserveDenied` and `ReserveConflict`; `ResolveIdempotency`,
`MarkDispatched`, `ProviderAnswers`, `Reconcile`, `Release`, `MarkPending` and
`SettleConflict` follow. `Crash` is the death of the process at any of these
points, and stands also for a write that took effect and whose reply was lost
(the call goes no further either way). `Tick`, `SetPolicy`, `SetAgentStatus` and
`SetSessionStatus` are what goes on around the calls.

Abstractions, and why they lose nothing the properties could see:

- A reservation is named by the call that made it. `reserve` draws a fresh
  identifier and only a granted one leaves a record.
- `Arrive` reads all policies at once. The code reads them one by one; each is
  used only for its own scope, and no step writes two of them.
- `ResolveIdempotency` reads record and reservation at once. The record never
  changes and a terminal reservation stays as it is, so reading it later
  differs from an earlier read by nothing but the time of the step.
- The idempotency record's expiry (30 days) is left out, so that
  `OneProviderCallPerKey` speaks of repeats within it.
- A settlement loads the reservation and applies its transaction in one step,
  since the call is the only writer of its reservation.
- Retries are bounded by attempts alone: with the default policy the longest
  possible delays (20+40+80+160 ms) are below `total_budget_ms`.
- A refused settlement has no action, because `SettlementAlwaysApplies` shows
  there is none.
- An unlimited scope is one with a large limit, as in the code
  (`TokenVector.unlimited`); a call whose policy is missing is refused before
  it reads or writes anything and is left out.
- Token counts are in `Usages` and `Costs` as further dimensions. A succeeded
  call and one billed without content settle alike in `_settle` and are one
  outcome.
- How a denial is decoded, and the several attempts of one call along a chain of
  models, are in `Routing`.

### How the other modules correspond to the code

In all of them one transaction or one write of the store is a step, a read that
an `await` separates from its use is a step of its own, and the local variables
of a handler are a record with a program counter.

- `SettlementEffects`: `ReadState`, `MaybeWarn`, `MaybeClose` are the loop of
  `SettlementEffects.apply` over the items of a settlement, `CloseOnDenial` the
  one of a denial; `FlipThreshold` and `CloseByBudget` are the two follow-up
  transactions with their flag or status condition and their alert key.
  `Consume` is the stream handler on one image of an item; an image that is not
  acknowledged comes again. `mode` is the deployment: which store, whether
  follow-up transactions may lose a conflict, whether the stream runs.
- `Runaway`: `Claim`, `Add`, `Sum`, `Trip`, `RecordEvent`, `AlertRunaway` are
  `RunawayDetector.observe`, write by write; `Review`, `Decide`, `Audit`,
  `AlertReview` are `ReviewService`; `PostAgent` and `SetLimit` the routes that
  overwrite the agent's state and budget. Time counts minutes. A handler is
  killed by its time limit (60 s, `compute.tf`), so it may end in the minute
  after the one it started in (`life`); a mark lives for 7200 s (`MarkLife`).
  The limit of the agent's budget is taken as monthly, as the code takes it;
  buckets are never deleted, which only makes more sums possible.
- `Routing`: `Consider` is the eligibility of a candidate, `CostNow` and
  `Recount` its price, `GrantCandidate`, `DeniedByStatus`, `DeniedByBudget`,
  `Repeated`, `Contended` the outcomes of the reservation, `MayTryNext` what a
  denial allows. Retries and crashes of the transaction are in `BudgetEngine`.
- `Login`: an attempt passes throttle, lockout, verification, then the counter
  (read, and written by compare-and-swap) or rehash and mint; a request reads
  session and user and touches the session; an update puts the user and revokes
  by a scan. The throttle is charged in one step: there is no `await` in it. Its
  table (`throttle`) maps addresses to their counts and window starts, and makes
  room by dropping the bucket charged longest ago; `evicted` remembers which
  addresses ever lost theirs.
- `Credentials`: minting fills the cache, the store and the marker in three
  steps; accounts are created by administrators and by starting gateways.
- `Providers`: `UpdateProvider` is one synchronous run, with what it has already
  changed when it refuses; the audit record is a later step.
- `Pricing`: amounts are in nano-USD, rates per `PerRate` tokens with a fraction
  finer than the gateway can hold (`Fine`), so that the loader's refusal and
  both roundings are visible. The four adapters' extraction of usage is applied
  to the counts a provider of that kind reports. `count` is what the adapter
  takes the prompt for before the call: the provider's own count of what it is
  shown, which for Bedrock leaves out the tools and has no margin, or a count of
  the gateway's own (OpenAI's tokenizer, the share of the characters every
  adapter falls back on), which is any number. `prompt` is what is metered.
- `BudgetWindows`: the resolution is `window.py`; `Calendar` has the calendar and
  the zone rules of Python's `datetime` and `zoneinfo`, which are external. Time is
  in hours. A zone has one summer.
- `Repositories`: each call is made on both stores at once and the answers kept.
  `Read` is what a scan may have read: any `Page` items, limited further by the
  `Limit` the list passes; the in-memory store shows any of its items up to the
  limit, as there is no order in the model to tell the newest. Known differences that no property needs are left
  out: `query_ledger` ignores `until_epoch` and lists descending while the
  in-memory store ascends; `list_sessions` has no tenant filter;
  `mark_dispatched` writes without condition; the in-memory reservation never
  shows `DISPATCHED`.

## Runs

| run | asks | instance |
|---|---|---|
| `race` | do the accounts stay exact when calls race, overshoot, end ambiguously, lose settlements, crash? | three calls of cost 2 on a team limit of 5 and agent limits of 4: any two calls fit and three do not; bills of 1 and 3 are below and above the hold |
| `windows` | do stale policies, window rollover, session expiry, pauses and closures break the cap? does the engine implement `HardCap`? | two calls, costs (3,1) and (1,2) in two dimensions, which fit together in the initial limit (4,3); operators amend limits to (2,2), where (3,1) does not fit at all; clock 0..1 with the agent's day and the session turning at 1 |
| `idempotency` | does a key reach a provider once, and does every call end? | three calls with one key, one with other content, two attempts each; a bill below the hold and one beyond the limit |
| `effects` | is a warning sent once and not lost, a closure reported, the first closer respected? | two calls on a team limit of 10 and a session limit of 5, holds 3 or 6, bills 2 or 4, warning at 60 percent where the stream's is at 80; three deployments |
| `runaway` | does each entry count once in a window, are duplicates harmless, audits true, runaways paused? | three entries of three kinds, two handlers, an interval of two minutes; four environments: nothing fails, handlers die and straddle minutes, the stream lags, operators act |
| `authentication` | are failures counted, addresses throttled, revocations complete; do keys that were handed out resolve? | two attempts from two addresses, one request, one update, limits of one per window; two gateways, keys, accounts and addresses |
| `routing` | is only an allocation routed around, a key granted once, a hold at its own model's cost; does every call end? | three calls on a chain of four candidates: dear, unpriced, of another provider without tools, cheap with a longer count; a team limit that two fit in, an allocation one call would fill and one it exceeds |
| `registry` | do the adapters follow configuration and keys? | a provider with a key, one with a role, the test provider; three control-plane calls and restarts |
| `calculations` | does the hold on a prompt not undercounted cover the bill, does the bill match the invoice; is there one item for every instant? | four catalogue entries and three the loader refuses, prompts to 4, their counts by the provider (with every share of tools) or any other, ceilings and thoughts to 2; every hour of five stretches (changes of the clock, ends of month and year, a leap day) in five zones, four kinds of window |
| `backends` | do the two stores keep the same books and answer alike? | two reservations on two scopes, warnings, pauses, sessions, lists |
| `stranded_hold` | is every hold resolved, as the documents say? (no) | two calls sharing all items |
| `counted_twice` | does whoever the detector pauses exceed the threshold? (no) | the usage and the overage entry of one call, one handler |

`EffectsMore`, `RunawayMore`, `AuthenticationMore`, `RoutingMore`,
`RegistryMore` and `CalculationsMore.cfg` check the inductive invariants of the
proofs (`Followed`, `Watched`, `Guarded` and `KeysKept`, `Routed`, `InOrder`,
`Priced` and `WindowsResolved`) and a few further properties on the same instances
(`WholeCountCovers` among them); the engine's two,
`Reckoned` with `Inductive` in it, are in the run `windows`. `AuthenticationMore`
has room for one bucket in the throttle, so that buckets are dropped.
`BackendsMore` checks `Agreed`, the inductive invariant of the two stores, that the
in-memory store's pending money is held, and that the table of the instance fits
into a page (`TableFits`), on which the theorems about the stores depend.

Bounds. A violation of a safety property takes at most two parties that
interfere and one that suffers: two calls, handlers, operators, attempts or
gateways on one shared item suffice for interference, and the third where there
is one makes the order of the first two matter. For the properties listed under
Proofs the proofs remove the bound. Two dimensions show whether money
and tokens can be confused; two clock values give one rollover; two policies per
scope give one stale read. In `race` and `idempotency` policies are fixed
(`Limits = {}`), because `windows` moves them; `race` has one attempt because
attempts change nothing but the moment of the transaction. Holds and limits are
the smallest with which a request fits alone and not beside another, a bill
overshoots its hold, and both thresholds are crossed apart. In `Runaway` the
clock outlives the window and a mark; in `Login` a window, a lock and a session
end within the bound. `MaxPosts`, `MaxTries`, `time`, `acts` and
`amends` bound what would otherwise repeat. Prompt, ceiling and thoughts up to
the bounds reach both sides of every rounding and of the tier's threshold.
Modes and catalogues are chosen in the initial state, so that one run covers
several deployments and a liveness property can be conditional on one.

Deadlock is not checked where the calls, entries or requests of the instance run
out: once all are answered nothing is left to do.

Fairness, and why the code justifies it:

- `BudgetEngine.FairSpec`: weak fairness of `Progress(c)`: a gateway process that
  has not crashed goes on with its handler, and a provider call ends by its
  timeout, which every adapter is given.
- `Routing.Spec`: weak fairness of every call's steps, for the same reason.
- `SettlementEffects.FairSpec`: a running gateway goes on with its effects, and
  an image in the stream is handled and acknowledged in the end (the event
  source mapping retries a batch, `compute.tf`).
- `Runaway.FairSpec`: a running handler goes on, and an entry nobody was through
  with is delivered again in the end. The mapping gives up after three retries,
  so this holds for a stream that recovers in time; `RunawayIsPaused` is stated
  for the environment in which nothing fails (`Calm`), and its general form is
  among the disagreements below.

Crashes, conflicts, clients, operators and the clock are under no obligation.

### Disagreements between the code and what is said of it

The `...Claims.cfg` configurations, `MemoryPending`, `OversizedParent` and
`LateDelivery.cfg` list what a document, comment or test says and the code does
not do; TLC finds each of their properties violated (it stops at the first:
leave one in to see its counterexample).

| property | configuration, module | what happens |
|---|---|---|
| `HoldsEventuallyResolve` | run `stranded_hold` | documents and comments rely on a sweeper of stale reservations; there is none, and settlements are not retried. `SpendIsCovered` shows that this errs on the safe side |
| `PausedAgentsOverspent` | run `counted_twice` | an overage entry repeats part of the usage entry of the same call, and the detector counts both |
| `RetryIsNotADenial` | `EngineClaims`, `MCBudgetEngine` | a repeated key whose original has used up the budget is told it was denied: the collision is looked up only if the claim is the single failed condition |
| `IndexHoldsOpenWork` | `EngineClaims` | the index of unsettled reservations keeps settled ones |
| `IdentityCountsOverage` | `EngineClaims` | the header of `domain/state.py` states the identity with overage as a term; the code keeps it without |
| `PendingTracksUnresolved` | `MemoryPending` | in memory any settlement takes the item's pending down |
| `EveryCrossingIsWarned` | `EffectsClaims`, `MCSettlementEffects` | a flip cancelled by a conflict looks like one that lost to the other writer, and the stream acknowledges the image |
| `SpentSessionCloses` | `EffectsClaims` | the stream backstops the warning, not the closure |
| `WarningIsSpent` | `EffectsClaims` | the backstop looks at `remaining`, which held money lowers |
| `ExhaustedMeansSpent` | `EffectsClaims` | the closure is conditional on the status alone; the balance is the one read before |
| `DenialCloses` | `EffectsClaims` | a session posted again after a closure cannot be closed again: the alert's key is taken |
| `RunawayIsAlwaysPaused` | `RunawayClaims`, `LateDelivery`, `MCRunaway` | a handler that dies between mark and bucket loses the entry; an entry delivered late lands in a bucket that is no longer summed |
| `DuplicatesPauseNobody` | `RunawayClaims` | with an interval longer than the life of a mark an entry counts twice in one window; nothing bounds the interval |
| `OnlyReviewResumes` | `RunawayClaims` | posting a paused agent makes it active |
| `EveryPauseIsAudited` | `RunawayClaims` | the detector's pause leaves no audit record |
| `EveryTripIsRecorded` | `RunawayClaims` | a handler that dies after the pause never records the trip |
| `EveryUpdateSticks` | `AuthenticationClaims`, `MCAuthentication` | a login that rehashes puts back the whole record it read, over an update made meanwhile |
| `OldPasswordHoldsNoSession` | `AuthenticationClaims` | a login that verified the earlier password mints its session after the revocation has scanned |
| `StoredKeysMakeReady` | `AuthenticationClaims` | a key without its marker counts as no credential after a restart |
| `ParentsStopTheChain` | `OversizedParent`, `MCRouting` | a candidate larger than a parent's whole limit is passed over like one too large for its allocation |
| `SubstitutesAreCheaper`, `SubstitutesFit` | `RoutingClaims` | a substitute is judged at the preferred model's token count and held at its own |
| `MarkedCallsAreSent` | `RoutingClaims` | the adapter is looked up after the dispatch mark, in a map a disable changes |
| `ConfiguredHasKey` | `RegistryClaims`, `MCProviders` | clearing the key of an enabled provider is refused after the key was dropped |
| `DisabledEverywhere` | `RegistryClaims` | a disable reaches one gateway, of two that are deployed |
| `AuditStatesTheTransition` | `RegistryClaims` | the enable route records a transition from disabled whatever the state was |
| `EstimateCoversBill` | `CalculationsClaims`, `MCCalculations` | with rates of a fraction of a nano-USD to the token, splitting a prompt into cached and uncached rounds up twice. Rates of whole nano-USD, as in the bundled catalogue, are covered |
| `ProvidersDoNotUndercount` | `CalculationsClaims` | `count_input_tokens` of Bedrock, whose docstring calls an undercount an under-reservation, counts messages and system prompt; the tools `invoke` sends are metered beside them |
| `EstimateIsTheMost` | `CalculationsClaims` | thoughts are not bounded by the ceiling the padded estimate is made of |
| `ConsoleShowsCharged` | `CalculationsClaims` | the console resolves windows in UTC whatever the policy's billing zone |
| `PendingIsHeld` | `RepositoriesClaims`, `MCRepositories` | DynamoDB's pending counter is never lowered |
| `EvidenceSettles` | `RepositoriesClaims` | a reconcile of a pending reservation passes the transition table and fails its own plan |
| `RevokesEvery`, `ListsAreWhole` | `RepositoriesClaims` | scans read one page, and the list's limit bounds what is read before the filter |
| `LedgerReadable`, `AuditReadable` | `RepositoriesClaims` | both queries have a form DynamoDB refuses |

Also noticed while modelling, without a property: nothing sets the outbox's
`published` flag; `Session.should_close_on_remaining`,
`LoginThrottle.retry_after_seconds`, the state `WARNING_100_SENT` and three of
the release reasons are never used; no route releases or reconciles a pending
reservation, which the engine's API offers and a comment in
`tests/property/test_invariants.py` says it refuses; a comment of the pricing
documents gives $0.15 per million as 0.15 nano-USD per token, where it is 150;
the rate for cached input gets no long-context multiplier.

## Proofs

A theorem holds for any value of the constants that meets the named assumptions
of the module it is about: any sets of calls, items, agents, addresses or
providers, any amounts, limits, intervals, catalogues, and any bound on what a
run of TLC has to bound. The assumptions say little more than the types. Where
a theorem needs more, it says so in its `ASSUME`, and the table below does too.

| module | theorems | state |
|---|---|---|
| `BudgetEngineProofs` | `InductiveHolds`, `TypeCorrect`, `AccountsBalance`, `CapHolds`, `OneCallPerKey`, `PreDispatchIsSafe` | accounting identity, cap, one provider call per key, no bill before dispatch |
| | `GrantsFit`, `LimitsStand`, `EngineImplementsHardCap` | the action properties; the engine implements `HardCap` |
| | `BooksAreKept`, `HoldsMatch`, `LedgerAgrees`, `SpendCovered`, `SettlementsApply` | counters are the sums of reservations and of ledger entries; charged money is never free again; no settlement is refused |
| | `PendingTracks` | the same for pending money, if `Backend = "dynamo"` |
| `RoutingProofs` | `RoutedHolds`, `TypeCorrect`, `BudgetsAccount`, `EscapesOnlyAllocations`, `OneGrant`, `HoldCovers` | only allocations are routed around, a key is granted once, a hold is at its model's cost |
| `BackendsProofs` | `StoresAgree`, `BooksAgree`, `VerdictsAgree` | the two stores keep the same books and answer alike, as long as `TableFits` |
| | `RegistryInOrder`, `ServesEnabled`, `EnabledIsServed` | adapters are those of the enabled providers, with their present keys |
| `SettlementEffectsProofs` | `FollowedHolds`, `WarnedOnce`, `InlineIsSpent`, `ClosureReported`, `OversizedLeaves`, `FirstCloser` | one warning per flag, of spent money; closures are reported, and follow a call that held money; the first closer stands |
| `RunawayProofs` | `WatchedHolds`, `AuditTrue`, `FirstPause` | audit records tell of transitions that happened; the first pause stands |
| | `CountedOnce`, `TripsDue`, `DuplicatesPause` | an entry counts once in a window and whoever is paused exceeds the threshold by such entries, if `MarksOutliveWindows` |
| `AuthenticationProofs` | `GuardedHolds`, `FailuresCounted`, `AddressThrottled`, `RevocationComplete`, `RevokedStays` | no failure is lost, an address is throttled, a revocation revokes what it found and for good |
| | `KeptHolds`, `KeysResolve`, `OneAccount` | keys that were handed out resolve; one account per e-mail address |
| `CalculationsProofs` | `PricedHolds`, `TokensOnce`, `BillMatches` | every token is billed once; a bill is the invoice but for rounding upwards |
| | `EstimateCovers` | a hold covers its bill, if each entry the loader accepts is `Ordinary` and the prompt was not undercounted |
| | `WholeCountsCover` | the same without a condition on the count, where the provider counted all it was then sent |
| | `WindowsResolve`, `OnePeriod`, `WindowsRollOver` | one item for every instant; windows follow on one another |

The conditions:

- `Backend = "dynamo"`: in memory any settlement takes the item's pending down,
  and `MemoryPending.cfg` shows the property violated there.
- `MarksOutliveWindows`: the window and the life of a handler are together no
  longer than a mark lives. Marks live 7200 s; a handler is killed after 60 s; the
  interval is an integer of the policy, 60 minutes by default, that nothing
  bounds. With an interval near two hours or more the condition fails, and
  `RunawayClaims` shows what happens then.
- `TableFits`: one page of a scan, and the number of items a list asks for, hold
  the core table. The code's scans ask for no second page. The run `backends`
  shows `SameBooks` and `SameVerdict` on such a table; `RepositoriesClaims` has a
  smaller page, and revocations and lists that miss what lies beyond it
  (`RevokesEvery`, `ListsAreWhole`).
- `Ordinary`: a cached token costs a whole number of nano-USD and no more than an
  uncached one, and the multipliers of a long context are at least 1. Every entry
  of `pricing/catalog.json` is ordinary, and `CatalogueAssumption` has TLC check
  that those of the instance are. `CalculationsClaims` has one that is not, whose
  hold falls short of its bill.
- The count: `EstimateCoversBill` is about prompts counted at no fewer tokens than
  the provider then meters. The code ensures that where the provider itself counts
  the whole request, if it counts as it meters (`WholeCountCovers`): Anthropic and
  Gemini when they answer, Bedrock when there are no tools. Of Bedrock's tools, of
  OpenAI's prompts and of every fallback nothing is shown but that the hold is on
  the count that was made; `providers/base.py` says itself that a reservation on
  a bad count bounds nothing. An answer that writes the provider's cache, which
  the gateway never asks for, is outside both properties.
- `WindowsAssumption`, for the theorems about windows: time is in hours, so a zone
  is full hours from UTC, by at most 24, and its summer time is at most one hour
  ahead; instants are before 2035. Zones of half hours, and the few whose clocks
  change by another amount (Lord Howe, Troll), are not covered.

### How they go

Each module has an inductive invariant, in the module itself so that TLC checks
it too, and a proof with one step per action that every step keeps it. The
properties follow from it. None is inductive alone:

- *Engine, single items* (`Inductive`). The cap needs the accounting identity, from
  which the store's test of `remaining` means what the cap says, and
  `RemainingBacked`: money that an item no longer has (a negative `remaining`) was
  recorded as overage. A window's first hold passes the store without any test;
  `UnseededIsEmpty` and `RequestFits` carry it, the latter saying that a request on
  its way fits the limits *it* would seed, whatever the policies have become.
  `ClaimIsOwn` (past the grant, the key's claim is the call's own) gives one
  provider call per key; `MarkPrecedesContact` gives `PreDispatchIsUnbilled`;
  `AmountsAreKnown` keeps every step within the amounts the abstract specification
  allows.
- *Engine, sums* (`Reckoned`). It adds that what a call is doing and what its
  reservation says are in step (`InStep`), that only settled calls are in the
  ledger (`LedgerIsOfSettled`), and that reservations and ledger entries are
  finitely many, so that their sums mean something. `MoneyIsCounted` accounts for
  the committed and held money of an item call by call, at the moment between bill
  and settlement too; `SpendCovered` compares it, summand by summand, with what was
  billed. `SettlementsApply` follows from `HoldsMatch`: what a settlement takes off
  an item is part of the sum that the item holds.
- *Sums.* A sum is a fold, a recursive function over the subsets of a set, and
  induction over data is not open to these provers. The lemmas of `Sums` are proved
  by looking at a smallest subset for which they fail: strict inclusion of the
  subsets of a finite set is well-founded, and for a given statement the set of
  counterexamples is an ordinary set.
- *Routing* (`Routed`): a grant belongs to the call that owns its key
  (`ClaimsAreExclusive`), a denial that let the chain go on was by an allocation
  (`DenialsAreByAllocations`), and every budget has given away the sum of its
  grants.
- *Registry* (`InOrder`): the adapters of each gateway follow from its
  configuration and secrets (`AdaptersAreCurrent`), on every path through an
  update, refused ones included.
- *Stores* (`Agreed`): each operation writes the two stores from the same counters,
  in ways that differ where they might not: DynamoDB seeds an item field by field
  (`if_not_exists`) where memory creates it at its limit and then takes from it,
  and both come to the same because an item never held against is as if absent (`HoldWrites`). Memory
  floors the count of open reservations at zero, DynamoDB subtracts; the count is
  the number of open reservations (`OpenIsCounted`), so the floor is never
  reached. DynamoDB has a further condition on a warning's alert, which refuses
  nothing because an alert is only there with its flag (`AlertsAreFlagged`). A
  scan of a finite table that fits reads all of it (`ScansReadAll`).
- *Effects* (`Followed`): an alert of a warning is there exactly if the flag is
  (`WarningsAreFlagged`); what a handler has read and not yet used is no more than
  is spent now (`ReadsAreCovered`); every item has reserved at least what the
  running calls hold (`HoldsAreReserved`, a sum); whoever is about to close a
  session comes after a call that held money (`ClosersCameLater`).
- *Runaway* (`Watched`): a running handler started no longer ago than it may live
  (`HandlersAreTimely`), and for as long as the mark of an entry must stand, whoever
  claimed it is the only one to add it, once (`MarksStand`); so one added twice lost
  its mark in between and has left every window. `AuditsAreBacked` counts the audit records
  still to be written with those that are.
- *Login* (`Guarded`): the durable counter and what each attempt has read of it
  (`CountersAgree`), admissions against buckets over any span of time
  (`AddressesAreCounted`), what a scan found against what is revoked
  (`RevocationsProceed`). `Credentials` (`Kept`): what is handed out, or about to
  be, is stored.
- *Pricing* (`Priced`): hold and bill are what estimate and price make of request
  and answer. The rest is arithmetic. Rounding up is characterised by its two
  inequalities (`CeilSpec`, `CeilUnique`), from which it is monotone and lets
  multiples of the divisor through. A bill rounds the uncached and the cached part
  of a prompt each; with a cached rate of whole nano-USD the second is not rounded,
  and both together are the rounding of a sum that the whole prompt at the dearer
  rate exceeds (`InputCovered`). The margin on a provider's count only adds to it
  (`ProviderCounts`). For the invoice, each bucket is bounded from both
  sides with its own two roundings (`BucketBilled`), and the four are added.
- *Windows* (`Resolved`): window and items are what instants so far resolved to.
  Local dates never go back by a whole day, so the local midnight of a date is the
  first instant that is not of an earlier date, also where the clock skips midnight
  or shows it twice (`MidnightIs`). A week, month or year starts at the midnight of
  a date, all dates of one period have the same first date (`PeriodIs`), and years
  and months are determined by their starts, so that the `CHOOSE` in each is of a
  unique value. Windows of two instants are therefore the same or apart.

### Only model-checked

- Liveness (`EveryCallIsAnswered`, `CallsAreAnswered`, `CrossingIsWarned`,
  `RunawayIsPaused`): fairness and ENABLED are beyond these provers.
- `UpdatesStick`, which is about an instance with a single update,
  `EnabledIsConfigured` and `MemPendingIsHeld`.

## Not modelled, and what is left

- Wire formats of provider requests and answers, HTTP parsing, validation and
  rendering of errors, roles, the CSRF comparison and password hashing: data and wording that
  no property is about.
- How many tokens a local tokenizer or the heuristics make of a prompt: the model
  lets them be any number. A multiplier finer than a basis point, which the loader
  refuses as it does a rate finer than a nano-USD, cannot be written in an `Entry`.
- The serialisation of items, beyond the index key whose staleness a property
  is about; plain gets and puts of policies; the console's other reads.
- Streaming answers, telemetry, settings, the dashboard, deployment and
  scripts: they keep no state of a budget, an agent or an account.
- TTL deletion of rolling buckets and of the idempotency record.
- To prove next: `MemPendingIsHeld`, which needs the sum of the open holds per
  scope; `EnabledIsConfigured`; `UpdatesStick` with its condition on updates
  stated.
