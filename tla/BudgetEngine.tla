----------------------------- MODULE BudgetEngine -----------------------------
(***************************************************************************)
(* The budget engine: reserve-before-inference over atomic, multi-item     *)
(* transactions.                                                           *)
(*                                                                         *)
(* A call is one run of GatewayService.invoke.  It reads the policies,     *)
(* asks the engine to hold its worst-case cost on every budget-window item *)
(* it falls under, marks the reservation dispatched, contacts the          *)
(* provider, and settles the hold against what the provider says.  Many    *)
(* calls run at once in many gateway processes over one store; each        *)
(* TransactWriteItems is one step here, every await between two of them is *)
(* a point where other calls, operators and the clock may move.            *)
(*                                                                         *)
(* A reservation is named by the call that made it: reserve() draws a      *)
(* fresh ULID, and only a granted reserve() leaves a reservation behind.   *)
(*                                                                         *)
(* An item's quantities are vectors over Dim: money (nano-USD) and the     *)
(* token dimensions, which authorization checks together and settlement    *)
(* moves together.                                                         *)
(***************************************************************************)
EXTENDS Integers, FiniteSets, Functions

CONSTANTS
  Call,          \* governed calls
  Scope,         \* budgets with a policy: teams, agents, sessions, allocations
  Key,           \* budget-window items, one per scope and window
  ScopeOf,       \* the scope each item counts for
  KeysAt,        \* KeysAt[c][t]: the items call c falls under at time t
  Dim, Money,    \* the dimensions of a budget; Money is the one in nano-USD
  Agent,
  Session, NoSession,
  IdemKey, NoIdem,
  Request,       \* Request[c]: agent, session, idempotency key, fingerprint
  Costs,         \* worst-case vectors a call may have to hold
  Usages,        \* vectors a provider may bill
  Limits,        \* policies an operator may set
  InitPolicy,    \* the policy of each scope at the start
  Expiry,        \* Expiry[s]: when session s expires
  Backend,       \* "dynamo" or "memory"
  MaxAttempts,   \* RetryPolicy.max_attempts
  MaxTime        \* bound on the clock

Time == 0 .. MaxTime
Vec == [Dim -> Int]
Amount == [Dim -> Nat]

ASSUME DimAssumption == Money \in Dim
ASSUME RequestAssumption ==
  Request \in [Call -> [agent : Agent, session : Session \cup {NoSession},
                        idem : IdemKey \cup {NoIdem}, print : Int]]
ASSUME KeyAssumption == /\ ScopeOf \in [Key -> Scope]
                        /\ KeysAt \in [Call -> [Time -> SUBSET Key]]
ASSUME AmountAssumption == /\ Costs \subseteq Amount
                           /\ Usages \subseteq Amount
                           /\ Limits \subseteq Amount
                           /\ InitPolicy \in [Scope -> Amount]
ASSUME BoundAssumption == /\ MaxAttempts \in Nat \ {0}
                          /\ MaxTime \in Nat
                          /\ Expiry \in [Session -> Int]
ASSUME BackendAssumption == Backend \in {"dynamo", "memory"}
ASSUME NullAssumption == NoSession \notin Session /\ NoIdem \notin IdemKey

VARIABLES
  clock,
  policy,        \* policy[s]: the limits configured for scope s
  seeded,        \* items that exist in the store
  budget,        \* budget[k]: the counters of item k
  agentStatus,
  sessionStatus,
  idem,          \* idem[i]: the call whose reservation claimed key i, or {}
  resv,          \* resv[c]: the reservation record call c left in the store
  ledger,        \* the immutable usage ledger
  call,          \* call[c]: where call c is in its lifecycle, and what it knows
  billed         \* billed[c]: what the provider really charged for call c

store == <<seeded, budget, idem, resv, ledger>>
world == <<clock, policy, agentStatus, sessionStatus>>
vars == <<clock, policy, seeded, budget, agentStatus, sessionStatus, idem,
          resv, ledger, call, billed>>

-----------------------------------------------------------------------------
(* Vectors *)

Zero == [d \in Dim |-> 0]
Plus(v, w) == [d \in Dim |-> v[d] + w[d]]
Minus(v, w) == [d \in Dim |-> v[d] - w[d]]
Fits(v, w) == \A d \in Dim : v[d] <= w[d]
Excess(v, w) == IF v[Money] > w[Money] THEN v[Money] - w[Money] ELSE 0

(***************************************************************************)
(* Records.  A reservation keeps the exact items and amount it held, so    *)
(* that settlement reverses that hold and never recomputes it.             *)
(***************************************************************************)
State == {"NONE", "RESERVED", "RECONCILED", "RELEASED", "RECONCILE_PENDING"}
Terminal == {"RECONCILED", "RELEASED"}   \* RECONCILE_RESOLVED is never written
Held == {"RESERVED", "RECONCILE_PENDING"}

Item == [limit : Amount, remaining : Vec, committed : Vec, reserved : Vec,
         pending : Int, overage : Int, open : Int]

NoItem == [limit |-> Zero, remaining |-> Zero, committed |-> Zero,
           reserved |-> Zero, pending |-> 0, overage |-> 0, open |-> 0]

Reservation == [state : State, dispatch : {"PRE_DISPATCH", "DISPATCHED"},
                keys : SUBSET Key, cost : Amount, indexed : BOOLEAN]

NoReservation == [state |-> "NONE", dispatch |-> "PRE_DISPATCH", keys |-> {},
                  cost |-> Zero, indexed |-> FALSE]

Entry == [call : Call, seq : {0, 1}, amount : Nat,
          kind : {"USAGE", "OVERAGE", "RELEASE", "PENDING_ASSUMED"}]

Answered == {"denied", "contended", "replayed", "inflight", "unresolved",
             "mismatch", "settled", "stuck", "crashed"}
Pc == {"idle", "reserving", "resolving", "granted", "dispatched", "answered"}
        \cup Answered
Outcome == {"none", "billed", "notBilled", "ambiguous"}

Frame == [pc : Pc, now : Time, keys : SUBSET Key, cost : Amount,
          policy : [Scope -> Amount], attempt : 0 .. MaxAttempts - 1,
          outcome : Outcome, usage : Amount]

At(c, where) == call[c].pc = where
GoTo(c, where) == call' = [call EXCEPT ![c].pc = where]

-----------------------------------------------------------------------------
(* What each transaction slot does to an item. *)

\* Fault: an item that exists takes over the caller's limits.
ItemAtCallersLimits(k, limits) ==
  IF k \in seeded THEN [budget[k] EXCEPT !.limit = limits]
  ELSE [NoItem EXCEPT !.limit = limits, !.remaining = limits]

\* The item a reserve slot works on: seeded at the caller's limits if absent.
ItemFor(k, limits) ==
  IF k \in seeded THEN budget[k]
  ELSE [NoItem EXCEPT !.limit = limits, !.remaining = limits]

\* ScopeReserveSlot: seed-and-decrement remaining, add to reserved.
WithHold(item, cost) ==
  [item EXCEPT !.remaining = Minus(@, cost),
               !.reserved = Plus(@, cost),
               !.open = @ + 1]

\* Any settled hold comes off a pending counter that is not zero.
PendingTakenDown(pending, held) ==
  IF pending > held[Money] THEN pending - held[Money] ELSE 0

\* What a settlement does to the pending counter: DynamoDB's settle expression
\* leaves it alone, the in-memory one takes it down.
PendingAfterSettle(pending, held) ==
  IF Backend = "dynamo" THEN pending ELSE PendingTakenDown(pending, held)

\* Fault: remaining is kept from going negative.
SettledClamped(item, held, actual) ==
  [item EXCEPT !.remaining = [d \in Dim |->
                   IF @[d] + held[d] < actual[d] THEN 0
                   ELSE @[d] + held[d] - actual[d]],
               !.committed = Plus(@, actual),
               !.reserved = Minus(@, held),
               !.overage = @ + Excess(actual, held),
               !.open = @ - 1]

\* Fault: the hold is reversed by what was spent, not by what was held.
SettledByActual(item, held, actual) ==
  [item EXCEPT !.committed = Plus(@, actual),
               !.reserved = Minus(@, actual),
               !.overage = @ + Excess(actual, held),
               !.open = @ - 1]

\* ScopeSettleSlot: remaining moves by held - actual and is never clamped.
Settled(item, held, actual) ==
  [item EXCEPT !.remaining = Plus(@, Minus(held, actual)),
               !.committed = Plus(@, actual),
               !.reserved = Minus(@, held),
               !.pending = PendingAfterSettle(@, held),
               !.overage = @ + Excess(actual, held),
               !.open = @ - 1]

\* ScopePendingSlot: only pending moves; the money stays held.
WithPending(item, held) == [item EXCEPT !.pending = @ + held[Money]]

-----------------------------------------------------------------------------
(* Authorization *)

\* resolve_scopes: every item call c falls under at the time it arrived.
Resolved(c) == KeysAt[c][clock]

\* check_fits_in_pristine_window
FitsPristine(cost, keys, limits) ==
  \A k \in keys : Fits(cost, limits[ScopeOf[k]])

\* invoke() up to reserve(): read the clock and the policies, resolve the
\* items, refuse a request larger than a scope's entire limit.  The policies
\* are read one by one; no step writes two of them, so one step loses nothing.
Arrive(c) ==
  /\ At(c, "idle")
  /\ \E cost \in Costs :
       LET fits == FitsPristine(cost, Resolved(c), policy)
       IN call' = [call EXCEPT ![c] =
                     [@ EXCEPT !.pc = IF fits THEN "reserving" ELSE "denied",
                               !.now = clock,
                               !.keys = Resolved(c),
                               !.cost = cost,
                               !.policy = policy]]
  /\ UNCHANGED <<store, world, billed>>

\* The limits a missing item is seeded at: the ones the call read on arrival.
\* Fault: the limits of now, which the request was never measured against.
CurrentLimits(c, k) == policy[ScopeOf[k]]
SeedLimits(c, k) == call[c].policy[ScopeOf[k]]

\* Fault: what is committed is weighed, what is in flight is not.
AffordableBesideHolds(k, cost) ==
  k \in seeded => Fits(cost, Minus(budget[k].limit, budget[k].committed))

\* attribute_not_exists(PK) OR every remaining counter covers the request
Affordable(k, cost) == k \in seeded => Fits(cost, budget[k].remaining)

BudgetOk(c) == \A k \in call[c].keys : Affordable(k, call[c].cost)

AgentOk(c) == agentStatus[Request[c].agent] = "ACTIVE"

SessionOk(c) ==
  LET s == Request[c].session
  IN s # NoSession => sessionStatus[s] = "OPEN" /\ Expiry[s] > call[c].now

Keyed(c) == Request[c].idem # NoIdem

\* Fault: a claim whose request has ended no longer counts.
KeyFreeOnceDone(c) ==
  Keyed(c) => \A o \in idem[Request[c].idem] : resv[o].state \in Terminal

KeyFree(c) == Keyed(c) => idem[Request[c].idem] = {}

StatusOk(c) == AgentOk(c) /\ SessionOk(c)

\* The authorization transaction commits: hold the cost on every item, claim
\* the idempotency key, write the reservation and its entry in the index of
\* unsettled ones.
ReserveGranted(c) ==
  /\ At(c, "reserving")
  /\ StatusOk(c) /\ BudgetOk(c) /\ KeyFree(c)
  /\ budget' = [k \in Key |->
                  IF k \in call[c].keys
                  THEN WithHold(ItemFor(k, SeedLimits(c, k)), call[c].cost)
                  ELSE budget[k]]
  /\ seeded' = seeded \cup call[c].keys
  /\ idem' = [i \in IdemKey |-> IF i = Request[c].idem THEN {c} ELSE idem[i]]
  /\ resv' = [resv EXCEPT ![c] = [NoReservation EXCEPT !.state = "RESERVED",
                                                       !.keys = call[c].keys,
                                                       !.cost = call[c].cost,
                                                       !.indexed = TRUE]]
  /\ GoTo(c, "granted")
  /\ UNCHANGED <<world, ledger, billed>>

\* A condition was false.  Only when the idempotency claim alone failed is the
\* collision resolved against the stored record; otherwise it is a denial.
ReserveDenied(c) ==
  /\ At(c, "reserving")
  /\ ~(StatusOk(c) /\ BudgetOk(c) /\ KeyFree(c))
  /\ GoTo(c, IF StatusOk(c) /\ BudgetOk(c) THEN "resolving" ELSE "denied")
  /\ UNCHANGED <<store, world, billed>>

TryAgain(c) == call[c].attempt + 1 < MaxAttempts

\* Nothing was decided.  The engine backs off and tries again until it is out
\* of attempts; its default delays add up to less than its total retry budget.
ReserveConflict(c) ==
  /\ Backend = "dynamo"
  /\ At(c, "reserving")
  /\ \/ TryAgain(c) /\ call' = [call EXCEPT ![c].attempt = @ + 1]
     \/ ~TryAgain(c) /\ GoTo(c, "contended")
  /\ UNCHANGED <<store, world, billed>>

\* What a repeated key is answered with, given the request that claimed it.
Repeated(c, original) ==
  IF Request[original].print # Request[c].print THEN "mismatch"
  ELSE IF resv[original].state = "RECONCILE_PENDING" THEN "unresolved"
  ELSE IF resv[original].state \in Terminal THEN "replayed"
  ELSE "inflight"

\* _resolve_idempotency reads the record and its reservation after the denial.
ResolveIdempotency(c) ==
  /\ At(c, "resolving")
  /\ \E original \in idem[Request[c].idem] : GoTo(c, Repeated(c, original))
  /\ UNCHANGED <<store, world, billed>>

-----------------------------------------------------------------------------
(* Invocation *)

\* Fault: the provider is contacted before the mark is written.
DispatchedUnmarked(c) ==
  /\ At(c, "granted")
  /\ GoTo(c, "dispatched")
  /\ UNCHANGED <<store, world, billed>>

\* One unconditional write, awaited before the provider is contacted.
MarkDispatched(c) ==
  /\ At(c, "granted")
  /\ resv' = [resv EXCEPT ![c].dispatch = "DISPATCHED"]
  /\ GoTo(c, "dispatched")
  /\ UNCHANGED <<world, seeded, budget, idem, ledger, billed>>

\* The provider is contacted and its answer classified.  It may bill more than
\* was reserved; an ambiguous failure may or may not have been billed; only a
\* failure that provably was not billed is classified notBilled.
ProviderAnswers(c) ==
  /\ At(c, "dispatched")
  /\ \E out \in Outcome \ {"none"}, usage \in Usages \cup {Zero} :
       /\ out = "billed" => usage \in Usages
       /\ out = "notBilled" => usage = Zero
       /\ billed' = [billed EXCEPT ![c] = usage]
       /\ call' = [call EXCEPT ![c] =
                     [@ EXCEPT !.pc = "answered",
                               !.outcome = out,
                               !.usage = IF out = "billed" THEN usage
                                         ELSE Zero]]
  /\ UNCHANGED <<store, world>>

-----------------------------------------------------------------------------
(* Settlement *)

\* Fault: a settlement is held to the budget, like an authorization.
CanSettleWithinBudget(c) ==
  /\ resv[c].state = "RESERVED"
  /\ \A k \in resv[c].keys :
       Fits(call[c].usage, Plus(budget[k].remaining, resv[c].cost))

\* The conditions of a settlement: the reservation is still RESERVED, and each
\* item exists and holds at least what is being reversed.
CanSettle(c) ==
  /\ resv[c].state = "RESERVED"
  /\ \A k \in resv[c].keys :
       k \in seeded /\ budget[k].reserved[Money] >= resv[c].cost[Money]

\* One settle slot per item the reservation held.
SettleItems(c, actual) ==
  budget' = [k \in Key |-> IF k \in resv[c].keys
                           THEN Settled(budget[k], resv[c].cost, actual)
                           ELSE budget[k]]

LedgerEntry(c, seq, kind, amount) ==
  [call |-> c, seq |-> seq, kind |-> kind, amount |-> amount]

\* Fault: the ledger is charged the reserved amount.
EntriesAtReserved(c, actual) ==
  {LedgerEntry(c, 0, "USAGE", resv[c].cost[Money])}

\* The entries of a reconciliation: the usage, and an overage of its own when
\* the provider billed more than was reserved.
UsageEntries(c, actual) ==
  LET over == Excess(actual, resv[c].cost)
  IN {LedgerEntry(c, 0, "USAGE", actual[Money])}
       \cup (IF over > 0 THEN {LedgerEntry(c, 1, "OVERAGE", over)} ELSE {})

\* Fault: whatever is not a success is given back.
NotASuccess(c) == call[c].outcome # "billed"
ProvablyUnbilled(c) == call[c].outcome = "notBilled"

Reconcile(c) ==
  /\ At(c, "answered") /\ call[c].outcome = "billed"
  /\ CanSettle(c)
  /\ SettleItems(c, call[c].usage)
  /\ resv' = [resv EXCEPT ![c].state = "RECONCILED"]
  /\ ledger' = ledger \cup UsageEntries(c, call[c].usage)
  /\ GoTo(c, "settled")
  /\ UNCHANGED <<world, seeded, idem, billed>>

Release(c) ==
  /\ At(c, "answered") /\ ProvablyUnbilled(c)
  /\ CanSettle(c)
  /\ SettleItems(c, Zero)
  /\ resv' = [resv EXCEPT ![c].state = "RELEASED"]
  /\ ledger' = ledger \cup {LedgerEntry(c, 0, "RELEASE", 0)}
  /\ GoTo(c, "settled")
  /\ UNCHANGED <<world, seeded, idem, billed>>

MarkPending(c) ==
  /\ At(c, "answered") /\ call[c].outcome = "ambiguous"
  /\ CanSettle(c)
  /\ budget' = [k \in Key |-> IF k \in resv[c].keys
                              THEN WithPending(budget[k], resv[c].cost)
                              ELSE budget[k]]
  /\ resv' = [resv EXCEPT ![c].state = "RECONCILE_PENDING"]
  /\ ledger' = ledger \cup
                 {LedgerEntry(c, 0, "PENDING_ASSUMED", resv[c].cost[Money])}
  /\ GoTo(c, "settled")
  /\ UNCHANGED <<world, seeded, idem, billed>>

\* A settlement transaction that loses a race is not retried: the conflict
\* leaves the handler and the reservation stays as it was.
SettleConflict(c) ==
  /\ Backend = "dynamo"
  /\ At(c, "answered")
  /\ GoTo(c, "stuck")
  /\ UNCHANGED <<store, world, billed>>

\* The gateway process dies, or the reply of its last write is lost.
Crash(c) ==
  /\ call[c].pc \notin Answered \cup {"idle"}
  /\ GoTo(c, "crashed")
  /\ UNCHANGED <<store, world, billed>>

-----------------------------------------------------------------------------
(* The world around the calls *)

Tick ==
  /\ clock < MaxTime
  /\ clock' = clock + 1
  /\ UNCHANGED <<store, policy, agentStatus, sessionStatus, call, billed>>

\* update_team_budget / update_agent_budget: a policy, never a seeded item.
SetPolicy(s) ==
  /\ \E limits \in Limits : policy' = [policy EXCEPT ![s] = limits]
  /\ UNCHANGED <<store, clock, agentStatus, sessionStatus, call, billed>>

SetAgentStatus(a) ==
  /\ \E status \in {"ACTIVE", "PAUSED"} :
       agentStatus' = [agentStatus EXCEPT ![a] = status]
  /\ UNCHANGED <<store, clock, policy, sessionStatus, call, billed>>

\* A session closes by budget, user or operator, and POST /sessions with its
\* identifier writes it OPEN again.
SetSessionStatus(s) ==
  /\ \E status \in {"OPEN", "CLOSED"} :
       sessionStatus' = [sessionStatus EXCEPT ![s] = status]
  /\ UNCHANGED <<store, clock, policy, agentStatus, call, billed>>

-----------------------------------------------------------------------------

Init ==
  /\ clock = 0
  /\ policy = InitPolicy
  /\ seeded = {}
  /\ budget = [k \in Key |-> NoItem]
  /\ agentStatus = [a \in Agent |-> "ACTIVE"]
  /\ sessionStatus = [s \in Session |-> "OPEN"]
  /\ idem = [i \in IdemKey |-> {}]
  /\ resv = [c \in Call |-> NoReservation]
  /\ ledger = {}
  /\ call = [c \in Call |-> [pc |-> "idle", now |-> 0, keys |-> {},
                             cost |-> Zero, policy |-> InitPolicy,
                             attempt |-> 0, outcome |-> "none",
                             usage |-> Zero]]
  /\ billed = [c \in Call |-> Zero]

\* What the gateway does for a call when nothing goes wrong around it.
Progress(c) ==
  \/ ReserveGranted(c) \/ ReserveDenied(c) \/ ResolveIdempotency(c)
  \/ MarkDispatched(c) \/ ProviderAnswers(c)
  \/ Reconcile(c) \/ Release(c) \/ MarkPending(c)

Next ==
  \/ \E c \in Call : Arrive(c) \/ Progress(c)
  \/ \E c \in Call : ReserveConflict(c) \/ SettleConflict(c) \/ Crash(c)
  \/ Tick
  \/ \E s \in Scope : SetPolicy(s)
  \/ \E a \in Agent : SetAgentStatus(a)
  \/ \E s \in Session : SetSessionStatus(s)

Spec == Init /\ [][Next]_vars

\* A running gateway process keeps executing the handler it is in, and every
\* provider call ends by its timeout.  Nothing is assumed of crashes,
\* conflicts, operators or clients.
Fairness == \A c \in Call : WF_vars(Progress(c))

FairSpec == Spec /\ Fairness

-----------------------------------------------------------------------------
(* Properties *)

\* Every variable stays in its type; attempts stay below max_attempts.
TypeOK ==
  /\ clock \in Time
  /\ policy \in [Scope -> Amount]
  /\ seeded \in SUBSET Key
  /\ budget \in [Key -> Item]
  /\ agentStatus \in [Agent -> {"ACTIVE", "PAUSED"}]
  /\ sessionStatus \in [Session -> {"OPEN", "CLOSED"}]
  /\ idem \in [IdemKey -> SUBSET Call]
  /\ resv \in [Call -> Reservation]
  /\ ledger \subseteq Entry
  /\ call \in [Call -> Frame]
  /\ billed \in [Call -> Amount]

\* Every unit of a limit is unspent, settled, or held: nothing appears and
\* nothing vanishes, in any dimension, even after a provider overshoots
\* (BudgetState.invariant_holds).
AccountingIdentity ==
  \A k \in Key, d \in Dim :
    budget[k].remaining[d] + budget[k].committed[d] + budget[k].reserved[d]
      = budget[k].limit[d]

\* The hard cap: settled and held money exceed an item's limit by no more than
\* what providers billed beyond their holds, whatever calls race, crash, retry
\* or work from a policy that has changed since they read it.
WithinCap ==
  \A k \in Key :
    budget[k].committed[Money] + budget[k].reserved[Money]
      <= budget[k].limit[Money] + budget[k].overage

\* The calls whose hold, or settled spend, counts on item k.
Covering(k) == {c \in Call : k \in resv[c].keys}
Holding(k) == {c \in Covering(k) : resv[c].state \in Held}
HeldOn(k, d) == SumFunctionOnSet([c \in Call |-> resv[c].cost[d]], Holding(k))

\* What an item says is held is what the unresolved reservations on it hold:
\* no hold leaks, none is reversed twice or by another amount.
HoldsMatchReservations ==
  \A k \in Key :
    /\ \A d \in Dim : budget[k].reserved[d] = HeldOn(k, d)
    /\ budget[k].open = Cardinality(Holding(k))

EntriesOn(k, kind) == {e \in ledger : e.kind = kind /\ k \in resv[e.call].keys}
Recorded(k, kind) ==
  SumFunctionOnSet([e \in ledger |-> e.amount], EntriesOn(k, kind))

\* The counters and the immutable ledger tell the same story: an item's
\* committed money is the usage recorded against it, its overage the overages.
CommittedMatchesLedger ==
  \A k \in Key : /\ budget[k].committed[Money] = Recorded(k, "USAGE")
                  /\ budget[k].overage = Recorded(k, "OVERAGE")

\* What the counters still answer for of a call's bill: all of it, except the
\* part of an unsettled bill that is beyond its hold.
Answerable(c) ==
  billed[c][Money]
    - IF resv[c].state \in Held THEN Excess(billed[c], resv[c].cost) ELSE 0

\* Money a provider has charged is never free to be spent again: it is settled
\* or still held, also for calls that crashed, were stuck or ended ambiguous.
SpendIsCovered ==
  \A k \in Key :
    SumFunctionOnSet([c \in Call |-> Answerable(c)], Covering(k))
      <= budget[k].committed[Money] + budget[k].reserved[Money]

\* However often a client repeats an idempotency key, concurrently or later,
\* at most one of the calls that carry it reaches a provider.
OneProviderCallPerKey ==
  \A c1, c2 \in Call :
    (/\ Keyed(c1)
     /\ Request[c1].idem = Request[c2].idem
     /\ call[c1].outcome # "none"
     /\ call[c2].outcome # "none") => c1 = c2

\* Recording what a provider charged never fails on a condition: the hold a
\* call has to settle is there, whatever other calls did to the same items.
SettlementAlwaysApplies == \A c \in Call : At(c, "answered") => CanSettle(c)

\* A reservation still marked PRE_DISPATCH has cost nothing, so that it can be
\* released by whoever finds it (DispatchState), even after a crash.
PreDispatchIsUnbilled ==
  \A c \in Call : resv[c].dispatch = "PRE_DISPATCH" => billed[c] = Zero

Unresolved(k) == {c \in Covering(k) : resv[c].state = "RECONCILE_PENDING"}

\* pending reports exactly the held money whose provider outcome is unknown.
HeldUnresolved(k) ==
  SumFunctionOnSet([c \in Call |-> resv[c].cost[Money]], Unresolved(k))
PendingTracksUnresolved ==
  \A k \in Key : budget[k].pending = HeldUnresolved(k)

\* A hold is only ever granted within the limit: a step that raises what an
\* item holds leaves committed plus reserved within it, in every dimension.
GrantsFitBudget ==
  [][\A k \in Key, d \in Dim :
       budget'[k].reserved[d] > budget[k].reserved[d]
         => budget'[k].committed[d] + budget'[k].reserved[d]
              <= budget'[k].limit[d]]_vars

\* An amendment of a policy reaches windows not yet seeded, never an open one,
\* even through a call that read the amended policy.
OpenWindowsKeepTheirLimit ==
  [][\A k \in seeded : k \in seeded' /\ budget'[k].limit = budget[k].limit]_vars

\* Every call that arrives is answered: the caller gets a result, a denial or
\* an error, whatever it races with.
EveryCallIsAnswered ==
  \A c \in Call : ~At(c, "idle") ~> call[c].pc \in Answered

\* docs/ARCHITECTURE.md promises a sweeper that resolves what crashed requests
\* left behind, so that no hold encumbers its budget indefinitely.
HoldsEventuallyResolve ==
  \A c \in Call :
    resv[c].state = "RESERVED" ~> resv[c].state # "RESERVED"

\* dynamo/serde.py: the index of unsettled reservations loses an entry when it
\* settles, so that it only ever holds work that still needs doing.
IndexHoldsOpenWork ==
  \A c \in Call : resv[c].indexed => resv[c].state \in Held

\* domain/state.py: what remains, is committed and is held adds up to the limit
\* plus the overage.
IdentityCountsOverage ==
  \A k \in Key :
    budget[k].remaining[Money] + budget[k].committed[Money]
      + budget[k].reserved[Money] = budget[k].limit[Money] + budget[k].overage

\* _apply_with_retry: an idempotency collision is resolved against the stored
\* record rather than reported as a denial.
RetryIsNotADenial ==
  [][\A c \in Call :
       At(c, "reserving") /\ call'[c].pc = "denied" => KeyFree(c)]_vars


-----------------------------------------------------------------------------
(* What makes the safety properties inductive *)

\* Money an item no longer has is money it was overcharged.
RemainingBacked ==
  \A k \in Key : /\ budget[k].overage >= 0
                  /\ budget[k].remaining[Money] + budget[k].overage >= 0

\* An item not yet in the store counts nothing.
UnseededIsEmpty == \A k \in Key \ seeded : budget[k] = NoItem

\* A request on its way to the store fits the limits it would seed.
RequestFits ==
  \A c \in Call : At(c, "reserving") =>
    FitsPristine(call[c].cost, call[c].keys, call[c].policy)

\* A call entitled to a provider, or past one, holds its key's claim alone.
ClaimIsOwn ==
  \A c \in Call :
    /\ Keyed(c)
    /\ At(c, "granted") \/ At(c, "dispatched") \/ call[c].outcome # "none"
    => idem[Request[c].idem] = {c}

\* The dispatch mark precedes the provider.
MarkPrecedesContact ==
  \A c \in Call :
    /\ At(c, "idle") \/ At(c, "reserving") => billed[c] = Zero
    /\ At(c, "dispatched") => resv[c].dispatch = "DISPATCHED"

\* Every amount in play was asked for, billed or configured.
PolicyValues == Limits \cup {InitPolicy[s] : s \in Scope}
AmountsAreKnown ==
  /\ \A s \in Scope : policy[s] \in PolicyValues
  /\ \A c \in Call :
       /\ \A s \in Scope : call[c].policy[s] \in PolicyValues
       /\ At(c, "reserving") => call[c].cost \in Costs
       /\ resv[c].state # "NONE" => resv[c].cost \in Costs
       /\ call[c].usage \in Usages \cup {Zero}

\* The inductive invariant the proofs rest on, checked here on every state of
\* an instance: the accounts, the requests in flight, the claims and the marks.
Inductive ==
  /\ TypeOK
  /\ AccountingIdentity /\ RemainingBacked /\ UnseededIsEmpty
  /\ RequestFits
  /\ ClaimIsOwn
  /\ MarkPrecedesContact /\ PreDispatchIsUnbilled
  /\ AmountsAreKnown

\* A call and its reservation move together: nothing is held before the grant,
\* the hold is whole until the settlement, and what was settled is what the
\* provider charged.
InStep ==
  \A c \in Call :
    /\ resv[c].state = "NONE" => resv[c].keys = {}
    /\ resv[c].keys \subseteq seeded
    /\ call[c].pc \in {"idle", "reserving", "resolving"} =>
         resv[c].state = "NONE"
    /\ call[c].pc \in {"granted", "dispatched", "answered"} =>
         resv[c].state = "RESERVED"
    /\ At(c, "answered") /\ call[c].outcome = "billed" =>
         billed[c] = call[c].usage
    /\ At(c, "answered") /\ ProvablyUnbilled(c) => billed[c] = Zero
    /\ resv[c].state = "RELEASED" => billed[c] = Zero

\* The ledger has entries of what is settled or pending, and of nothing else.
LedgerIsOfSettled ==
  \A e \in ledger : resv[e.call].state \notin {"NONE", "RESERVED"}

\* Only finitely many calls have left anything to add up.
FinitelyMany ==
  IsFiniteSet({c \in Call : resv[c].state # "NONE"}) /\ IsFiniteSet(ledger)

\* What a call counts for on each of its items: its bill once reconciled, its
\* hold while it has one.
Counted(c) ==
  IF resv[c].state = "RECONCILED" THEN billed[c][Money]
  ELSE IF resv[c].state \in Held THEN resv[c].cost[Money] ELSE 0

MoneyIsCounted ==
  \A k \in Key :
    budget[k].committed[Money] + budget[k].reserved[Money]
      = SumFunctionOnSet([c \in Call |-> Counted(c)], Covering(k))

\* The inductive invariant about sums: the counters of an item against the
\* reservations and the ledger.  The in-memory store keeps no true pending
\* counter, hence the condition on it.
Reckoned ==
  /\ Inductive
  /\ InStep /\ LedgerIsOfSettled /\ FinitelyMany
  /\ HoldsMatchReservations /\ CommittedMatchesLedger /\ MoneyIsCounted
  /\ Backend = "dynamo" => PendingTracksUnresolved
-----------------------------------------------------------------------------
(* The abstract hard cap that the engine implements.  An account is a      *)
(* budget-window item; the cap is about its money dimension.               *)

Moneys(vectors) == {v[Money] : v \in vectors}

Cap == INSTANCE HardCap WITH
         Account <- Key,
         Limits  <- Moneys(PolicyValues),
         Amounts <- Moneys(Costs \cup Usages \cup {Zero}),
         opened  <- seeded,
         limit   <- [k \in Key |-> budget[k].limit[Money]],
         spent   <- [k \in Key |-> budget[k].committed[Money]],
         held    <- [k \in Key |-> budget[k].reserved[Money]],
         excess  <- [k \in Key |-> budget[k].overage]

\* The engine implements the hard cap: a grant is a hold that fits in every
\* item at that instant, a settlement reverses a hold that is there, and no
\* other step, of any actor, touches an item's money.
ImplementsHardCap == Cap!Spec
=============================================================================
