-------------------------------- MODULE Routing --------------------------------
(***************************************************************************)
(* Model routing under budget pressure: RoutingEngine.route_and_reserve    *)
(* and the part of InferenceService.invoke around it.                      *)
(*                                                                         *)
(* Calls of one agent walk its chain of candidates.  Every candidate that  *)
(* is judged eligible is priced for the request and reserved in one        *)
(* transaction over team, agent, session and the candidate's allocation;   *)
(* a denial may move the call to the next candidate.  Counting tokens,     *)
(* reserving, marking and invoking are awaits: other calls, operators who  *)
(* disable providers or pause the agent, and the session's closure come    *)
(* between any two of them.                                                *)
(*                                                                         *)
(* The transaction is one step; its retries and its crashes are the        *)
(* subject of BudgetEngine.  Costs are one amount, money.                  *)
(***************************************************************************)
EXTENDS Integers, Sequences, FiniteSets, Functions

CONSTANTS
  Call, Model, Provider, Feature,
  Chain,          \* the agent's candidates, preferred first
  AllowFallback, MaxAttempts,   \* its RoutingPolicy
  Allocated,      \* the models with an allocation
  Parent,         \* the other budgets a call falls under
  Limit,          \* Limit[s]: the limit of budget s
  Priced,         \* the models in the catalog
  Rate, Output,   \* per model: price per token, bounded output
  Context, Supports,   \* per model: its capabilities
  Soft,           \* the models that honour no hard output cap
  SafetyBps,      \* the margin for those
  Tokens,         \* Tokens[c][m]: call c's prompt as model m counts it
  Needs,          \* Needs[c]: the features call c asks for
  Key, IdemKey    \* Key[c]: the idempotency key of call c

Candidate == [provider : Provider, model : Model]

ASSUME ChainAssumption == Chain \in Seq(Candidate) /\ Chain # <<>>
ASSUME PreferredAssumption == Chain[1].model \in Priced
ASSUME ScopeAssumption == Parent \cap Model = {} /\ Limit \in [Parent \cup Allocated -> Nat]
ASSUME PolicyAssumption == AllowFallback \in BOOLEAN /\ MaxAttempts \in Nat
ASSUME PriceAssumption ==
  Rate \in [Model -> Nat] /\ Output \in [Model -> Nat] /\ SafetyBps \in Nat
ASSUME TokensAssumption == Tokens \in [Call -> [Model -> Nat]]

VARIABLES
  requireSameProvider,   \* the rest of its RoutingPolicy
  left,       \* left[s]: what remains of budget s
  live,       \* whether agent and session accept calls
  active,     \* the providers with an adapter
  owner,      \* owner[k]: the calls that claimed idempotency key k
  grant,      \* grant[c]: the reservation of call c
  call        \* call[c]: where call c stands

vars == <<requireSameProvider, left, live, active, owner, grant, call>>
world == <<requireSameProvider, live, active>>
money == <<left, owner, grant>>

Scope == Parent \cup Allocated
Preferred == Chain[1]
Length == IF ~AllowFallback THEN 1
          ELSE IF MaxAttempts < Len(Chain) THEN MaxAttempts ELSE Len(Chain)

Reason == {"different_provider", "no_price_entry", "incompatible", "not_cheaper",
           "window", "denied"}
Verdict == [reason : Reason, blocking : SUBSET Scope]

NoGrant == [state |-> "NONE", at |-> 0, cost |-> 0, marked |-> FALSE, sent |-> FALSE]
Grant == [state : {"RESERVED", "RECONCILED", "RELEASED", "RECONCILE_PENDING"},
          at : 1 .. Length, cost : Nat, marked : BOOLEAN, sent : BOOLEAN]

Answer == {"unconfigured", "denied", "contended", "repeated", "settled", "rejected",
           "unresolved", "broken"}
Pc == {"idle", "counting", "considering", "recounting", "reserving", "granted",
       "dispatched", "invoked"} \cup Answer

At(c, where) == call[c].pc = where
GoTo(c, where) == call' = [call EXCEPT ![c].pc = where]
Position(c) == Len(call[c].tried) + 1
Current(c) == Chain[Position(c)]

-----------------------------------------------------------------------------
(* Estimates *)

CeilDiv(a, b) == (a + b - 1) \div b

\* ModelPrice.estimate_worst_case, without and with its safety margin.
WorstCase(m, tokens) == Rate[m] * (tokens + Output[m])
Estimate(m, tokens) ==
  IF m \in Soft THEN CeilDiv(WorstCase(m, tokens) * (10000 + SafetyBps), 10000)
  ELSE WorstCase(m, tokens)

\* The budgets a call is held against when it uses model m.
ScopesOf(m) == Parent \cup ({m} \cap Allocated)
TooLarge(m, cost) == {s \in ScopesOf(m) : cost > Limit[s]}

-----------------------------------------------------------------------------
(* invoke, up to the chain: the preferred model's adapter counts. *)

FindAdapter(c) ==
  /\ At(c, "idle")
  /\ GoTo(c, IF Preferred.provider \in active THEN "counting" ELSE "unconfigured")
  /\ UNCHANGED <<world, money>>

CountPreferred(c) ==
  /\ At(c, "counting")
  /\ GoTo(c, "considering")
  /\ UNCHANGED <<world, money>>

-----------------------------------------------------------------------------
(* The chain *)

\* Prompt and estimate as the preferred model counts them.
PreferredTokens(c) == Tokens[c][Preferred.model]
PreferredEstimate(c) == Estimate(Preferred.model, PreferredTokens(c))

\* _capability_gap judges the prompt as the preferred model counted it.
Lacks(c, m) == PreferredTokens(c) > Context[m] \/ ~(Needs[c] \subseteq Supports[m])

\* _check_eligibility: why the candidate may not be used, or "eligible".
Eligibility(c, at) ==
  LET to == Chain[at] IN
  IF at = 1 THEN "eligible"
  ELSE IF requireSameProvider /\ to.provider # Preferred.provider THEN "different_provider"
  ELSE IF to.model \notin Priced THEN "no_price_entry"
  ELSE IF Lacks(c, to.model) THEN "incompatible"
  ELSE IF WorstCase(to.model, PreferredTokens(c)) >= PreferredEstimate(c) THEN "not_cheaper"
  ELSE "eligible"

\* Fault: a candidate that is passed over is looked at again.
StandStill(c, reason, blocking) ==
  call' = [call EXCEPT ![c].pc = "considering"]

\* The candidate is left behind; the next one is considered.
PassOver(c, reason, blocking) ==
  call' = [call EXCEPT ![c].pc = "considering",
                       ![c].tried = Append(@, [reason |-> reason, blocking |-> blocking])]

Consider(c) ==
  /\ At(c, "considering") /\ Position(c) <= Length
  /\ LET verdict == Eligibility(c, Position(c)) IN
     IF verdict # "eligible" THEN PassOver(c, verdict, {})
     ELSE GoTo(c, IF Current(c).model = Preferred.model THEN "reserving" ELSE "recounting")
  /\ UNCHANGED <<world, money>>

\* Fault: a substitute is held at the preferred model's count.
CountedOnce(c) == Estimate(Current(c).model, PreferredTokens(c))

\* What is held: the candidate's own count, margin included.
CostNow(c) == Estimate(Current(c).model, Tokens[c][Current(c).model])

\* Another model counts the prompt with its own tokenizer.
Recount(c) ==
  /\ At(c, "recounting")
  /\ GoTo(c, "reserving")
  /\ UNCHANGED <<world, money>>

\* check_fits_in_pristine_window: the outermost is remembered as a denial.
OversizedPassesOver(c) ==
  LET oversized == TooLarge(Current(c).model, CostNow(c)) IN
  /\ At(c, "reserving") /\ oversized # {}
  /\ \E first \in IF oversized \cap Parent # {} THEN oversized \cap Parent ELSE oversized :
       PassOver(c, "window", {first})
  /\ UNCHANGED <<world, money>>

\* Fault: one allocation among the blocking budgets is enough.
AnyAllocation(blocking) == AllowFallback /\ blocking \cap Allocated # {}

\* _may_try_next, for a denial by budgets.
MayTryNext(blocking) == AllowFallback /\ blocking # {} /\ blocking \subseteq Allocated

\* Fault: a fallback claims no key.
ClaimsAtFirst(c) == IF Position(c) = 1 THEN {Key[c]} \cap IdemKey ELSE {}

\* The idempotency slot is part of every attempt's transaction.
Claims(c) == {Key[c]} \cap IdemKey

Blocking(c) == {s \in ScopesOf(Current(c).model) : left[s] < CostNow(c)}
Reserving(c) == At(c, "reserving") /\ TooLarge(Current(c).model, CostNow(c)) = {}
Unclaimed(c) == \A k \in Claims(c) : owner[k] = {}

GrantCandidate(c) ==
  /\ Reserving(c) /\ live /\ Blocking(c) = {} /\ Unclaimed(c)
  /\ left' = [s \in Scope |->
                left[s] - IF s \in ScopesOf(Current(c).model) THEN CostNow(c) ELSE 0]
  /\ owner' = [k \in IdemKey |-> owner[k] \cup IF k \in Claims(c) THEN {c} ELSE {}]
  /\ grant' = [grant EXCEPT ![c] = [NoGrant EXCEPT !.state = "RESERVED",
                                      !.at = Position(c), !.cost = CostNow(c)]]
  /\ GoTo(c, "granted")
  /\ UNCHANGED world

\* A paused agent or a closed session ends the chain.
DeniedByStatus(c) ==
  /\ Reserving(c) /\ ~live
  /\ GoTo(c, "denied")
  /\ UNCHANGED <<world, money>>

DeniedByBudget(c) ==
  /\ Reserving(c) /\ live /\ Blocking(c) # {}
  /\ IF MayTryNext(Blocking(c)) THEN PassOver(c, "denied", Blocking(c))
     ELSE call' = [call EXCEPT ![c].pc = "denied",
                     ![c].tried = Append(@, [reason |-> "denied", blocking |-> Blocking(c)])]
  /\ UNCHANGED <<world, money>>

\* Only the claim failed: replayed, in flight or unresolved, never another candidate.
Repeated(c) ==
  /\ Reserving(c) /\ live /\ Blocking(c) = {} /\ ~Unclaimed(c)
  /\ GoTo(c, "repeated")
  /\ UNCHANGED <<world, money>>

Contended(c) ==
  /\ Reserving(c)
  /\ GoTo(c, "contended")
  /\ UNCHANGED <<world, money>>

NoEligibleModel(c) ==
  /\ At(c, "considering") /\ Position(c) > Length
  /\ GoTo(c, "denied")
  /\ UNCHANGED <<world, money>>

-----------------------------------------------------------------------------
(* invoke, after the grant *)

MarkDispatched(c) ==
  /\ At(c, "granted")
  /\ grant' = [grant EXCEPT ![c].marked = TRUE]
  /\ GoTo(c, "dispatched")
  /\ UNCHANGED <<left, owner, world>>

\* The adapter is looked up after the mark; a missing one ends the call.
Dispatch(c) ==
  /\ At(c, "dispatched")
  /\ IF Chain[grant[c].at].provider \in active
     THEN /\ grant' = [grant EXCEPT ![c].sent = TRUE]
          /\ GoTo(c, "invoked")
     ELSE /\ UNCHANGED grant
          /\ GoTo(c, "broken")
  /\ UNCHANGED <<left, owner, world>>

\* Settlement returns the part of the hold that was not spent.
GiveBack(c, spent) ==
  left' = [s \in Scope |-> left[s] + IF s \in ScopesOf(Chain[grant[c].at].model)
                                     THEN grant[c].cost - spent ELSE 0]

Settle(c) ==
  /\ At(c, "invoked")
  /\ \/ /\ GiveBack(c, grant[c].cost)
        /\ grant' = [grant EXCEPT ![c].state = "RECONCILED"]
        /\ GoTo(c, "settled")
     \/ /\ GiveBack(c, 0)
        /\ grant' = [grant EXCEPT ![c].state = "RELEASED"]
        /\ GoTo(c, "rejected")
     \/ /\ grant' = [grant EXCEPT ![c].state = "RECONCILE_PENDING"]
        /\ GoTo(c, "unresolved")
        /\ UNCHANGED left
  /\ UNCHANGED <<owner, world>>

-----------------------------------------------------------------------------
(* The world around the calls *)

EnableProvider(p) == /\ p \notin active
                     /\ active' = active \cup {p}
                     /\ UNCHANGED <<requireSameProvider, live, money, call>>
DisableProvider(p) == /\ p \in active
                      /\ active' = active \ {p}
                      /\ UNCHANGED <<requireSameProvider, live, money, call>>
\* The agent is paused, or the session closed.
Stop == /\ live
        /\ live' = FALSE
        /\ UNCHANGED <<requireSameProvider, active, money, call>>

Init ==
  /\ requireSameProvider \in BOOLEAN
  /\ left = Limit
  /\ live = TRUE
  /\ active \in SUBSET Provider
  /\ owner = [k \in IdemKey |-> {}]
  /\ grant = [c \in Call |-> NoGrant]
  /\ call = [c \in Call |-> [pc |-> "idle", tried |-> <<>>]]

Step(c) ==
  \/ FindAdapter(c) \/ CountPreferred(c) \/ Consider(c) \/ Recount(c)
  \/ OversizedPassesOver(c) \/ GrantCandidate(c) \/ DeniedByStatus(c)
  \/ DeniedByBudget(c) \/ Repeated(c) \/ Contended(c) \/ NoEligibleModel(c)
  \/ MarkDispatched(c) \/ Dispatch(c) \/ Settle(c)

Next == \/ \E c \in Call : Step(c)
        \/ \E p \in Provider : EnableProvider(p) \/ DisableProvider(p)
        \/ Stop

\* Every call is a coroutine its gateway keeps running.
Spec == Init /\ [][Next]_vars /\ \A c \in Call : WF_vars(Step(c))

-----------------------------------------------------------------------------
(* Properties *)

\* Shapes.  In particular what a budget has left never goes below zero.
TypeOK ==
  /\ left \in [Scope -> Nat]
  /\ requireSameProvider \in BOOLEAN
  /\ live \in BOOLEAN /\ active \subseteq Provider
  /\ owner \in [IdemKey -> SUBSET Call]
  /\ grant \in [Call -> Grant \cup {NoGrant}]
  /\ call \in [Call -> [pc : Pc, tried : Seq(Verdict)]]
  /\ \A c \in Call : Len(call[c].tried) <= Length

Holding(s) == {c \in Call : /\ grant[c].state \in {"RESERVED", "RECONCILED", "RECONCILE_PENDING"}
                            /\ s \in ScopesOf(Chain[grant[c].at].model)}
Held(s) == SumFunctionOnSet([c \in Call |-> grant[c].cost], Holding(s))

\* Whichever candidates the calls end up with, every budget accounts for
\* exactly what was granted under it: a substitute is held and given back at
\* its own cost, on its own allocation.
BudgetsAccountForGrants == \A s \in Scope : left[s] + Held(s) = Limit[s]

\* A substitute is granted only when every earlier transaction was refused by
\* allocations alone: an exhausted team, agent or session is not routed around.
FallbackEscapesOnlyAllocations ==
  \A c \in Call : grant[c] # NoGrant =>
    \A i \in 1 .. grant[c].at - 1 :
      call[c].tried[i].reason = "denied" => call[c].tried[i].blocking \subseteq Allocated

\* The attempts of all calls that share an idempotency key, over all their
\* candidates, leave one reservation and reach one provider.
OneGrantPerKey ==
  \A k \in IdemKey : Cardinality({c \in Call : Key[c] = k /\ grant[c] # NoGrant}) <= 1

\* The hold covers the worst the granted model may cost for this prompt,
\* whatever other model the chain was priced with.
HoldCoversCandidate ==
  \A c \in Call : grant[c] # NoGrant =>
    LET m == Chain[grant[c].at].model IN grant[c].cost >= WorstCase(m, Tokens[c][m])

\* The chain is finite: every call is answered.
CallsAreAnswered == \A c \in Call : <>(call[c].pc \in Answer)

\* A candidate that does not fit a parent budget ends the chain, as the
\* module's first rule has it: no later candidate is granted.
ParentsStopTheChain ==
  \A c \in Call : grant[c] # NoGrant =>
    \A i \in 1 .. grant[c].at - 1 : call[c].tried[i].blocking \cap Parent = {}

\* A substitute is held for less than the preferred model would have been.
SubstitutesAreCheaper ==
  \A c \in Call : grant[c].at > 1 => grant[c].cost < PreferredEstimate(c)

\* A substitute's context window holds the prompt as that model counts it.
SubstitutesFit ==
  \A c \in Call : grant[c].at > 1 =>
    LET m == Chain[grant[c].at].model IN Tokens[c][m] <= Context[m]

\* A call that was marked dispatched is on its way to a provider, or was there.
MarkedCallsAreSent ==
  \A c \in Call : grant[c].marked /\ At(c, "broken") => grant[c].sent
-----------------------------------------------------------------------------
(* What the properties rest on, kept by every step *)

\* A call has a reservation from the grant on, of the candidate it stopped at
\* and at that candidate's own price, unsettled until the provider answers.
GrantsFollowCalls ==
  \A c \in Call :
    /\ call[c].pc \in {"recounting", "reserving"} => Position(c) <= Length
    /\ call[c].pc \in {"granted", "dispatched", "invoked"} => grant[c].state = "RESERVED"
    /\ grant[c] # NoGrant =>
         /\ call[c].pc \in {"granted", "dispatched", "invoked", "settled", "rejected",
                            "unresolved", "broken"}
         /\ grant[c].at = Position(c)
         /\ grant[c].cost = CostNow(c)

\* Only a call that is denied for good was refused by anything but allocations.
DenialsAreByAllocations ==
  \A c \in Call : ~At(c, "denied") =>
    \A i \in 1 .. Len(call[c].tried) :
      call[c].tried[i].reason = "denied" => call[c].tried[i].blocking \subseteq Allocated

\* A granted call is the only one that claimed its key.
ClaimsAreExclusive ==
  \A c \in Call : grant[c] # NoGrant /\ Key[c] \in IdemKey => owner[Key[c]] = {c}

\* However many calls there may be, finitely many were granted so far.
FinitelyManyGrants == IsFiniteSet({c \in Call : grant[c] # NoGrant})

\* The inductive invariant.
Routed == /\ TypeOK
          /\ GrantsFollowCalls
          /\ DenialsAreByAllocations
          /\ ClaimsAreExclusive
          /\ FinitelyManyGrants
          /\ BudgetsAccountForGrants
================================================================================
