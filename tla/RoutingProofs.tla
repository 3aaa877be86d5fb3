----------------------------- MODULE RoutingProofs -----------------------------
(***************************************************************************)
(* Proofs about model routing, for every chain, policy, price list and any *)
(* number of calls: a substitute is granted only past refusals by          *)
(* allocations, once per idempotency key, at a hold that covers it, and    *)
(* every budget accounts for what was granted under it.                    *)
(***************************************************************************)
EXTENDS Routing, Sums

-----------------------------------------------------------------------------
(* Prices *)

\* Nothing costs less than nothing.
LEMMA WorstCaseType ==
  ASSUME NEW m \in Model, NEW tokens \in Nat
  PROVE  WorstCase(m, tokens) \in Nat
<1>1. ASSUME NEW a \in Nat, NEW b \in Nat PROVE a * b \in Nat
  OBVIOUS
<1>2. Rate[m] \in Nat /\ tokens + Output[m] \in Nat
  BY PriceAssumption
<1>. QED
  BY <1>1, <1>2 DEF WorstCase

\* A margin, rounded up, never takes anything off.
LEMMA MarginAdds ==
  ASSUME NEW w \in Nat, NEW margin \in Nat
  PROVE  /\ CeilDiv(w * (10000 + margin), 10000) \in Nat
         /\ CeilDiv(w * (10000 + margin), 10000) >= w
<1>. DEFINE p == w * (10000 + margin)
<1>1. w * margin \in Nat
  OBVIOUS
<1>2. p = 10000 * w + w * margin
  OBVIOUS
<1>3. p \in Nat /\ p >= 10000 * w
  BY <1>1, <1>2
<1>. HIDE DEF p
<1>4. CeilDiv(p, 10000) \in Nat /\ CeilDiv(p, 10000) >= w
  BY <1>3 DEF CeilDiv
<1>. QED
  BY <1>4 DEF p

\* An estimate covers the worst case, with or without a margin.
LEMMA EstimateCovers ==
  ASSUME NEW m \in Model, NEW tokens \in Nat
  PROVE  Estimate(m, tokens) \in Nat /\ Estimate(m, tokens) >= WorstCase(m, tokens)
<1>1. WorstCase(m, tokens) \in Nat /\ SafetyBps \in Nat
  BY WorstCaseType, PriceAssumption
<1>. QED
  BY <1>1, MarginAdds DEF Estimate

\* The chain a policy allows is a part of the configured one.
LEMMA LengthType == Length \in Nat /\ Length <= Len(Chain)
<1>1. Len(Chain) \in Nat /\ Len(Chain) >= 1
  BY ChainAssumption
<1>. QED
  BY <1>1, PolicyAssumption DEF Length

\* A call within its chain looks at a model, and counts with its tokenizer.
LEMMA CurrentIsModel ==
  ASSUME TypeOK, NEW c \in Call, Position(c) <= Length
  PROVE  /\ Position(c) \in 1 .. Length
         /\ Current(c).model \in Model
         /\ Tokens[c][Current(c).model] \in Nat
         /\ CostNow(c) \in Nat
<1>1. Position(c) \in 1 .. Length
  BY DEF TypeOK, Position
<1>2. Position(c) \in 1 .. Len(Chain)
  BY <1>1, LengthType
<1>3. Current(c) \in Candidate
  BY <1>2, ChainAssumption DEF Current
<1>4. Current(c).model \in Model
  BY <1>3 DEF Candidate
<1>5. Tokens[c][Current(c).model] \in Nat
  BY <1>4, TokensAssumption
<1>. QED
  BY <1>1, <1>4, <1>5, EstimateCovers DEF CostNow

-----------------------------------------------------------------------------
(* How a step moves a call along *)

CallType == [pc : Pc, tried : Seq(Verdict)]

\* A call that goes on keeps what it tried.
LEMMA Goes ==
  ASSUME call \in [Call -> CallType], NEW c \in Call, NEW where \in Pc, GoTo(c, where)
  PROVE  /\ call' \in [Call -> CallType]
         /\ call'[c].pc = where /\ call'[c].tried = call[c].tried
         /\ \A b \in Call \ {c} : call'[b] = call[b]
BY DEF GoTo, CallType

\* Call c leaves a candidate behind, for reason v.
Leaves(c, where, v) ==
  call' = [call EXCEPT ![c].pc = where, ![c].tried = Append(@, v)]

\* A call that leaves a candidate behind remembers why, and looks at the next.
LEMMA Remembers ==
  ASSUME call \in [Call -> CallType], NEW c \in Call, NEW where \in Pc, NEW v \in Verdict,
         Leaves(c, where, v)
  PROVE  /\ call' \in [Call -> CallType]
         /\ call'[c].pc = where /\ call'[c].tried = Append(call[c].tried, v)
         /\ Len(call'[c].tried) = Len(call[c].tried) + 1
         /\ call'[c].tried[Len(call[c].tried) + 1] = v
         /\ \A i \in 1 .. Len(call[c].tried) : call'[c].tried[i] = call[c].tried[i]
         /\ \A b \in Call \ {c} : call'[b] = call[b]
<1>1. call[c] \in CallType /\ call[c].tried \in Seq(Verdict)
  BY DEF CallType
<1>2. Append(call[c].tried, v) \in Seq(Verdict)
  BY <1>1
<1>3. call'[c] = [pc |-> where, tried |-> Append(call[c].tried, v)]
  BY <1>1 DEF CallType, Leaves
<1>4. call'[c] \in CallType
  BY <1>2, <1>3 DEF CallType
<1>5. \A b \in Call \ {c} : call'[b] = call[b]
  BY DEF Leaves
<1>6. call' \in [Call -> CallType]
  BY <1>4, <1>5 DEF Leaves
<1>. QED
  BY <1>1, <1>3, <1>5, <1>6

\* What a candidate was passed over for is a verdict.
LEMMA VerdictTypes ==
  /\ \A c \in Call, at \in 1 .. Length :
       Eligibility(c, at) # "eligible" =>
         [reason |-> Eligibility(c, at), blocking |-> {}] \in Verdict
  /\ \A c \in Call : \A s \in ScopesOf(Current(c).model) :
       [reason |-> "window", blocking |-> {s}] \in Verdict
  /\ \A c \in Call : [reason |-> "denied", blocking |-> Blocking(c)] \in Verdict
BY DEF Eligibility, Verdict, Reason, ScopesOf, Scope, Blocking

\* The places a call may stand at.
LEMMA PcTypes ==
  /\ {"idle", "counting", "considering", "recounting", "reserving", "granted",
      "dispatched", "invoked"} \subseteq Pc
  /\ {"unconfigured", "denied", "contended", "repeated", "settled", "rejected",
      "unresolved", "broken"} \subseteq Pc
BY DEF Pc, Answer

\* The steps that only go on to another place, without money.
Walks(c) == FindAdapter(c) \/ CountPreferred(c) \/ Recount(c) \/ DeniedByStatus(c)
            \/ Repeated(c) \/ Contended(c) \/ NoEligibleModel(c)

\* Where such a step may lead from.
LEMMA WalkGoes ==
  ASSUME TypeOK, NEW c \in Call, Walks(c)
  PROVE  \E where \in {"counting", "unconfigured", "considering", "reserving", "denied",
                       "repeated", "contended"} :
           /\ GoTo(c, where)
           /\ where = "reserving" => At(c, "recounting")
           /\ call[c].pc \in {"idle", "counting", "considering", "recounting", "reserving"}
           /\ UNCHANGED <<world, money>>
BY DEF Walks, FindAdapter, CountPreferred, Recount, DeniedByStatus, Repeated, Contended,
       NoEligibleModel, Reserving, At

\* The steps that leave a candidate behind.
LEMMA PassOverRemembers ==
  ASSUME TypeOK, NEW c \in Call,
         \/ Consider(c) /\ Eligibility(c, Position(c)) # "eligible"
         \/ OversizedPassesOver(c)
         \/ DeniedByBudget(c)
  PROVE  \E where \in {"considering", "denied"}, v \in Verdict :
           /\ Leaves(c, where, v)
           /\ v.reason = "denied" /\ where # "denied" => v.blocking \subseteq Allocated
           /\ call[c].pc \in {"considering", "reserving"}
           /\ call[c].pc = "considering" => Position(c) <= Length
           /\ UNCHANGED <<world, money>>
<1>1. CASE Consider(c) /\ Eligibility(c, Position(c)) # "eligible"
  <2>. DEFINE v == [reason |-> Eligibility(c, Position(c)), blocking |-> {}]
  <2>1. Position(c) \in 1 .. Length
    BY <1>1, CurrentIsModel DEF Consider
  <2>2. v \in Verdict
    BY <1>1, <2>1, VerdictTypes
  <2>3. Leaves(c, "considering", v)
    BY <1>1 DEF Consider, PassOver, Leaves
  <2>4. v.blocking \subseteq Allocated
    OBVIOUS
  <2>5. /\ call[c].pc = "considering" /\ Position(c) <= Length
        /\ UNCHANGED <<world, money>>
    BY <1>1 DEF Consider, At
  <2>. HIDE DEF v
  <2>. QED
    BY <2>2, <2>3, <2>4, <2>5
<1>2. CASE OversizedPassesOver(c)
  <2>1. PICK s \in ScopesOf(Current(c).model) : PassOver(c, "window", {s})
    BY <1>2 DEF OversizedPassesOver, TooLarge
  <2>. DEFINE v == [reason |-> "window", blocking |-> {s}]
  <2>2. v \in Verdict
    BY VerdictTypes
  <2>3. Leaves(c, "considering", v)
    BY <2>1 DEF PassOver, Leaves
  <2>4. v.reason # "denied" /\ call[c].pc = "reserving" /\ UNCHANGED <<world, money>>
    BY <1>2 DEF OversizedPassesOver, At
  <2>. HIDE DEF v
  <2>. QED
    BY <2>2, <2>3, <2>4
<1>3. CASE DeniedByBudget(c)
  <2>. DEFINE v == [reason |-> "denied", blocking |-> Blocking(c)]
  <2>1. v \in Verdict
    BY VerdictTypes
  <2>2. call[c].pc = "reserving" /\ UNCHANGED <<world, money>>
    BY <1>3 DEF DeniedByBudget, Reserving, At
  <2>3. CASE MayTryNext(Blocking(c))
    <3>1. Leaves(c, "considering", v)
      BY <1>3, <2>3 DEF DeniedByBudget, PassOver, Leaves
    <3>2. v.blocking \subseteq Allocated
      BY <2>3 DEF MayTryNext
    <3>. HIDE DEF v
    <3>. QED
      BY <2>1, <2>2, <3>1, <3>2
  <2>4. CASE ~MayTryNext(Blocking(c))
    <3>1. Leaves(c, "denied", v)
      BY <1>3, <2>4 DEF DeniedByBudget, Leaves
    <3>. HIDE DEF v
    <3>. QED
      BY <2>1, <2>2, <3>1
  <2>. QED
    BY <2>3, <2>4
<1>. QED
  BY <1>1, <1>2, <1>3

-----------------------------------------------------------------------------
(* The steps, by what they do *)

\* Before the grant.
Early == {"idle", "counting", "considering", "recounting", "reserving"}

\* After it.
Late == {"granted", "dispatched", "invoked", "settled", "rejected", "unresolved", "broken"}

\* A step before the grant, to another place of the same candidate or to an answer.
GoesOn(c) ==
  \E where \in {"counting", "unconfigured", "considering", "recounting", "reserving",
                "denied", "repeated", "contended"} :
    GoTo(c, where) /\ (where \in {"recounting", "reserving"} => Position(c) <= Length)

\* A step before the grant that leaves a candidate behind.
LeavesBehind(c) ==
  \E where \in {"considering", "denied"}, v \in Verdict :
    /\ Leaves(c, where, v)
    /\ v.reason = "denied" /\ where # "denied" => v.blocking \subseteq Allocated
    /\ Position(c) <= Length

\* What a step of a call may be.
LEMMA StepKinds ==
  ASSUME TypeOK, GrantsFollowCalls, NEW c \in Call, Step(c)
  PROVE  \/ /\ GoesOn(c) \/ LeavesBehind(c)
            /\ call[c].pc \in Early /\ UNCHANGED <<world, money>>
         \/ GrantCandidate(c)
         \/ MarkDispatched(c) \/ Dispatch(c) \/ Settle(c)
<1>1. CASE Walks(c)
  <2>1. PICK where \in {"counting", "unconfigured", "considering", "reserving", "denied",
                        "repeated", "contended"} :
          /\ GoTo(c, where)
          /\ where = "reserving" => At(c, "recounting")
          /\ call[c].pc \in Early /\ UNCHANGED <<world, money>>
    BY <1>1, WalkGoes DEF Early
  <2>2. where = "reserving" => Position(c) <= Length
    BY <2>1 DEF GrantsFollowCalls, At
  <2>3. GoesOn(c)
    BY <2>1, <2>2 DEF GoesOn
  <2>. QED
    BY <2>1, <2>3
<1>2. CASE Consider(c) /\ Eligibility(c, Position(c)) = "eligible"
  <2>1. GoesOn(c)
    BY <1>2 DEF Consider, GoesOn
  <2>. QED
    BY <1>2, <2>1 DEF Consider, At, Early
<1>3. CASE \/ Consider(c) /\ Eligibility(c, Position(c)) # "eligible"
           \/ OversizedPassesOver(c)
           \/ DeniedByBudget(c)
  <2>1. PICK where \in {"considering", "denied"}, v \in Verdict :
          /\ Leaves(c, where, v)
          /\ v.reason = "denied" /\ where # "denied" => v.blocking \subseteq Allocated
          /\ call[c].pc \in {"considering", "reserving"}
          /\ call[c].pc = "considering" => Position(c) <= Length
          /\ UNCHANGED <<world, money>>
    BY <1>3, PassOverRemembers
  <2>2. Position(c) <= Length
    BY <2>1 DEF GrantsFollowCalls
  <2>3. LeavesBehind(c)
    BY <2>1, <2>2 DEF LeavesBehind
  <2>. QED
    BY <2>1, <2>3 DEF Early
<1>. QED
  BY <1>1, <1>2, <1>3 DEF Step, Walks

\* Where the steps before the grant leave the calls.
LEMMA EarlySteps ==
  ASSUME TypeOK, NEW c \in Call, GoesOn(c) \/ LeavesBehind(c)
  PROVE  /\ call' \in [Call -> CallType]
         /\ \A b \in Call \ {c} : call'[b] = call[b]
         /\ call'[c].pc \in Pc \ Late
         /\ Len(call'[c].tried) <= Length
         /\ call'[c].pc \in {"recounting", "reserving"} => Position(c)' <= Length
         /\ \/ call'[c].tried = call[c].tried
            \/ \E v \in Verdict :
                 /\ Len(call'[c].tried) = Len(call[c].tried) + 1
                 /\ call'[c].tried[Len(call[c].tried) + 1] = v
                 /\ \A i \in 1 .. Len(call[c].tried) :
                      call'[c].tried[i] = call[c].tried[i]
                 /\ v.reason = "denied" /\ call'[c].pc # "denied" =>
                      v.blocking \subseteq Allocated
<1>. call \in [Call -> CallType] /\ Len(call[c].tried) <= Length
     /\ Len(call[c].tried) \in Nat /\ Length \in Nat
  BY LengthType DEF TypeOK, CallType
<1>1. CASE GoesOn(c)
  <2>1. PICK where \in {"counting", "unconfigured", "considering", "recounting",
                        "reserving", "denied", "repeated", "contended"} :
          GoTo(c, where) /\ (where \in {"recounting", "reserving"} => Position(c) <= Length)
    BY <1>1 DEF GoesOn
  <2>2. where \in Pc \ Late
    BY PcTypes DEF Late
  <2>3. /\ call' \in [Call -> CallType]
        /\ call'[c].pc = where /\ call'[c].tried = call[c].tried
        /\ \A b \in Call \ {c} : call'[b] = call[b]
    BY <2>1, <2>2, Goes
  <2>. QED
    BY <2>1, <2>2, <2>3 DEF Position
<1>2. CASE LeavesBehind(c)
  <2>1. PICK where \in {"considering", "denied"}, v \in Verdict :
          /\ Leaves(c, where, v)
          /\ v.reason = "denied" /\ where # "denied" => v.blocking \subseteq Allocated
          /\ Position(c) <= Length
    BY <1>2 DEF LeavesBehind
  <2>2. where \in Pc \ Late
    BY PcTypes DEF Late
  <2>3. /\ call' \in [Call -> CallType]
        /\ call'[c].pc = where
        /\ Len(call'[c].tried) = Len(call[c].tried) + 1
        /\ call'[c].tried[Len(call[c].tried) + 1] = v
        /\ \A i \in 1 .. Len(call[c].tried) : call'[c].tried[i] = call[c].tried[i]
        /\ \A b \in Call \ {c} : call'[b] = call[b]
    BY <2>1, <2>2, Remembers
  <2>4. Len(call'[c].tried) <= Length
    BY <2>1, <2>3 DEF Position
  <2>. QED
    BY <2>1, <2>2, <2>3, <2>4
<1>. QED
  BY <1>1, <1>2

\* What a grant enters.
LEMMA GrantEnters ==
  ASSUME TypeOK, GrantsFollowCalls, NEW c \in Call, GrantCandidate(c)
  PROVE  /\ grant[c] = NoGrant
         /\ grant' \in [Call -> Grant \cup {NoGrant}]
         /\ grant'[c].state = "RESERVED" /\ grant'[c].at = Position(c)
         /\ grant'[c].cost = CostNow(c) /\ CostNow(c) \in Nat
         /\ \A b \in Call \ {c} : grant'[b] = grant[b]
         /\ call' \in [Call -> CallType]
         /\ call'[c].pc = "granted" /\ call'[c].tried = call[c].tried
         /\ \A b \in Call \ {c} : call'[b] = call[b]
         /\ call[c].pc = "reserving"
<1>1. call[c].pc = "reserving" /\ Position(c) <= Length
  BY DEF GrantCandidate, Reserving, At, GrantsFollowCalls
<1>2. Position(c) \in 1 .. Length /\ CostNow(c) \in Nat
  BY <1>1, CurrentIsModel
<1>3. grant[c] = NoGrant
  BY <1>1 DEF GrantsFollowCalls
<1>4. grant \in [Call -> Grant \cup {NoGrant}] /\ call \in [Call -> CallType]
  BY DEF TypeOK, CallType
<1>. DEFINE held == [NoGrant EXCEPT !.state = "RESERVED", !.at = Position(c),
                                    !.cost = CostNow(c)]
<1>5. /\ held \in Grant
      /\ held.state = "RESERVED" /\ held.at = Position(c) /\ held.cost = CostNow(c)
  BY <1>2 DEF Grant, NoGrant
<1>6. grant' = [grant EXCEPT ![c] = held]
  BY DEF GrantCandidate
<1>7. GoTo(c, "granted")
  BY DEF GrantCandidate
<1>8. /\ call' \in [Call -> CallType]
      /\ call'[c].pc = "granted" /\ call'[c].tried = call[c].tried
      /\ \A b \in Call \ {c} : call'[b] = call[b]
  BY <1>4, <1>7, Goes, PcTypes
<1>. HIDE DEF held
<1>. QED
  BY <1>1, <1>2, <1>3, <1>4, <1>5, <1>6, <1>8

\* What the steps after the grant change of the reservation.
LEMMA LateSteps ==
  ASSUME TypeOK, GrantsFollowCalls, NEW c \in Call,
         MarkDispatched(c) \/ Dispatch(c) \/ Settle(c)
  PROVE  /\ grant[c] \in Grant /\ grant[c].state = "RESERVED"
         /\ grant' \in [Call -> Grant \cup {NoGrant}] /\ grant'[c] \in Grant
         /\ grant'[c].at = grant[c].at /\ grant'[c].cost = grant[c].cost
         /\ \A b \in Call \ {c} : grant'[b] = grant[b]
         /\ call' \in [Call -> CallType]
         /\ call'[c].pc \in Late /\ call'[c].tried = call[c].tried
         /\ call'[c].pc \in {"granted", "dispatched", "invoked"} =>
              grant'[c].state = "RESERVED"
         /\ \A b \in Call \ {c} : call'[b] = call[b]
         /\ call[c].pc \in Late
         /\ owner' = owner
         /\ UNCHANGED world
         /\ \/ grant'[c].state \in {"RESERVED", "RECONCILED", "RECONCILE_PENDING"}
               /\ left' = left
            \/ /\ grant'[c].state = "RELEASED"
               /\ left' = [s \in Scope |-> left[s] + IF s \in ScopesOf(Chain[grant[c].at].model)
                                                     THEN grant[c].cost ELSE 0]
<1>1. call[c].pc \in {"granted", "dispatched", "invoked"}
  BY DEF MarkDispatched, Dispatch, Settle, At
<1>2. grant[c].state = "RESERVED"
  BY <1>1 DEF GrantsFollowCalls
<1>3. grant[c] \in Grant
  BY <1>2 DEF TypeOK, NoGrant
<1>4. /\ grant \in [Call -> Grant \cup {NoGrant}] /\ call \in [Call -> CallType]
      /\ left \in [Scope -> Nat]
  BY DEF TypeOK, CallType
<1>5. \A where \in Pc : GoTo(c, where) =>
        /\ call' \in [Call -> CallType]
        /\ call'[c].pc = where /\ call'[c].tried = call[c].tried
        /\ \A b \in Call \ {c} : call'[b] = call[b]
  BY <1>4, Goes
<1>6. CASE MarkDispatched(c)
  <2>1. GoTo(c, "dispatched") /\ grant' = [grant EXCEPT ![c].marked = TRUE]
        /\ UNCHANGED <<left, owner, world>>
    BY <1>6 DEF MarkDispatched
  <2>. QED
    BY <1>1, <1>2, <1>3, <1>4, <1>5, <2>1, PcTypes DEF Grant, Late
<1>7. CASE Dispatch(c)
  <2>1. \/ GoTo(c, "invoked") /\ grant' = [grant EXCEPT ![c].sent = TRUE]
        \/ GoTo(c, "broken") /\ grant' = grant
    BY <1>7 DEF Dispatch
  <2>2. UNCHANGED <<left, owner, world>>
    BY <1>7 DEF Dispatch
  <2>3. CASE GoTo(c, "invoked") /\ grant' = [grant EXCEPT ![c].sent = TRUE]
    BY <1>1, <1>2, <1>3, <1>4, <1>5, <2>2, <2>3, PcTypes DEF Grant, Late
  <2>4. CASE GoTo(c, "broken") /\ grant' = grant
    BY <1>1, <1>2, <1>3, <1>4, <1>5, <2>2, <2>4, PcTypes DEF Late
  <2>. QED
    BY <2>1, <2>3, <2>4
<1>8. CASE Settle(c)
  <2>. DEFINE own == ScopesOf(Chain[grant[c].at].model)
  <2>1. UNCHANGED <<owner, world>>
    BY <1>8 DEF Settle
  <2>2. grant[c].cost \in Nat
    BY <1>3 DEF Grant
  <2>3. CASE GiveBack(c, grant[c].cost) /\ grant' = [grant EXCEPT ![c].state = "RECONCILED"]
             /\ GoTo(c, "settled")
    <3>1. left' = left
      BY <1>4, <2>2, <2>3 DEF GiveBack
    <3>. QED
      BY <1>1, <1>2, <1>3, <1>4, <1>5, <2>1, <2>3, <3>1, PcTypes DEF Grant, Late
  <2>4. CASE GiveBack(c, 0) /\ grant' = [grant EXCEPT ![c].state = "RELEASED"]
             /\ GoTo(c, "rejected")
    <3>1. left' = [s \in Scope |-> left[s] + IF s \in own THEN grant[c].cost ELSE 0]
      BY <1>4, <2>2, <2>4 DEF GiveBack
    <3>. QED
      BY <1>1, <1>2, <1>3, <1>4, <1>5, <2>1, <2>4, <3>1, PcTypes DEF Grant, Late
  <2>5. CASE /\ grant' = [grant EXCEPT ![c].state = "RECONCILE_PENDING"]
             /\ GoTo(c, "unresolved") /\ UNCHANGED left
    BY <1>1, <1>2, <1>3, <1>4, <1>5, <2>1, <2>5, PcTypes DEF Grant, Late
  <2>. QED
    BY <1>8, <2>3, <2>4, <2>5 DEF Settle
<1>. QED
  BY <1>6, <1>7, <1>8

-----------------------------------------------------------------------------
(* Every step keeps the invariant *)

\* The world around the calls changes neither them nor their money.
LEMMA WorldSteps ==
  ASSUME TypeOK, [Next]_vars
  PROVE  \/ \E c \in Call : Step(c)
         \/ /\ UNCHANGED <<requireSameProvider, money, call>>
            /\ live' \in BOOLEAN /\ active' \subseteq Provider
BY DEF Next, EnableProvider, DisableProvider, Stop, vars, money, world, TypeOK

\* Types are kept; in particular nothing is held that is not left.
LEMMA NextTypeOK == TypeOK /\ GrantsFollowCalls /\ [Next]_vars => TypeOK'
<1>. SUFFICES ASSUME TypeOK, GrantsFollowCalls, [Next]_vars PROVE TypeOK'
  OBVIOUS
<1>. USE DEF CallType
<1>1. CASE /\ UNCHANGED <<requireSameProvider, money, call>>
           /\ live' \in BOOLEAN /\ active' \subseteq Provider
  BY <1>1 DEF TypeOK, money
<1>2. ASSUME NEW c \in Call, GoesOn(c) \/ LeavesBehind(c), UNCHANGED <<world, money>>
      PROVE  TypeOK'
  BY <1>2, EarlySteps DEF TypeOK, world, money
<1>3. ASSUME NEW c \in Call, GrantCandidate(c) PROVE TypeOK'
  <2>1. left' \in [Scope -> Nat]
    <3>1. \A s \in ScopesOf(Current(c).model) : left[s] >= CostNow(c)
      <4>1. CostNow(c) \in Nat
        BY <1>3, GrantEnters
      <4>2. \A s \in ScopesOf(Current(c).model) : s \in Scope
        BY DEF ScopesOf, Scope
      <4>3. \A s \in ScopesOf(Current(c).model) : ~(left[s] < CostNow(c))
        BY <1>3 DEF GrantCandidate, Blocking
      <4>. QED
        BY <4>1, <4>2, <4>3 DEF TypeOK
    <3>2. CostNow(c) \in Nat /\ left \in [Scope -> Nat]
      BY <1>3, GrantEnters DEF TypeOK
    <3>3. ASSUME NEW s \in Scope
          PROVE  left[s] - (IF s \in ScopesOf(Current(c).model) THEN CostNow(c) ELSE 0)
                   \in Nat
      BY <3>1, <3>2
    <3>4. left' = [s \in Scope |-> left[s] - IF s \in ScopesOf(Current(c).model)
                                             THEN CostNow(c) ELSE 0]
      BY <1>3 DEF GrantCandidate
    <3>. QED
      BY <3>3, <3>4
  <2>2. owner' \in [IdemKey -> SUBSET Call]
    BY <1>3 DEF GrantCandidate, TypeOK
  <2>3. UNCHANGED world
    BY <1>3 DEF GrantCandidate
  <2>. QED
    BY <1>3, <2>1, <2>2, <2>3, GrantEnters DEF TypeOK, world
<1>4. ASSUME NEW c \in Call, MarkDispatched(c) \/ Dispatch(c) \/ Settle(c)
      PROVE  TypeOK'
  <2>1. left' \in [Scope -> Nat]
    <3>1. left \in [Scope -> Nat] /\ grant[c].cost \in Nat
      BY <1>4, LateSteps DEF TypeOK, Grant
    <3>2. \/ left' = left
          \/ left' = [s \in Scope |-> left[s] + IF s \in ScopesOf(Chain[grant[c].at].model)
                                                THEN grant[c].cost ELSE 0]
      BY <1>4, LateSteps
    <3>3. ASSUME NEW s \in Scope
          PROVE  left[s] + (IF s \in ScopesOf(Chain[grant[c].at].model)
                            THEN grant[c].cost ELSE 0) \in Nat
      BY <3>1
    <3>. QED
      BY <3>1, <3>2, <3>3
  <2>. QED
    BY <1>4, <2>1, LateSteps DEF TypeOK, world
<1>. QED
  BY <1>1, <1>2, <1>3, <1>4, WorldSteps, StepKinds

\* Calls and grants stay in step.
LEMMA NextGrantsFollowCalls ==
  TypeOK /\ GrantsFollowCalls /\ [Next]_vars => GrantsFollowCalls'
<1>. SUFFICES ASSUME TypeOK, GrantsFollowCalls, [Next]_vars, NEW b \in Call
              PROVE  /\ call'[b].pc \in {"recounting", "reserving"} => Position(b)' <= Length
                     /\ call'[b].pc \in {"granted", "dispatched", "invoked"} =>
                          grant'[b].state = "RESERVED"
                     /\ grant'[b] # NoGrant => /\ call'[b].pc \in Late
                                               /\ grant'[b].at = Position(b)'
                                               /\ grant'[b].cost = CostNow(b)'
  BY DEF GrantsFollowCalls, Late
<1>1. /\ call[b].pc \in {"recounting", "reserving"} => Position(b) <= Length
      /\ call[b].pc \in {"granted", "dispatched", "invoked"} => grant[b].state = "RESERVED"
      /\ grant[b] # NoGrant => /\ call[b].pc \in Late
                               /\ grant[b].at = Position(b)
                               /\ grant[b].cost = CostNow(b)
  BY DEF GrantsFollowCalls, Late
<1>2. call'[b].tried = call[b].tried => /\ Position(b)' = Position(b)
                                        /\ CostNow(b)' = CostNow(b)
  BY DEF Position, CostNow, Current
<1>3. CASE call'[b] = call[b] /\ grant'[b] = grant[b]
  BY <1>1, <1>2, <1>3
<1>4. ASSUME NEW c \in Call, GoesOn(c) \/ LeavesBehind(c), call[c].pc \in Early,
             UNCHANGED money, b = c
      PROVE  /\ call'[b].pc \in {"recounting", "reserving"} => Position(b)' <= Length
             /\ grant'[b] = NoGrant /\ call'[b].pc \notin Late
  BY <1>1, <1>4, EarlySteps DEF money, Early, Late
<1>5. ASSUME NEW c \in Call, GrantCandidate(c), b = c
      PROVE  /\ call'[b].pc = "granted" /\ call'[b].tried = call[b].tried
             /\ grant'[b].state = "RESERVED"
             /\ grant'[b].at = Position(b) /\ grant'[b].cost = CostNow(b)
  BY <1>5, GrantEnters
<1>6. ASSUME NEW c \in Call, MarkDispatched(c) \/ Dispatch(c) \/ Settle(c), b = c
      PROVE  /\ call'[b].pc \in Late /\ call'[b].tried = call[b].tried
             /\ call'[b].pc \in {"granted", "dispatched", "invoked"} =>
                  grant'[b].state = "RESERVED"
             /\ grant'[b].at = Position(b) /\ grant'[b].cost = CostNow(b)
  <2>1. grant[b] # NoGrant
    BY <1>6, LateSteps DEF NoGrant
  <2>. QED
    BY <1>1, <1>6, <2>1, LateSteps
<1>7. CASE UNCHANGED <<requireSameProvider, money, call>>
  BY <1>3, <1>7 DEF money
<1>8. ASSUME NEW c \in Call, Step(c), b # c
      PROVE  call'[b] = call[b] /\ grant'[b] = grant[b]
  BY <1>8, StepKinds, EarlySteps, GrantEnters, LateSteps DEF money
<1>. DEFINE Goal == /\ call'[b].pc \in {"recounting", "reserving"} => Position(b)' <= Length
                    /\ call'[b].pc \in {"granted", "dispatched", "invoked"} =>
                         grant'[b].state = "RESERVED"
                    /\ grant'[b] # NoGrant => /\ call'[b].pc \in Late
                                              /\ grant'[b].at = Position(b)'
                                              /\ grant'[b].cost = CostNow(b)'
<1>9. ASSUME NEW c \in Call, Step(c), b = c PROVE Goal
  <2>1. CASE (GoesOn(c) \/ LeavesBehind(c)) /\ call[c].pc \in Early /\ UNCHANGED money
    BY <1>4, <1>9, <2>1 DEF Late
  <2>2. CASE GrantCandidate(c)
    BY <1>2, <1>5, <1>9, <2>2 DEF Late
  <2>3. CASE MarkDispatched(c) \/ Dispatch(c) \/ Settle(c)
    BY <1>2, <1>6, <1>9, <2>3 DEF Late
  <2>. QED
    BY <1>9, <2>1, <2>2, <2>3, StepKinds
<1>. QED
  BY <1>3, <1>7, <1>8, <1>9, WorldSteps

\* Refusals by anything but allocations end the chain.
LEMMA NextDenials ==
  TypeOK /\ GrantsFollowCalls /\ DenialsAreByAllocations /\ [Next]_vars
    => DenialsAreByAllocations'
<1>. DEFINE Fine(t) == \A i \in 1 .. Len(t) :
                         t[i].reason = "denied" => t[i].blocking \subseteq Allocated
<1>. SUFFICES ASSUME TypeOK, GrantsFollowCalls, DenialsAreByAllocations, [Next]_vars,
                     NEW b \in Call, call'[b].pc # "denied"
              PROVE  Fine(call'[b].tried)
  BY DEF DenialsAreByAllocations, At
<1>1. call[b].pc # "denied" => Fine(call[b].tried)
  BY DEF DenialsAreByAllocations, At
<1>2. CASE call'[b] = call[b]
  BY <1>1, <1>2
<1>3. ASSUME NEW c \in Call, b = c, GoesOn(c) \/ LeavesBehind(c), call[c].pc \in Early
      PROVE  Fine(call'[b].tried)
  <2>1. Fine(call[b].tried)
    BY <1>1, <1>3 DEF Early
  <2>2. CASE call'[b].tried = call[b].tried
    BY <2>1, <2>2
  <2>3. ASSUME NEW v \in Verdict,
               /\ Len(call'[b].tried) = Len(call[b].tried) + 1
               /\ call'[b].tried[Len(call[b].tried) + 1] = v
               /\ \A i \in 1 .. Len(call[b].tried) : call'[b].tried[i] = call[b].tried[i]
               /\ v.reason = "denied" => v.blocking \subseteq Allocated
        PROVE  Fine(call'[b].tried)
    <3>1. call[b].tried \in Seq(Verdict)
      BY DEF TypeOK
    <3>2. Len(call[b].tried) \in Nat
      BY <3>1
    <3>3. ASSUME NEW i \in 1 .. Len(call'[b].tried)
          PROVE  call'[b].tried[i].reason = "denied" =>
                   call'[b].tried[i].blocking \subseteq Allocated
      <4>1. i \in 1 .. Len(call[b].tried) \/ i = Len(call[b].tried) + 1
        BY <2>3, <3>2
      <4>. QED
        BY <2>1, <2>3, <4>1
    <3>. QED
      BY <3>3
  <2>. HIDE DEF Fine
  <2>. QED
    BY <1>3, <2>2, <2>3, EarlySteps
<1>4. ASSUME NEW c \in Call, b = c,
             GrantCandidate(c) \/ MarkDispatched(c) \/ Dispatch(c) \/ Settle(c)
      PROVE  call'[b].tried = call[b].tried /\ call[b].pc # "denied"
  BY <1>4, GrantEnters, LateSteps DEF Late
<1>5. ASSUME NEW c \in Call, Step(c), b # c PROVE call'[b] = call[b]
  BY <1>5, StepKinds, EarlySteps, GrantEnters, LateSteps
<1>6. ASSUME NEW c \in Call, Step(c), b = c PROVE Fine(call'[b].tried)
  BY <1>1, <1>3, <1>4, <1>6, StepKinds
<1>. QED
  BY <1>2, <1>5, <1>6, WorldSteps

\* A key that is claimed is not granted again.
LEMMA NextClaims ==
  TypeOK /\ GrantsFollowCalls /\ ClaimsAreExclusive /\ [Next]_vars => ClaimsAreExclusive'
<1>. SUFFICES ASSUME TypeOK, GrantsFollowCalls, ClaimsAreExclusive, [Next]_vars,
                     NEW b \in Call, grant'[b] # NoGrant, Key[b] \in IdemKey
              PROVE  owner'[Key[b]] = {b}
  BY DEF ClaimsAreExclusive
<1>1. grant[b] # NoGrant => owner[Key[b]] = {b}
  BY DEF ClaimsAreExclusive
<1>2. CASE UNCHANGED money
  BY <1>1, <1>2 DEF money
<1>3. ASSUME NEW c \in Call, GrantCandidate(c) PROVE owner'[Key[b]] = {b}
  <2>1. /\ \A k \in Claims(c) : owner[k] = {}
        /\ owner' = [k \in IdemKey |-> owner[k] \cup IF k \in Claims(c) THEN {c} ELSE {}]
    BY <1>3 DEF GrantCandidate, Unclaimed
  <2>2. CASE b = c
    BY <2>1, <2>2 DEF Claims
  <2>3. CASE b # c
    <3>1. owner[Key[b]] = {b}
      BY <1>1, <1>3, <2>3, GrantEnters
    <3>2. Key[b] \notin Claims(c)
      BY <2>1, <3>1
    <3>. QED
      BY <2>1, <3>1, <3>2
  <2>. QED
    BY <2>2, <2>3
<1>4. ASSUME NEW c \in Call, MarkDispatched(c) \/ Dispatch(c) \/ Settle(c)
      PROVE  owner'[Key[b]] = {b}
  <2>1. grant[b] # NoGrant
    BY <1>4, LateSteps DEF NoGrant
  <2>. QED
    BY <1>1, <1>4, <2>1, LateSteps
<1>. QED
  BY <1>2, <1>3, <1>4, WorldSteps, StepKinds DEF money

\* A step grants one call at most.
LEMMA NextFinitelyMany ==
  TypeOK /\ GrantsFollowCalls /\ FinitelyManyGrants /\ [Next]_vars => FinitelyManyGrants'
<1>. DEFINE S == {c \in Call : grant[c] # NoGrant}
<1>. SUFFICES ASSUME TypeOK, GrantsFollowCalls, IsFiniteSet(S), [Next]_vars
              PROVE  IsFiniteSet(S')
  BY DEF FinitelyManyGrants
<1>1. CASE UNCHANGED money
  BY <1>1 DEF money
<1>2. ASSUME NEW c \in Call,
             GrantCandidate(c) \/ MarkDispatched(c) \/ Dispatch(c) \/ Settle(c)
      PROVE  S' \subseteq S \cup {c}
  BY <1>2, GrantEnters, LateSteps
<1>3. ASSUME NEW c \in Call, S' \subseteq S \cup {c} PROVE IsFiniteSet(S')
  <2>. HIDE DEF S
  <2>1. IsFiniteSet(S \cup {c})
    BY FS_AddElement
  <2>. QED
    BY <1>3, <2>1, FS_Subset
<1>. QED
  BY <1>1, <1>2, <1>3, WorldSteps, StepKinds DEF money

\* The calls that hold money of a budget are finitely many.
LEMMA HoldingFinite ==
  ASSUME Routed, NEW s
  PROVE  /\ IsFiniteSet(Holding(s)) /\ Holding(s) \subseteq Call
         /\ \A c \in Holding(s) : grant[c].cost \in Nat
<1>1. Holding(s) \subseteq {c \in Call : grant[c] # NoGrant}
  BY DEF Holding, NoGrant
<1>2. IsFiniteSet(Holding(s))
  BY <1>1, FS_Subset DEF Routed, FinitelyManyGrants
<1>. QED
  BY <1>1, <1>2 DEF Routed, TypeOK, Grant

\* A grant takes its cost from the budgets of the granted model, no other.
LEMMA GrantAccounts ==
  ASSUME Routed, NEW c \in Call, GrantCandidate(c), NEW s \in Scope
  PROVE  left'[s] + Held(s)' = Limit[s]
<1>. DEFINE f == [b \in Call |-> grant[b].cost]
            g == [b \in Call |-> grant'[b].cost]
            S == Holding(s)
            cost == CostNow(c)
            own == ScopesOf(Current(c).model)
<1>1. /\ Held(s) = SumFunctionOnSet(f, S) /\ Held(s)' = SumFunctionOnSet(g, S')
      /\ left[s] + SumFunctionOnSet(f, S) = Limit[s] /\ left[s] \in Nat
  BY DEF Held, Routed, BudgetsAccountForGrants, TypeOK
<1>2. /\ grant[c] = NoGrant /\ grant'[c].state = "RESERVED"
      /\ grant'[c].at = Position(c) /\ g[c] = cost /\ cost \in Nat
      /\ \A b \in Call \ {c} : grant'[b] = grant[b]
  BY GrantEnters DEF Routed
<1>3. c \notin S
  BY <1>2 DEF Holding, NoGrant
<1>4. S' = IF s \in own THEN S \cup {c} ELSE S
  <2>1. c \in S' <=> s \in own
    BY <1>2 DEF Holding, Current
  <2>2. \A b \in Call \ {c} : b \in S' <=> b \in S
    BY <1>2 DEF Holding
  <2>3. S \subseteq Call /\ S' \subseteq Call
    BY DEF Holding
  <2>. HIDE DEF S, own
  <2>. QED
    BY <1>3, <2>1, <2>2, <2>3
<1>5. left'[s] = left[s] - IF s \in own THEN cost ELSE 0
  BY DEF GrantCandidate
<1>6. /\ IsFiniteSet(S) /\ \A b \in S : f[b] \in Int
      /\ \A b \in S : g[b] = f[b]
  BY <1>2, <1>3, HoldingFinite
<1>7. SumFunctionOnSet(f, S) \in Int
  <2>. HIDE DEF f, S
  <2>. QED
    BY <1>6, SumType
<1>8. CASE s \in own
  <2>. HIDE DEF f, g, S, cost, own
  <2>1. SumFunctionOnSet(g, S \cup {c}) = SumFunctionOnSet(f, S) + g[c]
    BY <1>2, <1>3, <1>6, SumGains
  <2>. QED
    BY <1>1, <1>2, <1>4, <1>5, <1>7, <1>8, <2>1
<1>9. CASE s \notin own
  <2>. HIDE DEF f, g, S, cost, own
  <2>1. SumFunctionOnSet(g, S) = SumFunctionOnSet(f, S)
    BY <1>6, SumSame
  <2>. QED
    BY <1>1, <1>4, <1>5, <1>7, <1>9, <2>1
<1>. QED
  BY <1>8, <1>9

\* A settlement gives back the whole hold or none of it, where it was taken.
LEMMA LateAccounts ==
  ASSUME Routed, NEW c \in Call, MarkDispatched(c) \/ Dispatch(c) \/ Settle(c),
         NEW s \in Scope
  PROVE  left'[s] + Held(s)' = Limit[s]
<1>. DEFINE f == [b \in Call |-> grant[b].cost]
            g == [b \in Call |-> grant'[b].cost]
            S == Holding(s)
            R == S \ {c}
            own == ScopesOf(Chain[grant[c].at].model)
<1>1. /\ Held(s) = SumFunctionOnSet(f, S) /\ Held(s)' = SumFunctionOnSet(g, S')
      /\ left[s] + SumFunctionOnSet(f, S) = Limit[s] /\ left[s] \in Nat
      /\ Limit[s] \in Nat
  BY ScopeAssumption DEF Held, Routed, BudgetsAccountForGrants, TypeOK, Scope
<1>2. /\ grant[c].state = "RESERVED"
      /\ grant'[c].at = grant[c].at /\ grant'[c].cost = grant[c].cost
      /\ \A b \in Call \ {c} : grant'[b] = grant[b]
      /\ \/ grant'[c].state \in {"RESERVED", "RECONCILED", "RECONCILE_PENDING"}
            /\ left' = left
         \/ /\ grant'[c].state = "RELEASED"
            /\ left' = [x \in Scope |-> left[x] + IF x \in own THEN grant[c].cost ELSE 0]
  BY LateSteps DEF Routed
<1>3. /\ IsFiniteSet(S) /\ \A b \in S : f[b] \in Int
      /\ \A b \in S : g[b] = f[b]
  BY <1>2, HoldingFinite
<1>4. SumFunctionOnSet(f, S) \in Int
  <2>. HIDE DEF f, S
  <2>. QED
    BY <1>3, SumType
<1>5. (c \in S <=> s \in own) /\ (c \in S => f[c] = grant[c].cost /\ f[c] \in Int)
  <2>1. c \in S <=> s \in own
    BY <1>2 DEF Holding
  <2>2. f[c] = grant[c].cost
    OBVIOUS
  <2>. QED
    BY <1>3, <2>1, <2>2
<1>6. CASE grant'[c].state \in {"RESERVED", "RECONCILED", "RECONCILE_PENDING"}
           /\ left' = left
  <2>1. S' = S
    BY <1>2, <1>6 DEF Holding
  <2>. HIDE DEF f, g, S
  <2>2. SumFunctionOnSet(g, S) = SumFunctionOnSet(f, S)
    BY <1>3, SumSame
  <2>. QED
    BY <1>1, <1>6, <2>1, <2>2
<1>7. CASE /\ grant'[c].state = "RELEASED"
           /\ left' = [x \in Scope |-> left[x] + IF x \in own THEN grant[c].cost ELSE 0]
  <2>1. S' = R
    <3>1. c \notin S'
      BY <1>7 DEF Holding
    <3>2. \A b \in Call \ {c} : b \in S' <=> b \in S
      BY <1>2 DEF Holding
    <3>3. S \subseteq Call /\ S' \subseteq Call
      BY DEF Holding
    <3>. HIDE DEF S
    <3>. QED
      BY <3>1, <3>2, <3>3
  <2>2. left'[s] = left[s] + IF s \in own THEN grant[c].cost ELSE 0
    BY <1>7
  <2>3. CASE s \in own
    <3>1. R = S \ {c} /\ \A b \in R : g[b] = f[b]
      BY <1>3
    <3>. HIDE DEF f, g, S, R, own
    <3>2. SumFunctionOnSet(g, R) = SumFunctionOnSet(f, S) - f[c]
      BY <1>3, <1>5, <2>3, <3>1, SumLoses
    <3>. QED
      BY <1>1, <1>4, <1>5, <2>1, <2>2, <2>3, <3>2
  <2>4. CASE s \notin own
    <3>1. R = S
      BY <1>5, <2>4
    <3>. HIDE DEF f, g, S, R, own
    <3>2. SumFunctionOnSet(g, S) = SumFunctionOnSet(f, S)
      BY <1>3, SumSame
    <3>. QED
      BY <1>1, <1>4, <2>1, <2>2, <2>4, <3>1, <3>2
  <2>. QED
    BY <2>3, <2>4
<1>. QED
  BY <1>2, <1>6, <1>7

\* Every step keeps the budgets' accounts.
LEMMA NextAccounts == Routed /\ [Next]_vars => BudgetsAccountForGrants'
<1>. SUFFICES ASSUME Routed, [Next]_vars PROVE BudgetsAccountForGrants'
  OBVIOUS
<1>1. TypeOK /\ GrantsFollowCalls /\ BudgetsAccountForGrants
  BY DEF Routed
<1>2. CASE UNCHANGED money
  BY <1>1, <1>2 DEF BudgetsAccountForGrants, Held, Holding, money
<1>3. ASSUME NEW c \in Call,
             GrantCandidate(c) \/ MarkDispatched(c) \/ Dispatch(c) \/ Settle(c)
      PROVE  BudgetsAccountForGrants'
  BY <1>3, GrantAccounts, LateAccounts DEF BudgetsAccountForGrants
<1>. QED
  BY <1>1, <1>2, <1>3, WorldSteps, StepKinds DEF money

\* The invariant holds before the first call.
LEMMA InitRouted == Init => Routed
<1>. SUFFICES ASSUME Init PROVE Routed
  OBVIOUS
<1>1. \A c \in Call : /\ grant[c] = NoGrant /\ call[c].pc = "idle"
                      /\ call[c].tried = <<>>
  BY DEF Init
<1>2. Len(<<>>) = 0 /\ <<>> \in Seq(Verdict)
  OBVIOUS
<1>3. TypeOK
  BY <1>1, <1>2, ScopeAssumption, LengthType, PcTypes DEF Init, TypeOK, Scope
<1>4. GrantsFollowCalls
  BY <1>1 DEF GrantsFollowCalls, NoGrant
<1>5. DenialsAreByAllocations
  BY <1>1, <1>2 DEF DenialsAreByAllocations
<1>6. ClaimsAreExclusive
  BY <1>1 DEF ClaimsAreExclusive
<1>7. FinitelyManyGrants
  <2>1. {c \in Call : grant[c] # NoGrant} = {}
    BY <1>1
  <2>. QED
    BY <2>1, FS_EmptySet DEF FinitelyManyGrants
<1>8. BudgetsAccountForGrants
  <2>1. ASSUME NEW s \in Scope PROVE Held(s) = 0
    <3>1. Holding(s) = {}
      BY <1>1 DEF Holding, NoGrant
    <3>. QED
      BY <3>1, SumEmpty DEF Held
  <2>2. \A s \in Scope : left[s] = Limit[s] /\ Limit[s] \in Nat
    BY ScopeAssumption DEF Init, Scope
  <2>. QED
    BY <2>1, <2>2 DEF BudgetsAccountForGrants
<1>. QED
  BY <1>3, <1>4, <1>5, <1>6, <1>7, <1>8 DEF Routed

\* It is inductive.
LEMMA NextRouted == Routed /\ [Next]_vars => Routed'
BY NextTypeOK, NextGrantsFollowCalls, NextDenials, NextClaims, NextFinitelyMany,
   NextAccounts DEF Routed

-----------------------------------------------------------------------------
(* What a reader should know of *)

\* In every reachable state calls, reservations, keys and budgets agree.
THEOREM RoutedHolds == Spec => []Routed
BY InitRouted, NextRouted, PTL DEF Spec

\* Every variable keeps its type; no budget goes below zero.
THEOREM TypeCorrect == Spec => []TypeOK
<1>1. Routed => TypeOK
  BY DEF Routed
<1>. QED
  BY <1>1, RoutedHolds, PTL

\* Every budget accounts for exactly what was granted under it, whichever
\* candidates the calls ended up with.
THEOREM BudgetsAccount == Spec => []BudgetsAccountForGrants
<1>1. Routed => BudgetsAccountForGrants
  BY DEF Routed
<1>. QED
  BY <1>1, RoutedHolds, PTL

\* An exhausted team, agent or session is not routed around.
THEOREM EscapesOnlyAllocations == Spec => []FallbackEscapesOnlyAllocations
<1>1. Routed => FallbackEscapesOnlyAllocations
  <2>. SUFFICES ASSUME Routed, NEW c \in Call, grant[c] # NoGrant,
                       NEW i \in 1 .. grant[c].at - 1, call[c].tried[i].reason = "denied"
                PROVE  call[c].tried[i].blocking \subseteq Allocated
    BY DEF FallbackEscapesOnlyAllocations
  <2>1. grant[c].at = Position(c) /\ ~At(c, "denied")
    BY DEF Routed, GrantsFollowCalls, At
  <2>2. Len(call[c].tried) \in Nat
    BY DEF Routed, TypeOK
  <2>3. i \in 1 .. Len(call[c].tried)
    BY <2>1, <2>2 DEF Position
  <2>. QED
    BY <2>1, <2>3 DEF Routed, DenialsAreByAllocations
<1>. QED
  BY <1>1, RoutedHolds, PTL

\* All the attempts under one idempotency key leave one reservation.
THEOREM OneGrant == Spec => []OneGrantPerKey
<1>1. Routed => OneGrantPerKey
  <2>. SUFFICES ASSUME Routed, NEW k \in IdemKey
                PROVE  Cardinality({c \in Call : Key[c] = k /\ grant[c] # NoGrant}) <= 1
    BY DEF OneGrantPerKey
  <2>. DEFINE S == {c \in Call : Key[c] = k /\ grant[c] # NoGrant}
  <2>1. \A c \in S : owner[k] = {c}
    BY DEF Routed, ClaimsAreExclusive
  <2>2. S = {} \/ \E c \in S : S = {c}
    <3>1. \A b, c \in S : b = c
      BY <2>1
    <3>. HIDE DEF S
    <3>. QED
      BY <3>1
  <2>. HIDE DEF S
  <2>3. Cardinality(S) = 0 \/ Cardinality(S) = 1
    BY <2>2, FS_EmptySet, FS_Singleton
  <2>. QED
    BY <2>3 DEF S
<1>. QED
  BY <1>1, RoutedHolds, PTL

\* The hold covers the worst the granted model may cost for this prompt.
THEOREM HoldCovers == Spec => []HoldCoversCandidate
<1>1. Routed => HoldCoversCandidate
  <2>. SUFFICES ASSUME Routed, NEW c \in Call, grant[c] # NoGrant
                PROVE  grant[c].cost >= WorstCase(Chain[grant[c].at].model,
                                                  Tokens[c][Chain[grant[c].at].model])
    BY DEF HoldCoversCandidate
  <2>1. grant[c].at = Position(c) /\ grant[c].cost = CostNow(c)
    BY DEF Routed, GrantsFollowCalls
  <2>2. Position(c) <= Length
    <3>1. grant[c].at \in 1 .. Length
      BY DEF Routed, TypeOK, Grant
    <3>. QED
      BY <2>1, <3>1, LengthType
  <2>3. Current(c).model \in Model /\ Tokens[c][Current(c).model] \in Nat
    BY <2>2, CurrentIsModel DEF Routed
  <2>. QED
    BY <2>1, <2>3, EstimateCovers DEF CostNow, Current
<1>. QED
  BY <1>1, RoutedHolds, PTL
================================================================================
