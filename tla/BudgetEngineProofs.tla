-------------------------- MODULE BudgetEngineProofs --------------------------
(***************************************************************************)
(* Proofs about the budget engine, for any number of calls, items, agents, *)
(* sessions, amounts and times: types, the inductive invariant, what       *)
(* follows from it, that the engine implements the abstract hard cap, and  *)
(* that the counters agree with what they count: the holds with the        *)
(* reservations, the committed money with the ledger, all of them with     *)
(* what providers charged.  Sums has the facts about the sums they are.    *)
(***************************************************************************)
EXTENDS BudgetEngine, Sums, TLAPS

\* Vectors stay vectors under addition and subtraction.
LEMMA VectorTypes ==
  /\ Zero \in Amount
  /\ Amount \subseteq Vec
  /\ \A v, w \in Vec : Plus(v, w) \in Vec /\ Minus(v, w) \in Vec
  /\ \A v, w \in Amount : Excess(v, w) \in Nat
BY DimAssumption DEF Zero, Amount, Vec, Plus, Minus, Excess

\* The item that is not there counts nothing, and is an item.
LEMMA NoItemType == NoItem \in Item
BY VectorTypes DEF NoItem, Item

\* What a reserve slot works on is an item.
LEMMA ItemForType ==
  ASSUME NEW k \in Key, NEW limits \in Amount, budget \in [Key -> Item]
  PROVE  ItemFor(k, limits) \in Item
<1>1. CASE k \in seeded
  BY <1>1 DEF ItemFor
<1>2. CASE k \notin seeded
  <2>1. limits \in Vec
    BY VectorTypes
  <2>. QED
    BY <1>2, <2>1, NoItemType DEF ItemFor, Item
<1>. QED
  BY <1>1, <1>2

\* A hold on an item leaves an item.
LEMMA WithHoldType ==
  ASSUME NEW item \in Item, NEW cost \in Amount
  PROVE  WithHold(item, cost) \in Item
<1>1. Minus(item.remaining, cost) \in Vec /\ Plus(item.reserved, cost) \in Vec
  BY VectorTypes DEF Item
<1>2. /\ item.limit \in Amount /\ item.committed \in Vec
      /\ item.pending \in Int /\ item.overage \in Int
      /\ item.open + 1 \in Int
  BY DEF Item
<1>. QED
  BY <1>1, <1>2 DEF WithHold, Item

\* A settlement of an item leaves an item.
LEMMA SettledType ==
  ASSUME NEW item \in Item, NEW held \in Amount, NEW actual \in Amount
  PROVE  Settled(item, held, actual) \in Item
<1>1. held \in Vec /\ actual \in Vec /\ Minus(held, actual) \in Vec
  BY VectorTypes
<1>2. /\ Plus(item.remaining, Minus(held, actual)) \in Vec
      /\ Plus(item.committed, actual) \in Vec
      /\ Minus(item.reserved, held) \in Vec
  BY <1>1, VectorTypes DEF Item
<1>3. held[Money] \in Int /\ item.pending \in Int
  BY DimAssumption DEF Amount, Item
<1>4. PendingAfterSettle(item.pending, held) \in Int
  BY <1>3 DEF PendingAfterSettle, PendingTakenDown
<1>5. Excess(actual, held) \in Int
  BY VectorTypes
<1>6. item.limit \in Amount /\ item.overage \in Int /\ item.open - 1 \in Int
  BY DEF Item
<1>7. item.overage + Excess(actual, held) \in Int
  BY <1>5, <1>6
<1>. QED
  BY <1>2, <1>4, <1>6, <1>7 DEF Settled, Item

\* A pending mark on an item leaves an item.
LEMMA WithPendingType ==
  ASSUME NEW item \in Item, NEW held \in Amount
  PROVE  WithPending(item, held) \in Item
<1>1. held[Money] \in Int
  BY DimAssumption DEF Amount
<1>. QED
  BY <1>1 DEF WithPending, Item

\* A call that only moves in its lifecycle keeps a frame.
LEMMA MoveType ==
  ASSUME NEW c \in Call, NEW where \in Pc, call \in [Call -> Frame], GoTo(c, where)
  PROVE  call' \in [Call -> Frame]
BY DEF GoTo, Frame

\* What is recorded in a reservation, by its type.
LEMMA ReservationTypes ==
  ASSUME resv \in [Call -> Reservation], NEW c \in Call
  PROVE  /\ resv[c].keys \subseteq Key
         /\ resv[c].cost \in Amount
         /\ resv[c].cost[Money] \in Nat
BY DimAssumption DEF Reservation, Amount

\* What a call knows, by the type of its frame.
LEMMA FrameTypes ==
  ASSUME call \in [Call -> Frame], NEW c \in Call
  PROVE  /\ call[c].keys \subseteq Key
         /\ call[c].cost \in Amount
         /\ call[c].usage \in Amount
         /\ call[c].usage[Money] \in Nat
         /\ call[c].policy \in [Scope -> Amount]
         /\ call[c].attempt \in 0 .. MaxAttempts - 1
BY DimAssumption DEF Frame, Amount

\* A reservation whose state moves is a reservation.
LEMMA SettlementType ==
  ASSUME resv \in [Call -> Reservation], NEW c \in Call, NEW state \in State
  PROVE  [resv EXCEPT ![c].state = state] \in [Call -> Reservation]
<1>1. [resv[c] EXCEPT !.state = state] \in Reservation
  BY DEF Reservation
<1>. QED
  BY <1>1

\* A frame at another attempt is a frame.
LEMMA AttemptType ==
  ASSUME NEW f \in Frame, NEW n \in 0 .. MaxAttempts - 1
  PROVE  [f EXCEPT !.attempt = n] \in Frame
BY DEF Frame

\* A frame that takes in an answer is a frame.
LEMMA AnswerType ==
  ASSUME NEW f \in Frame, NEW out \in Outcome, NEW usage \in Amount
  PROVE  [f EXCEPT !.pc = "answered", !.outcome = out, !.usage = usage] \in Frame
BY DEF Frame, Pc

\* The store starts in its type.
LEMMA InitTypeOK == Init => TypeOK
<1>. SUFFICES ASSUME Init PROVE TypeOK
  OBVIOUS
<1>1. Zero \in Amount
  BY VectorTypes
<1>2. clock \in Time
  BY BoundAssumption DEF Init, Time
<1>3. policy \in [Scope -> Amount]
  BY AmountAssumption DEF Init
<1>4. seeded \in SUBSET Key /\ budget \in [Key -> Item]
  BY NoItemType DEF Init
<1>5. idem \in [IdemKey -> SUBSET Call] /\ ledger \subseteq Entry
  BY DEF Init
<1>6. resv \in [Call -> Reservation]
  BY <1>1 DEF Init, NoReservation, Reservation, State
<1>7. call \in [Call -> Frame]
  <2>1. 0 \in 0 .. MaxAttempts - 1 /\ 0 \in Time
    BY BoundAssumption DEF Time
  <2>. QED
    BY <1>1, <2>1, AmountAssumption DEF Init, Frame, Pc, Outcome
<1>8. billed \in [Call -> Amount]
  BY <1>1 DEF Init
<1>9. /\ agentStatus \in [Agent -> {"ACTIVE", "PAUSED"}]
      /\ sessionStatus \in [Session -> {"OPEN", "CLOSED"}]
  BY DEF Init
<1>. QED
  BY <1>2, <1>3, <1>4, <1>5, <1>6, <1>7, <1>8, <1>9 DEF TypeOK

\* Every step keeps every variable in its type, handler by handler.
LEMMA NextTypeOK == TypeOK /\ [Next]_vars => TypeOK'
<1>. SUFFICES ASSUME TypeOK, [Next]_vars PROVE TypeOK'
  OBVIOUS
<1>. USE DEF TypeOK
<1>1. ASSUME NEW c \in Call, Arrive(c) PROVE TypeOK'
  <2>1. PICK cost \in Costs :
          call' = [call EXCEPT ![c] =
                     [@ EXCEPT !.pc = IF FitsPristine(cost, Resolved(c), policy)
                                      THEN "reserving" ELSE "denied",
                               !.now = clock,
                               !.keys = Resolved(c),
                               !.cost = cost,
                               !.policy = policy]]
    BY <1>1 DEF Arrive
  <2>2. Resolved(c) \subseteq Key /\ cost \in Amount
    BY KeyAssumption, AmountAssumption DEF Resolved
  <2>3. call' \in [Call -> Frame]
    <3>. DEFINE f == [call[c] EXCEPT
                        !.pc = IF FitsPristine(cost, Resolved(c), policy)
                               THEN "reserving" ELSE "denied",
                        !.now = clock, !.keys = Resolved(c),
                        !.cost = cost, !.policy = policy]
    <3>1. f \in Frame
      <4>1. call[c] \in Frame /\ clock \in Time /\ policy \in [Scope -> Amount]
        OBVIOUS
      <4>2. (IF FitsPristine(cost, Resolved(c), policy)
             THEN "reserving" ELSE "denied") \in Pc
        BY DEF Pc, Answered
      <4>. HIDE DEF TypeOK
      <4>. QED
        BY <2>2, <4>1, <4>2 DEF Frame
    <3>2. call' = [call EXCEPT ![c] = f]
      BY <2>1
    <3>. HIDE DEF f
    <3>. QED
      BY <3>1, <3>2
  <2>. QED
    BY <1>1, <2>3 DEF Arrive, store, world
<1>2. ASSUME NEW c \in Call, ReserveGranted(c) PROVE TypeOK'
  <2>1. ASSUME NEW k \in Key
        PROVE  WithHold(ItemFor(k, SeedLimits(c, k)), call[c].cost) \in Item
    <3>1. SeedLimits(c, k) \in Amount /\ call[c].cost \in Amount
      BY FrameTypes, KeyAssumption DEF SeedLimits
    <3>. QED
      BY <3>1, ItemForType, WithHoldType
  <2>2. budget' \in [Key -> Item]
    BY <1>2, <2>1 DEF ReserveGranted
  <2>3. resv' \in [Call -> Reservation]
    BY <1>2, FrameTypes, VectorTypes
    DEF ReserveGranted, Reservation, NoReservation, State
  <2>4. call' \in [Call -> Frame]
    BY <1>2, MoveType DEF ReserveGranted, Pc
  <2>5. seeded' \subseteq Key /\ idem' \in [IdemKey -> SUBSET Call]
    BY <1>2, FrameTypes DEF ReserveGranted
  <2>. QED
    BY <1>2, <2>2, <2>3, <2>4, <2>5 DEF ReserveGranted, world
<1>3. ASSUME NEW c \in Call, ReserveDenied(c) PROVE TypeOK'
  <2>1. call' \in [Call -> Frame]
    BY <1>3, MoveType DEF ReserveDenied, Pc, Answered
  <2>. QED
    BY <1>3, <2>1 DEF ReserveDenied, store, world
<1>4. ASSUME NEW c \in Call, ResolveIdempotency(c) PROVE TypeOK'
  <2>1. PICK o : GoTo(c, Repeated(c, o))
    BY <1>4 DEF ResolveIdempotency
  <2>2. Repeated(c, o) \in Pc
    BY DEF Repeated, Pc, Answered
  <2>3. call' \in [Call -> Frame]
    BY <2>1, <2>2, MoveType
  <2>. QED
    BY <1>4, <2>3 DEF ResolveIdempotency, store, world
<1>5. ASSUME NEW c \in Call, MarkDispatched(c) PROVE TypeOK'
  <2>1. call' \in [Call -> Frame]
    BY <1>5, MoveType DEF MarkDispatched, Pc
  <2>2. [resv[c] EXCEPT !.dispatch = "DISPATCHED"] \in Reservation
    BY DEF Reservation
  <2>3. resv' \in [Call -> Reservation]
    BY <1>5, <2>2 DEF MarkDispatched
  <2>. QED
    BY <1>5, <2>1, <2>3 DEF MarkDispatched, world
<1>6. ASSUME NEW c \in Call, ProviderAnswers(c) PROVE TypeOK'
  <2>1. PICK out \in Outcome \ {"none"}, usage \in Usages \cup {Zero} :
          /\ billed' = [billed EXCEPT ![c] = usage]
          /\ call' = [call EXCEPT ![c] =
                        [@ EXCEPT !.pc = "answered",
                                  !.outcome = out,
                                  !.usage = IF out = "billed" THEN usage
                                            ELSE Zero]]
    BY <1>6 DEF ProviderAnswers
  <2>2. usage \in Amount /\ Zero \in Amount
    BY VectorTypes, AmountAssumption
  <2>3. billed' \in [Call -> Amount]
    BY <2>1, <2>2
  <2>4. call' \in [Call -> Frame]
    <3>. DEFINE u == IF out = "billed" THEN usage ELSE Zero
                f == [call[c] EXCEPT
                        !.pc = "answered", !.outcome = out, !.usage = u]
    <3>1. call[c] \in Frame /\ out \in Outcome /\ u \in Amount
      BY <2>2
    <3>2. f \in Frame
      BY ONLY <3>1, AnswerType
    <3>3. call' = [call EXCEPT ![c] = f]
      BY <2>1
    <3>. HIDE DEF f
    <3>. QED
      BY <3>2, <3>3
  <2>. QED
    BY <1>6, <2>3, <2>4 DEF ProviderAnswers, store, world
<1>7. ASSUME NEW c \in Call, NEW actual \in Amount, SettleItems(c, actual)
      PROVE  budget' \in [Key -> Item]
  BY <1>7, ReservationTypes, SettledType DEF SettleItems
<1>8. ASSUME NEW c \in Call, Reconcile(c) PROVE TypeOK'
  <2>1. budget' \in [Key -> Item]
    BY <1>7, <1>8, FrameTypes DEF Reconcile
  <2>2. resv' \in [Call -> Reservation]
    BY <1>8, SettlementType DEF Reconcile, State
  <2>3. call' \in [Call -> Frame]
    BY <1>8, MoveType DEF Reconcile, Pc, Answered
  <2>4. Excess(call[c].usage, resv[c].cost) \in Nat
    BY FrameTypes, ReservationTypes, VectorTypes
  <2>5. UsageEntries(c, call[c].usage) \subseteq Entry
    BY <2>4, FrameTypes DEF UsageEntries, LedgerEntry, Entry
  <2>. QED
    BY <1>8, <2>1, <2>2, <2>3, <2>5 DEF Reconcile, world
<1>9. ASSUME NEW c \in Call, Release(c) PROVE TypeOK'
  <2>1. budget' \in [Key -> Item]
    BY <1>7, <1>9, VectorTypes DEF Release
  <2>2. resv' \in [Call -> Reservation]
    BY <1>9, SettlementType DEF Release, State
  <2>3. call' \in [Call -> Frame]
    BY <1>9, MoveType DEF Release, Pc, Answered
  <2>4. LedgerEntry(c, 0, "RELEASE", 0) \in Entry
    BY DEF LedgerEntry, Entry
  <2>. QED
    BY <1>9, <2>1, <2>2, <2>3, <2>4 DEF Release, world
<1>10. ASSUME NEW c \in Call, MarkPending(c) PROVE TypeOK'
  <2>1. budget' \in [Key -> Item]
    BY <1>10, ReservationTypes, WithPendingType DEF MarkPending
  <2>2. resv' \in [Call -> Reservation]
    BY <1>10, SettlementType DEF MarkPending, State
  <2>3. call' \in [Call -> Frame]
    BY <1>10, MoveType DEF MarkPending, Pc, Answered
  <2>4. LedgerEntry(c, 0, "PENDING_ASSUMED", resv[c].cost[Money]) \in Entry
    BY ReservationTypes DEF LedgerEntry, Entry
  <2>. QED
    BY <1>10, <2>1, <2>2, <2>3, <2>4 DEF MarkPending, world
<1>11. ASSUME NEW c \in Call, ReserveConflict(c) PROVE TypeOK'
  <2>1. call' \in [Call -> Frame]
    <3>1. CASE TryAgain(c) /\ call' = [call EXCEPT ![c].attempt = @ + 1]
      <4>1. call[c].attempt + 1 \in 0 .. MaxAttempts - 1
        BY <3>1, FrameTypes, BoundAssumption DEF TryAgain
      <4>2. [call[c] EXCEPT !.attempt = @ + 1] \in Frame
        BY <4>1, AttemptType
      <4>. QED
        BY <3>1, <4>2
    <3>2. CASE GoTo(c, "contended")
      BY <3>2, MoveType DEF Pc, Answered
    <3>. QED
      BY <1>11, <3>1, <3>2 DEF ReserveConflict
  <2>. QED
    BY <1>11, <2>1 DEF ReserveConflict, store, world
<1>12. ASSUME NEW c \in Call, SettleConflict(c) \/ Crash(c) PROVE TypeOK'
  <2>1. call' \in [Call -> Frame]
    BY <1>12, MoveType DEF SettleConflict, Crash, Pc, Answered
  <2>. QED
    BY <1>12, <2>1 DEF SettleConflict, Crash, store, world
<1>13. ASSUME Tick PROVE TypeOK'
  BY <1>13, BoundAssumption DEF Tick, Time, store
<1>14. ASSUME NEW s \in Scope, SetPolicy(s) PROVE TypeOK'
  BY <1>14, AmountAssumption DEF SetPolicy, store
<1>15. ASSUME NEW a \in Agent, SetAgentStatus(a) PROVE TypeOK'
  BY <1>15 DEF SetAgentStatus, store
<1>16. ASSUME NEW s \in Session, SetSessionStatus(s) PROVE TypeOK'
  BY <1>16 DEF SetSessionStatus, store
<1>17. CASE UNCHANGED vars
  BY <1>17 DEF vars
<1>. QED
  BY <1>1, <1>2, <1>3, <1>4, <1>5, <1>6, <1>8, <1>9, <1>10, <1>11, <1>12,
     <1>13, <1>14, <1>15, <1>16, <1>17 DEF Next, Progress

\* In every reachable state every variable has its type.
THEOREM TypeCorrect == Spec => []TypeOK
BY InitTypeOK, NextTypeOK, PTL DEF Spec

-----------------------------------------------------------------------------
(* The accounts *)

\* The two account invariants, of one item.
Balanced(item) ==
  /\ \A d \in Dim :
       item.remaining[d] + item.committed[d] + item.reserved[d] = item.limit[d]
  /\ item.overage >= 0
  /\ item.remaining[Money] + item.overage >= 0

\* The accounting invariants, as one predicate of an item.
LEMMA AccountsAreBalanced ==
  (AccountingIdentity /\ RemainingBacked) <=> \A k \in Key : Balanced(budget[k])
BY DEF AccountingIdentity, RemainingBacked, Balanced

\* The quantities of an item are integers.
LEMMA ItemQuantities ==
  ASSUME NEW item \in Item, NEW d \in Dim
  PROVE  /\ item.remaining[d] \in Int /\ item.committed[d] \in Int
         /\ item.reserved[d] \in Int /\ item.limit[d] \in Int
         /\ item.overage \in Int
BY DEF Item, Vec, Amount

\* A new item is balanced, and has room for any request that fits its limits.
LEMMA SeedBalanced ==
  ASSUME NEW limits \in Amount, NEW k \in Key, k \notin seeded
  PROVE  /\ Balanced(ItemFor(k, limits))
         /\ ItemFor(k, limits).remaining = limits
<1>1. limits[Money] \in Nat /\ \A d \in Dim : limits[d] \in Nat
  BY DimAssumption DEF Amount
<1>. QED
  BY <1>1, DimAssumption DEF ItemFor, NoItem, Zero, Balanced

\* What a hold changes of an item, field by field.
LEMMA WithHoldMoves ==
  ASSUME NEW item \in Item, NEW cost \in Amount, NEW d \in Dim
  PROVE  /\ WithHold(item, cost).remaining[d] = item.remaining[d] - cost[d]
         /\ WithHold(item, cost).reserved[d] = item.reserved[d] + cost[d]
         /\ WithHold(item, cost).committed = item.committed
         /\ WithHold(item, cost).limit = item.limit
         /\ WithHold(item, cost).overage = item.overage
BY DEF WithHold, Item, Plus, Minus

\* A hold that fits what remains keeps the item balanced.
LEMMA WithHoldBalanced ==
  ASSUME NEW item \in Item, NEW cost \in Amount,
         Balanced(item), Fits(cost, item.remaining)
  PROVE  Balanced(WithHold(item, cost))
<1>1. ASSUME NEW d \in Dim
      PROVE  cost[d] \in Nat /\ cost[d] <= item.remaining[d]
  BY DEF Fits, Amount
<1>. QED
  BY <1>1, WithHoldMoves, ItemQuantities, DimAssumption DEF Balanced

\* What a settlement changes of an item, field by field.
LEMMA SettledMoves ==
  ASSUME NEW item \in Item, NEW held \in Amount, NEW actual \in Amount,
         NEW d \in Dim
  PROVE  /\ Settled(item, held, actual).remaining[d]
              = item.remaining[d] + (held[d] - actual[d])
         /\ Settled(item, held, actual).committed[d]
              = item.committed[d] + actual[d]
         /\ Settled(item, held, actual).reserved[d] = item.reserved[d] - held[d]
         /\ Settled(item, held, actual).limit = item.limit
         /\ Settled(item, held, actual).overage
              = item.overage + Excess(actual, held)
BY DEF Settled, Item, Plus, Minus

\* A settlement keeps the item balanced, however much was spent.
LEMMA SettledBalanced ==
  ASSUME NEW item \in Item, NEW held \in Amount, NEW actual \in Amount,
         Balanced(item)
  PROVE  Balanced(Settled(item, held, actual))
<1>1. \A d \in Dim : held[d] \in Nat /\ actual[d] \in Nat
  BY DEF Amount
<1>2. /\ Excess(actual, held) \in Nat
      /\ Excess(actual, held) >= actual[Money] - held[Money]
  BY <1>1, DimAssumption DEF Excess
<1>. QED
  BY <1>1, <1>2, SettledMoves, ItemQuantities, DimAssumption DEF Balanced

\* A pending mark changes the pending counter alone.
LEMMA WithPendingMoves ==
  ASSUME NEW item \in Item, NEW held \in Amount
  PROVE  /\ WithPending(item, held).remaining = item.remaining
         /\ WithPending(item, held).committed = item.committed
         /\ WithPending(item, held).reserved = item.reserved
         /\ WithPending(item, held).limit = item.limit
         /\ WithPending(item, held).overage = item.overage
BY DEF WithPending, Item

\* The steps that touch an item.
AccountStep(c) ==
  ReserveGranted(c) \/ Reconcile(c) \/ Release(c) \/ MarkPending(c)

\* Every step, by what it does to the items.
LEMMA AccountSteps ==
  [Next]_vars => UNCHANGED <<seeded, budget>> \/ \E c \in Call : AccountStep(c)
BY DEF Next, vars, store, world, Progress, AccountStep, Arrive, ReserveDenied,
       ResolveIdempotency, MarkDispatched, ProviderAnswers, ReserveConflict,
       SettleConflict, Crash, Tick, SetPolicy, SetAgentStatus, SetSessionStatus

\* What a granted call adds its hold to: an item with room for it.
LEMMA GrantFits ==
  ASSUME Inductive, NEW c \in Call, ReserveGranted(c), NEW k \in call[c].keys
  PROVE  /\ ItemFor(k, SeedLimits(c, k)) \in Item
         /\ Balanced(ItemFor(k, SeedLimits(c, k)))
         /\ Fits(call[c].cost, ItemFor(k, SeedLimits(c, k)).remaining)
         /\ call[c].cost \in Amount
         /\ k \in Key
<1>. DEFINE limits == SeedLimits(c, k)
<1>1. k \in Key /\ call[c].cost \in Amount /\ limits \in Amount
  BY FrameTypes, KeyAssumption DEF Inductive, TypeOK, SeedLimits
<1>2. ItemFor(k, limits) \in Item
  BY <1>1, ItemForType DEF Inductive, TypeOK
<1>3. CASE k \in seeded
  <2>1. Balanced(budget[k])
    BY <1>1, AccountsAreBalanced DEF Inductive
  <2>2. Fits(call[c].cost, budget[k].remaining)
    BY <1>3 DEF ReserveGranted, BudgetOk, Affordable
  <2>. QED
    BY <1>1, <1>2, <1>3, <2>1, <2>2 DEF ItemFor
<1>4. CASE k \notin seeded
  <2>1. Fits(call[c].cost, limits)
    BY DEF Inductive, RequestFits, ReserveGranted, FitsPristine, SeedLimits
  <2>. QED
    BY <1>1, <1>2, <1>4, <2>1, SeedBalanced
<1>. QED
  BY <1>3, <1>4

\* Every step keeps every item balanced and its overdraft covered by overage.
LEMMA NextAccounts ==
  Inductive /\ [Next]_vars => (AccountingIdentity /\ RemainingBacked)'
<1>. SUFFICES ASSUME Inductive, [Next]_vars, NEW k \in Key
              PROVE  Balanced(budget'[k])
  BY DEF AccountingIdentity, RemainingBacked, Balanced
<1>1. budget[k] \in Item /\ Balanced(budget[k])
  BY AccountsAreBalanced DEF Inductive, TypeOK
<1>2. CASE UNCHANGED <<seeded, budget>>
  BY <1>1, <1>2
<1>3. ASSUME NEW c \in Call, ReserveGranted(c) PROVE Balanced(budget'[k])
  <2>1. CASE k \in call[c].keys
    <3>1. budget'[k] = WithHold(ItemFor(k, SeedLimits(c, k)), call[c].cost)
      BY <1>3, <2>1 DEF ReserveGranted
    <3>. QED
      BY <1>3, <2>1, <3>1, GrantFits, WithHoldBalanced
  <2>2. CASE k \notin call[c].keys
    BY <1>1, <1>3, <2>2 DEF ReserveGranted
  <2>. QED
    BY <2>1, <2>2
<1>4. ASSUME NEW c \in Call, NEW actual \in Amount, SettleItems(c, actual)
      PROVE  Balanced(budget'[k])
  <2>1. resv[c].cost \in Amount
    BY ReservationTypes DEF Inductive, TypeOK
  <2>. QED
    BY <1>1, <1>4, <2>1, SettledBalanced DEF SettleItems
<1>5. ASSUME NEW c \in Call, Reconcile(c) PROVE Balanced(budget'[k])
  BY <1>4, <1>5, FrameTypes DEF Inductive, TypeOK, Reconcile
<1>6. ASSUME NEW c \in Call, Release(c) PROVE Balanced(budget'[k])
  BY <1>4, <1>6, VectorTypes DEF Release
<1>7. ASSUME NEW c \in Call, MarkPending(c) PROVE Balanced(budget'[k])
  <2>1. resv[c].cost \in Amount
    BY ReservationTypes DEF Inductive, TypeOK
  <2>2. Balanced(WithPending(budget[k], resv[c].cost))
    BY <1>1, <2>1, WithPendingMoves DEF Balanced
  <2>. QED
    BY <1>1, <1>7, <2>2 DEF MarkPending
<1>. QED
  BY <1>2, <1>3, <1>5, <1>6, <1>7, AccountSteps DEF AccountStep

\* No step counts anything on an item that does not exist.
LEMMA NextUnseeded == Inductive /\ [Next]_vars => UnseededIsEmpty'
<1>. SUFFICES ASSUME Inductive, [Next]_vars, NEW k \in Key, k \notin seeded'
              PROVE  budget'[k] = NoItem
  BY DEF UnseededIsEmpty, NoItem, Zero
<1>1. k \notin seeded => budget[k] = NoItem
  BY DEF Inductive, UnseededIsEmpty
<1>2. CASE UNCHANGED <<seeded, budget>>
  BY <1>1, <1>2
<1>3. ASSUME NEW c \in Call, ReserveGranted(c) PROVE budget'[k] = NoItem
  BY <1>1, <1>3 DEF ReserveGranted
<1>4. ASSUME NEW c \in Call, Reconcile(c) \/ Release(c) \/ MarkPending(c)
      PROVE  budget'[k] = NoItem
  <2>1. CanSettle(c) /\ seeded' = seeded
    BY <1>4 DEF Reconcile, Release, MarkPending
  <2>2. k \notin resv[c].keys
    BY <2>1 DEF CanSettle
  <2>3. budget'[k] = budget[k]
    BY <1>4, <2>2 DEF Reconcile, Release, MarkPending, SettleItems
  <2>. QED
    BY <1>1, <2>1, <2>3
<1>. QED
  BY <1>2, <1>3, <1>4, AccountSteps DEF AccountStep

-----------------------------------------------------------------------------
(* The calls *)

\* A step of one call moves that call's frame, and no other.
LEMMA Moved ==
  ASSUME call \in [Call -> Frame], NEW c \in Call, NEW where, GoTo(c, where)
  PROVE  /\ call'[c].pc = where
         /\ \A b \in Call \ {c} : call'[b] = call[b]
         /\ \A b \in Call :
              /\ call'[b].cost = call[b].cost /\ call'[b].keys = call[b].keys
              /\ call'[b].policy = call[b].policy
              /\ call'[b].usage = call[b].usage
              /\ call'[b].outcome = call[b].outcome
BY DEF GoTo, Frame

\* Arrival writes the frame of the call that arrives.
LEMMA ArriveMoves ==
  ASSUME call \in [Call -> Frame], NEW c \in Call, Arrive(c)
  PROVE  /\ call'[c].cost \in Costs
         /\ call'[c].policy = policy
         /\ call'[c].pc \in {"reserving", "denied"}
         /\ call'[c].pc = "reserving" =>
              FitsPristine(call'[c].cost, call'[c].keys, call'[c].policy)
         /\ call'[c].usage = call[c].usage
         /\ call'[c].outcome = call[c].outcome
         /\ \A b \in Call \ {c} : call'[b] = call[b]
<1>1. PICK cost \in Costs :
        call' = [call EXCEPT ![c] =
                   [@ EXCEPT !.pc = IF FitsPristine(cost, Resolved(c), policy)
                                    THEN "reserving" ELSE "denied",
                             !.now = clock,
                             !.keys = Resolved(c),
                             !.cost = cost,
                             !.policy = policy]]
  BY DEF Arrive
<1>. QED
  BY <1>1 DEF Frame

\* The provider's answer writes outcome and usage of its call.
LEMMA AnswerMoves ==
  ASSUME call \in [Call -> Frame], billed \in [Call -> Amount],
         NEW c \in Call, ProviderAnswers(c)
  PROVE  /\ call'[c].pc = "answered"
         /\ call'[c].usage \in Usages \cup {Zero}
         /\ call'[c].cost = call[c].cost
         /\ call'[c].policy = call[c].policy
         /\ \A b \in Call \ {c} : call'[b] = call[b] /\ billed'[b] = billed[b]
BY DEF ProviderAnswers, Frame

\* A conflict writes the attempt, or the end, of its call.
LEMMA ConflictMoves ==
  ASSUME call \in [Call -> Frame], NEW c \in Call, ReserveConflict(c)
  PROVE  /\ call'[c].pc \in {"reserving", "contended"}
         /\ call'[c].cost = call[c].cost /\ call'[c].keys = call[c].keys
         /\ call'[c].policy = call[c].policy
         /\ call'[c].usage = call[c].usage
         /\ call'[c].outcome = call[c].outcome
         /\ \A b \in Call \ {c} : call'[b] = call[b]
<1>1. CASE call' = [call EXCEPT ![c].attempt = @ + 1]
  BY <1>1 DEF ReserveConflict, At, Frame
<1>2. CASE GoTo(c, "contended")
  BY <1>2, Moved
<1>. QED
  BY <1>1, <1>2 DEF ReserveConflict

\* The steps that end a call, or take it past its reservation, by a move alone.
Move(c) ==
  \E where \in Pc \ {"idle", "reserving", "dispatched", "granted"} :
    GoTo(c, where)

\* The other steps of a call only move it in its lifecycle.
LEMMA EndingMoves ==
  ASSUME NEW c \in Call,
         \/ ReserveDenied(c) \/ ResolveIdempotency(c)
         \/ Reconcile(c) \/ Release(c) \/ MarkPending(c)
         \/ SettleConflict(c) \/ Crash(c)
  PROVE  Move(c)
<1>1. CASE ReserveDenied(c)
  BY <1>1 DEF ReserveDenied, Move, Pc, Answered
<1>2. CASE ResolveIdempotency(c)
  BY <1>2 DEF ResolveIdempotency, Repeated, Move, Pc, Answered
<1>3. CASE Reconcile(c) \/ Release(c) \/ MarkPending(c)
  BY <1>3 DEF Reconcile, Release, MarkPending, Move, Pc, Answered
<1>4. CASE SettleConflict(c) \/ Crash(c)
  BY <1>4 DEF SettleConflict, Crash, Move, Pc, Answered
<1>. QED
  BY <1>1, <1>2, <1>3, <1>4

\* Every step, by what it does to the calls.
LEMMA CallSteps ==
  [Next]_vars =>
    \/ call' = call
    \/ \E c \in Call :
         \/ Arrive(c) \/ ReserveGranted(c) \/ MarkDispatched(c)
         \/ ProviderAnswers(c) \/ ReserveConflict(c) \/ Move(c)
BY EndingMoves
   DEF Next, Progress, vars, Tick, SetPolicy, SetAgentStatus, SetSessionStatus

\* A request on its way keeps fitting the limits it was measured against.
LEMMA NextRequests == Inductive /\ [Next]_vars => RequestFits'
<1>. SUFFICES ASSUME Inductive, [Next]_vars, NEW b \in Call,
                     call'[b].pc = "reserving"
              PROVE  FitsPristine(call'[b].cost, call'[b].keys, call'[b].policy)
  BY DEF RequestFits, At
<1>1. call \in [Call -> Frame] /\ RequestFits
  BY DEF Inductive, TypeOK
<1>2. ASSUME call'[b] = call[b]
      PROVE  FitsPristine(call'[b].cost, call'[b].keys, call'[b].policy)
  BY <1>1, <1>2 DEF RequestFits, At
<1>3. ASSUME NEW c \in Call, Arrive(c)
      PROVE  FitsPristine(call'[b].cost, call'[b].keys, call'[b].policy)
  BY <1>1, <1>2, <1>3, ArriveMoves
<1>4. ASSUME NEW c \in Call, ReserveConflict(c)
      PROVE  FitsPristine(call'[b].cost, call'[b].keys, call'[b].policy)
  BY <1>1, <1>2, <1>4, ConflictMoves DEF RequestFits, ReserveConflict, At
<1>5. ASSUME NEW c \in Call, ProviderAnswers(c)
      PROVE  FitsPristine(call'[b].cost, call'[b].keys, call'[b].policy)
  BY <1>1, <1>2, <1>5, AnswerMoves DEF Inductive, TypeOK
<1>6. ASSUME NEW c \in Call, NEW where, where # "reserving", GoTo(c, where)
      PROVE  FitsPristine(call'[b].cost, call'[b].keys, call'[b].policy)
  BY <1>1, <1>2, <1>6, Moved
<1>7. ASSUME NEW c \in Call, ReserveGranted(c) \/ MarkDispatched(c) \/ Move(c)
      PROVE  FitsPristine(call'[b].cost, call'[b].keys, call'[b].policy)
  BY <1>6, <1>7 DEF ReserveGranted, MarkDispatched, Move
<1>. QED
  BY <1>2, <1>3, <1>4, <1>5, <1>7, CallSteps

\* No step gives a claimed key to another call, or lets one past without it.
LEMMA NextClaims == Inductive /\ [Next]_vars => ClaimIsOwn'
<1>. SUFFICES ASSUME Inductive, [Next]_vars, NEW b \in Call, Keyed(b),
                     \/ call'[b].pc \in {"granted", "dispatched"}
                     \/ call'[b].outcome # "none"
              PROVE  idem'[Request[b].idem] = {b}
  BY DEF ClaimIsOwn, At, Keyed
<1>1. /\ call \in [Call -> Frame] /\ ClaimIsOwn
      /\ idem \in [IdemKey -> SUBSET Call] /\ billed \in [Call -> Amount]
      /\ Request[b].idem \in IdemKey
  BY RequestAssumption DEF Inductive, TypeOK, Keyed
<1>2. ASSUME NEW c \in Call, ReserveGranted(c) PROVE idem'[Request[b].idem] = {b}
  <2>1. CASE c = b
    BY <1>1, <1>2, <2>1 DEF ReserveGranted
  <2>2. CASE c # b
    <3>1. idem[Request[b].idem] = {b}
      BY <1>1, <1>2, <2>2, Moved DEF ReserveGranted, ClaimIsOwn, At
    <3>2. Request[c].idem # Request[b].idem
      BY <1>1, <1>2, <3>1 DEF ReserveGranted, KeyFree, Keyed
    <3>. QED
      BY <1>1, <1>2, <3>1, <3>2 DEF ReserveGranted
  <2>. QED
    BY <2>1, <2>2
<1>3. CASE ~ \E c \in Call : ReserveGranted(c)
  <2>1. idem' = idem
    BY <1>3 DEF Next, Progress, vars, store, world, Arrive, ReserveDenied,
                ResolveIdempotency, MarkDispatched, ProviderAnswers, Reconcile,
                Release, MarkPending, ReserveConflict, SettleConflict, Crash,
                Tick, SetPolicy, SetAgentStatus, SetSessionStatus
  <2>2. \/ call[b].pc \in {"granted", "dispatched"}
        \/ call[b].outcome # "none"
    <3>1. ASSUME NEW c \in Call, Arrive(c)
          PROVE  \/ call[b].pc \in {"granted", "dispatched"}
                 \/ call[b].outcome # "none"
      BY <1>1, <3>1, ArriveMoves
    <3>2. ASSUME NEW c \in Call, MarkDispatched(c)
          PROVE  \/ call[b].pc \in {"granted", "dispatched"}
                 \/ call[b].outcome # "none"
      BY <1>1, <3>2, Moved DEF MarkDispatched, At
    <3>3. ASSUME NEW c \in Call, ProviderAnswers(c)
          PROVE  \/ call[b].pc \in {"granted", "dispatched"}
                 \/ call[b].outcome # "none"
      BY <1>1, <3>3, AnswerMoves DEF ProviderAnswers, At
    <3>4. ASSUME NEW c \in Call, ReserveConflict(c)
          PROVE  \/ call[b].pc \in {"granted", "dispatched"}
                 \/ call[b].outcome # "none"
      BY <1>1, <3>4, ConflictMoves
    <3>5. ASSUME NEW c \in Call, Move(c)
          PROVE  \/ call[b].pc \in {"granted", "dispatched"}
                 \/ call[b].outcome # "none"
      BY <1>1, <3>5, Moved DEF Move
    <3>. QED
      BY <1>3, <3>1, <3>2, <3>3, <3>4, <3>5, CallSteps
  <2>. QED
    BY <1>1, <2>1, <2>2 DEF ClaimIsOwn, At
<1>. QED
  BY <1>2, <1>3

\* A settlement leaves the dispatch mark and the amount held as they are.
LEMMA SettlementKeeps ==
  ASSUME resv \in [Call -> Reservation], NEW c \in Call,
         Reconcile(c) \/ Release(c) \/ MarkPending(c)
  PROVE  /\ \A b \in Call : /\ resv'[b].dispatch = resv[b].dispatch
                            /\ resv'[b].cost = resv[b].cost
         /\ \A b \in Call \ {c} : resv'[b] = resv[b]
         /\ resv[c].state = "RESERVED"
<1>1. CASE Reconcile(c)
  BY <1>1 DEF Reconcile, CanSettle, Reservation
<1>2. CASE Release(c)
  BY <1>2 DEF Release, CanSettle, Reservation
<1>3. CASE MarkPending(c)
  BY <1>3 DEF MarkPending, CanSettle, Reservation
<1>. QED
  BY <1>1, <1>2, <1>3

\* Every step, by what it does to the reservations.
LEMMA ReservationSteps ==
  [Next]_vars =>
    \/ resv' = resv
    \/ \E c \in Call : \/ ReserveGranted(c) \/ MarkDispatched(c)
                      \/ Reconcile(c) \/ Release(c) \/ MarkPending(c)
BY DEF Next, Progress, vars, store, world, Arrive, ReserveDenied,
       ResolveIdempotency, ProviderAnswers, ReserveConflict, SettleConflict,
       Crash, Tick, SetPolicy, SetAgentStatus, SetSessionStatus

\* Only the provider's answer changes what was charged.
LEMMA BillingSteps ==
  [Next]_vars => billed' = billed \/ \E c \in Call : ProviderAnswers(c)
BY DEF Next, Progress, vars, store, world, Arrive, ReserveGranted, ReserveDenied,
       ResolveIdempotency, MarkDispatched, Reconcile, Release, MarkPending,
       ReserveConflict, SettleConflict, Crash, Tick, SetPolicy, SetAgentStatus,
       SetSessionStatus

\* No step reaches a provider before its dispatch mark is written.
LEMMA NextMarks ==
  Inductive /\ [Next]_vars => (MarkPrecedesContact /\ PreDispatchIsUnbilled)'
<1>. DEFINE Marked(b) ==
       /\ call[b].pc \in {"idle", "reserving"} => billed[b] = Zero
       /\ call[b].pc = "dispatched" => resv[b].dispatch = "DISPATCHED"
       /\ resv[b].dispatch = "PRE_DISPATCH" => billed[b] = Zero
<1>. SUFFICES ASSUME Inductive, [Next]_vars, NEW b \in Call
              PROVE  Marked(b)'
  BY DEF MarkPrecedesContact, PreDispatchIsUnbilled, At
<1>1. /\ call \in [Call -> Frame] /\ resv \in [Call -> Reservation]
      /\ billed \in [Call -> Amount] /\ Marked(b)
  BY DEF Inductive, TypeOK, MarkPrecedesContact, PreDispatchIsUnbilled, At
<1>2. ASSUME NEW c \in Call, ReserveGranted(c) PROVE Marked(b)'
  <2>1. billed' = billed
    BY <1>2 DEF ReserveGranted
  <2>2. CASE c = b
    BY <1>1, <1>2, <2>1, <2>2, Moved DEF ReserveGranted, At
  <2>3. CASE c # b
    BY <1>1, <1>2, <2>1, <2>3, Moved DEF ReserveGranted
  <2>. QED
    BY <2>2, <2>3
<1>3. ASSUME NEW c \in Call, MarkDispatched(c) PROVE Marked(b)'
  <2>1. billed' = billed
    BY <1>3 DEF MarkDispatched
  <2>2. CASE c = b
    <3>1. resv'[b].dispatch = "DISPATCHED"
      BY <1>1, <1>3, <2>2 DEF MarkDispatched, Reservation
    <3>. QED
      BY <1>1, <1>3, <2>1, <2>2, <3>1, Moved DEF MarkDispatched
  <2>3. CASE c # b
    BY <1>1, <1>3, <2>1, <2>3, Moved DEF MarkDispatched
  <2>. QED
    BY <2>2, <2>3
<1>4. ASSUME NEW c \in Call, ProviderAnswers(c) PROVE Marked(b)'
  <2>1. resv' = resv
    BY <1>4 DEF ProviderAnswers, store
  <2>2. CASE c = b
    BY <1>1, <1>4, <2>1, <2>2, AnswerMoves DEF ProviderAnswers, At
  <2>3. CASE c # b
    BY <1>1, <1>4, <2>1, <2>3, AnswerMoves
  <2>. QED
    BY <2>2, <2>3
<1>5. CASE ~ \E c \in Call :
              ReserveGranted(c) \/ MarkDispatched(c) \/ ProviderAnswers(c)
  <2>1. resv'[b].dispatch = resv[b].dispatch
    BY <1>1, <1>5, ReservationSteps, SettlementKeeps
  <2>2. billed' = billed
    BY <1>5, BillingSteps
  <2>3. /\ call'[b].pc \in {"idle", "reserving"}
             => call[b].pc \in {"idle", "reserving"}
        /\ call'[b].pc = "dispatched" => call[b].pc = "dispatched"
    <3>1. ASSUME NEW c \in Call, Arrive(c) \/ ReserveConflict(c)
          PROVE  /\ call'[b].pc \in {"idle", "reserving"}
                      => call[b].pc \in {"idle", "reserving"}
                 /\ call'[b].pc = "dispatched" => call[b].pc = "dispatched"
      <4>1. CASE Arrive(c)
        BY <1>1, <4>1, ArriveMoves DEF Arrive, At
      <4>2. CASE ReserveConflict(c)
        BY <1>1, <4>2, ConflictMoves DEF ReserveConflict, At
      <4>. QED
        BY <3>1, <4>1, <4>2
    <3>2. ASSUME NEW c \in Call, Move(c)
          PROVE  /\ call'[b].pc \in {"idle", "reserving"}
                      => call[b].pc \in {"idle", "reserving"}
                 /\ call'[b].pc = "dispatched" => call[b].pc = "dispatched"
      BY <1>1, <3>2, Moved DEF Move
    <3>. QED
      BY <1>5, <3>1, <3>2, CallSteps
  <2>. QED
    BY <1>1, <2>1, <2>2, <2>3
<1>. QED
  BY <1>2, <1>3, <1>4, <1>5

\* Every step works with amounts that were asked for, billed or configured.
LEMMA NextAmounts == Inductive /\ [Next]_vars => AmountsAreKnown'
<1>. SUFFICES ASSUME Inductive, [Next]_vars PROVE AmountsAreKnown'
  OBVIOUS
<1>1. /\ call \in [Call -> Frame] /\ resv \in [Call -> Reservation]
      /\ billed \in [Call -> Amount] /\ policy \in [Scope -> Amount]
      /\ AmountsAreKnown
  BY DEF Inductive, TypeOK
<1>2. \A s \in Scope : policy'[s] \in PolicyValues
  <2>1. CASE policy' = policy
    BY <1>1, <2>1 DEF AmountsAreKnown
  <2>2. ASSUME NEW s \in Scope, SetPolicy(s)
        PROVE  \A r \in Scope : policy'[r] \in PolicyValues
    BY <1>1, <2>2 DEF AmountsAreKnown, SetPolicy, PolicyValues
  <2>3. policy' = policy \/ \E s \in Scope : SetPolicy(s)
    BY DEF Next, Progress, vars, store, world, Arrive, ReserveGranted,
           ReserveDenied, ResolveIdempotency, MarkDispatched, ProviderAnswers,
           Reconcile, Release, MarkPending, ReserveConflict, SettleConflict,
           Crash, Tick, SetAgentStatus, SetSessionStatus
  <2>. QED
    BY <2>1, <2>2, <2>3
<1>3. ASSUME NEW b \in Call
      PROVE  /\ \A s \in Scope : call'[b].policy[s] \in PolicyValues
             /\ call'[b].pc = "reserving" => call'[b].cost \in Costs
             /\ call'[b].usage \in Usages \cup {Zero}
  <2>. DEFINE Known(f) ==
                /\ \A s \in Scope : f.policy[s] \in PolicyValues
                /\ f.pc = "reserving" => f.cost \in Costs
                /\ f.usage \in Usages \cup {Zero}
  <2>1. Known(call[b])
    BY <1>1 DEF AmountsAreKnown, At
  <2>2. ASSUME NEW c \in Call, Arrive(c) PROVE Known(call'[b])
    BY <1>1, <2>1, <2>2, ArriveMoves DEF AmountsAreKnown
  <2>3. ASSUME NEW c \in Call, ReserveConflict(c) PROVE Known(call'[b])
    BY <1>1, <2>1, <2>3, ConflictMoves DEF ReserveConflict, At
  <2>4. ASSUME NEW c \in Call, ProviderAnswers(c) PROVE Known(call'[b])
    BY <1>1, <2>1, <2>4, AnswerMoves
  <2>5. ASSUME NEW c \in Call, ReserveGranted(c) \/ MarkDispatched(c) \/ Move(c)
        PROVE  Known(call'[b])
    <3>1. PICK where : where # "reserving" /\ GoTo(c, where)
      BY <2>5 DEF ReserveGranted, MarkDispatched, Move
    <3>. QED
      BY <1>1, <2>1, <3>1, Moved
  <2>6. CASE call' = call
    BY <2>1, <2>6
  <2>. QED
    BY <2>2, <2>3, <2>4, <2>5, <2>6, CallSteps
<1>4. ASSUME NEW b \in Call, resv'[b].state # "NONE" PROVE resv'[b].cost \in Costs
  <2>1. ASSUME NEW c \in Call, ReserveGranted(c) PROVE resv'[b].cost \in Costs
    <3>1. CASE b = c
      <4>1. resv'[b].cost = call[c].cost
        BY <1>1, <2>1, <3>1 DEF ReserveGranted, NoReservation
      <4>. QED
        BY <1>1, <2>1, <4>1 DEF ReserveGranted, AmountsAreKnown
    <3>2. CASE b # c
      BY <1>1, <1>4, <2>1, <3>2 DEF ReserveGranted, AmountsAreKnown
    <3>. QED
      BY <3>1, <3>2
  <2>2. ASSUME NEW c \in Call, MarkDispatched(c) PROVE resv'[b].cost \in Costs
    <3>1. resv'[b].cost = resv[b].cost /\ resv'[b].state = resv[b].state
      BY <1>1, <2>2 DEF MarkDispatched, Reservation
    <3>. QED
      BY <1>1, <1>4, <3>1 DEF AmountsAreKnown
  <2>3. ASSUME NEW c \in Call, Reconcile(c) \/ Release(c) \/ MarkPending(c)
        PROVE  resv'[b].cost \in Costs
    <3>1. resv'[b].cost = resv[b].cost
      BY <1>1, <2>3, SettlementKeeps
    <3>2. resv[b].state # "NONE"
      <4>1. resv[c].state = "RESERVED"
        BY <1>1, <2>3, SettlementKeeps
      <4>2. b # c => resv'[b] = resv[b]
        BY <1>1, <2>3, SettlementKeeps
      <4>. QED
        BY <1>4, <4>1, <4>2
    <3>. QED
      BY <1>1, <3>1, <3>2 DEF AmountsAreKnown
  <2>4. CASE resv' = resv
    BY <1>1, <1>4, <2>4 DEF AmountsAreKnown
  <2>. QED
    BY <2>1, <2>2, <2>3, <2>4, ReservationSteps
<1>5. PolicyValues' = PolicyValues
  BY DEF PolicyValues
<1>. QED
  BY <1>2, <1>3, <1>4, <1>5 DEF AmountsAreKnown, At

-----------------------------------------------------------------------------
(* The invariant and what it implies *)

\* The store starts in the inductive invariant.
LEMMA InitInductive == Init => Inductive
<1>. SUFFICES ASSUME Init PROVE Inductive
  OBVIOUS
<1>1. TypeOK
  BY InitTypeOK
<1>2. AccountingIdentity /\ RemainingBacked
  BY DimAssumption
  DEF Init, AccountingIdentity, RemainingBacked, NoItem, Zero
<1>6. UnseededIsEmpty
  BY DEF Init, UnseededIsEmpty
<1>3. RequestFits /\ ClaimIsOwn
  BY DEF Init, RequestFits, ClaimIsOwn, At
<1>4. MarkPrecedesContact /\ PreDispatchIsUnbilled
  BY DEF Init, MarkPrecedesContact, PreDispatchIsUnbilled, At
<1>5. AmountsAreKnown
  BY DEF Init, AmountsAreKnown, At, NoReservation, PolicyValues
<1>. QED
  BY <1>1, <1>2, <1>3, <1>4, <1>5, <1>6 DEF Inductive

\* Every step keeps the inductive invariant.
LEMMA NextInductive == Inductive /\ [Next]_vars => Inductive'
<1>1. Inductive /\ [Next]_vars => TypeOK'
  BY NextTypeOK DEF Inductive
<1>. QED
  BY <1>1, NextAccounts, NextUnseeded, NextRequests, NextClaims, NextMarks, NextAmounts
  DEF Inductive

\* Every reachable state, of any number of calls over any items, satisfies the
\* inductive invariant.
THEOREM InductiveHolds == Spec => []Inductive
BY InitInductive, NextInductive, PTL DEF Spec

\* The accounting identity of BudgetState.invariant_holds, in every dimension.
THEOREM AccountsBalance == Spec => []AccountingIdentity
<1>1. Inductive => AccountingIdentity
  BY DEF Inductive
<1>. QED
  BY <1>1, InductiveHolds, PTL

\* The hard cap: no item is ever settled and held beyond its limit by more
\* than providers billed beyond what was held.
THEOREM CapHolds == Spec => []WithinCap
<1>1. Inductive => WithinCap
  <2>. SUFFICES ASSUME Inductive, NEW k \in Key
                PROVE  budget[k].committed[Money] + budget[k].reserved[Money]
                         <= budget[k].limit[Money] + budget[k].overage
    BY DEF WithinCap
  <2>1. budget[k] \in Item /\ Balanced(budget[k])
    BY AccountsAreBalanced DEF Inductive, TypeOK
  <2>. QED
    BY <2>1, ItemQuantities, DimAssumption DEF Balanced
<1>. QED
  BY <1>1, InductiveHolds, PTL

\* However a key is repeated, one provider call.
THEOREM OneCallPerKey == Spec => []OneProviderCallPerKey
<1>1. Inductive => OneProviderCallPerKey
  <2>. SUFFICES ASSUME Inductive, NEW c1 \in Call, NEW c2 \in Call, Keyed(c1),
                       Request[c1].idem = Request[c2].idem,
                       call[c1].outcome # "none", call[c2].outcome # "none"
                PROVE  c1 = c2
    BY DEF OneProviderCallPerKey
  <2>1. Keyed(c2)
    BY DEF Keyed
  <2>2. idem[Request[c1].idem] = {c1} /\ idem[Request[c2].idem] = {c2}
    BY <2>1 DEF Inductive, ClaimIsOwn
  <2>. QED
    BY <2>2
<1>. QED
  BY <1>1, InductiveHolds, PTL

\* What is still marked PRE_DISPATCH can be given back.
THEOREM PreDispatchIsSafe == Spec => []PreDispatchIsUnbilled
<1>1. Inductive => PreDispatchIsUnbilled
  BY DEF Inductive
<1>. QED
  BY <1>1, InductiveHolds, PTL

-----------------------------------------------------------------------------
(* What a step may do to an item *)

\* A granted hold leaves every item it is on within its limit.
LEMMA GrantStaysWithin ==
  ASSUME Inductive, NEW c \in Call, ReserveGranted(c), NEW k \in call[c].keys,
         NEW d \in Dim
  PROVE  budget'[k].committed[d] + budget'[k].reserved[d] <= budget'[k].limit[d]
<1>. DEFINE item == ItemFor(k, SeedLimits(c, k))
<1>1. /\ item \in Item /\ Balanced(item) /\ call[c].cost \in Amount
      /\ Fits(call[c].cost, item.remaining) /\ k \in Key
  BY GrantFits
<1>2. budget'[k] = WithHold(item, call[c].cost)
  BY <1>1 DEF ReserveGranted
<1>. HIDE DEF item
<1>3. call[c].cost[d] \in Nat /\ call[c].cost[d] <= item.remaining[d]
  BY <1>1 DEF Fits, Amount
<1>4. /\ budget'[k].committed[d] = item.committed[d]
      /\ budget'[k].reserved[d] = item.reserved[d] + call[c].cost[d]
      /\ budget'[k].limit[d] = item.limit[d]
  BY <1>1, <1>2, WithHoldMoves
<1>5. item.remaining[d] + item.committed[d] + item.reserved[d] = item.limit[d]
  BY <1>1 DEF Balanced
<1>. QED
  BY <1>1, <1>3, <1>4, <1>5, ItemQuantities

\* No other step raises what an item holds, or changes its limit.
LEMMA OthersHoldNoMore ==
  ASSUME Inductive, NEW c \in Call, NEW k \in Key, NEW d \in Dim,
         Reconcile(c) \/ Release(c) \/ MarkPending(c)
  PROVE  /\ budget'[k].reserved[d] <= budget[k].reserved[d]
         /\ budget'[k].limit = budget[k].limit
<1>1. budget[k] \in Item /\ resv[c].cost \in Amount
  BY ReservationTypes DEF Inductive, TypeOK
<1>2. budget[k].reserved[d] \in Int /\ resv[c].cost[d] \in Nat
  BY <1>1, ItemQuantities DEF Amount
<1>3. ASSUME NEW actual \in Amount, SettleItems(c, actual)
      PROVE  /\ budget'[k].reserved[d] <= budget[k].reserved[d]
             /\ budget'[k].limit = budget[k].limit
  BY <1>1, <1>2, <1>3, SettledMoves DEF SettleItems
<1>4. CASE Reconcile(c)
  BY <1>3, <1>4, FrameTypes DEF Reconcile, Inductive, TypeOK
<1>5. CASE Release(c)
  BY <1>3, <1>5, VectorTypes DEF Release
<1>6. CASE MarkPending(c)
  BY <1>1, <1>2, <1>6, WithPendingMoves DEF MarkPending
<1>. QED
  BY <1>4, <1>5, <1>6

\* The prospective invariant of docs/DECISIONS.md, D6: no hold is ever granted
\* unless it fits every item it is on, atomically, at that instant.
THEOREM GrantsFit == Spec => GrantsFitBudget
<1>. DEFINE Fitting ==
       \A k \in Key, d \in Dim :
         budget'[k].reserved[d] > budget[k].reserved[d]
           => budget'[k].committed[d] + budget'[k].reserved[d]
                <= budget'[k].limit[d]
<1>1. Inductive /\ [Next]_vars => Fitting
  <2>. SUFFICES ASSUME Inductive, [Next]_vars, NEW k \in Key, NEW d \in Dim,
                       budget'[k].reserved[d] > budget[k].reserved[d]
                PROVE  budget'[k].committed[d] + budget'[k].reserved[d]
                         <= budget'[k].limit[d]
    OBVIOUS
  <2>1. budget[k].reserved[d] \in Int
    BY ItemQuantities DEF Inductive, TypeOK
  <2>2. ~UNCHANGED <<seeded, budget>>
    BY <2>1
  <2>3. PICK c \in Call : AccountStep(c)
    BY <2>2, AccountSteps
  <2>4. CASE ReserveGranted(c)
    <3>1. k \in call[c].keys
      BY <2>1, <2>4 DEF ReserveGranted
    <3>. QED
      BY <2>4, <3>1, GrantStaysWithin
  <2>5. CASE Reconcile(c) \/ Release(c) \/ MarkPending(c)
    <3>1. budget'[k].reserved[d] <= budget[k].reserved[d]
      BY <2>5, OthersHoldNoMore
    <3>2. budget'[k].reserved[d] \in Int
      BY NextInductive, ItemQuantities DEF Inductive, TypeOK
    <3>. QED
      BY <2>1, <3>1, <3>2
  <2>. QED
    BY <2>3, <2>4, <2>5 DEF AccountStep
<1>2. Spec => [][Fitting]_vars
  <2>1. Inductive /\ [Next]_vars => [Fitting]_vars
    BY <1>1
  <2>. HIDE DEF Fitting
  <2>. QED
    BY <2>1, InductiveHolds, PTL DEF Spec
<1>. QED
  BY <1>2 DEF GrantsFitBudget

\* What a transaction writes on an existing item has the item's limit.
LEMMA SeededItemKeepsLimit ==
  ASSUME Inductive, NEW c \in Call, ReserveGranted(c), NEW k \in seeded
  PROVE  k \in Key /\ k \in seeded' /\ budget'[k].limit = budget[k].limit
<1>1. k \in Key /\ budget[k] \in Item /\ call[c].cost \in Amount
  BY FrameTypes DEF Inductive, TypeOK
<1>2. ItemFor(k, SeedLimits(c, k)) = budget[k]
  BY DEF ItemFor
<1>. QED
  BY <1>1, <1>2, DimAssumption, WithHoldMoves DEF ReserveGranted

\* A policy that is amended never reaches a window that is open.
THEOREM LimitsStand == Spec => OpenWindowsKeepTheirLimit
<1>. DEFINE Kept ==
       \A k \in seeded : k \in seeded' /\ budget'[k].limit = budget[k].limit
<1>1. Inductive /\ [Next]_vars => Kept
  <2>. SUFFICES ASSUME Inductive, [Next]_vars, NEW k \in seeded
                PROVE  k \in seeded' /\ budget'[k].limit = budget[k].limit
    OBVIOUS
  <2>1. CASE UNCHANGED <<seeded, budget>>
    BY <2>1
  <2>2. ASSUME NEW c \in Call, ReserveGranted(c)
        PROVE  k \in seeded' /\ budget'[k].limit = budget[k].limit
    BY <2>2, SeededItemKeepsLimit
  <2>3. ASSUME NEW c \in Call, Reconcile(c) \/ Release(c) \/ MarkPending(c)
        PROVE  k \in seeded' /\ budget'[k].limit = budget[k].limit
    <3>1. k \in Key
      BY DEF Inductive, TypeOK
    <3>2. seeded' = seeded
      BY <2>3 DEF Reconcile, Release, MarkPending
    <3>. QED
      BY <2>3, <3>1, <3>2, OthersHoldNoMore, DimAssumption
  <2>. QED
    BY <2>1, <2>2, <2>3, AccountSteps DEF AccountStep
<1>2. Inductive /\ [Next]_vars => [Kept]_vars
  BY <1>1
<1>. HIDE DEF Kept
<1>3. Spec => [][Kept]_vars
  BY <1>2, InductiveHolds, PTL DEF Spec
<1>. QED
  BY <1>3 DEF OpenWindowsKeepTheirLimit, Kept

-----------------------------------------------------------------------------
(* The engine implements the hard cap. *)

\* An empty store is an empty hard cap.
LEMMA InitRefines == Init => Cap!Init
BY DimAssumption DEF Init, Cap!Init, NoItem, Zero

\* A grant is an abstract hold of its cost on its items.
LEMMA GrantRefines ==
  ASSUME Inductive, NEW c \in Call, ReserveGranted(c),
         NEW K, K = call[c].keys, NEW a, a = call[c].cost[Money]
  PROVE  Cap!Hold(K, a)
<1>. DEFINE l == [k \in K |-> SeedLimits(c, k)[Money]]
<1>1. /\ K \subseteq Key /\ call[c].cost \in Amount
      /\ budget \in [Key -> Item] /\ seeded \subseteq Key
      /\ budget' = [k \in Key |-> IF k \in K
                                 THEN WithHold(ItemFor(k, SeedLimits(c, k)),
                                               call[c].cost)
                                 ELSE budget[k]]
      /\ seeded' = seeded \cup K
  BY FrameTypes DEF Inductive, TypeOK, ReserveGranted
<1>2. l \in [K -> Moneys(PolicyValues)]
  <2>1. ASSUME NEW k \in K PROVE SeedLimits(c, k) \in PolicyValues
    BY <1>1, KeyAssumption DEF Inductive, AmountsAreKnown, SeedLimits
  <2>. QED
    BY <2>1 DEF Moneys
<1>3. ASSUME NEW k \in K
      PROVE  /\ budget'[k].limit[Money]
                  = IF k \in seeded THEN budget[k].limit[Money] ELSE l[k]
             /\ budget'[k].committed[Money] = budget[k].committed[Money]
             /\ budget'[k].reserved[Money] = budget[k].reserved[Money] + a
             /\ budget'[k].overage = budget[k].overage
             /\ budget[k].committed[Money] + budget[k].reserved[Money] + a
                  <= budget'[k].limit[Money]
  <2>. DEFINE item == ItemFor(k, SeedLimits(c, k))
  <2>1. item \in Item /\ k \in Key
    BY GrantFits
  <2>2. /\ budget'[k].limit = item.limit
        /\ budget'[k].committed = item.committed
        /\ budget'[k].reserved[Money] = item.reserved[Money] + a
        /\ budget'[k].overage = item.overage
    BY <1>1, <2>1, WithHoldMoves, DimAssumption
  <2>3. /\ item.committed[Money] \in Int /\ item.reserved[Money] \in Int
        /\ item.limit[Money] \in Int /\ a \in Int
    BY <1>1, <2>1, ItemQuantities, DimAssumption DEF Amount
  <2>4. CASE k \in seeded
    <3>1. item = budget[k]
      BY <2>4 DEF ItemFor
    <3>2. budget'[k].committed[Money] + budget'[k].reserved[Money]
            <= budget'[k].limit[Money]
      BY GrantStaysWithin, DimAssumption
    <3>. HIDE DEF item
    <3>. QED
      BY <2>2, <2>4, <2>3, <3>1, <3>2
  <2>5. CASE k \notin seeded
    <3>1. /\ item.limit = SeedLimits(c, k) /\ item.committed[Money] = 0
          /\ item.reserved[Money] = 0 /\ item.overage = 0
      BY <2>5, DimAssumption DEF ItemFor, NoItem, Zero
    <3>2. /\ budget[k].committed[Money] = 0 /\ budget[k].reserved[Money] = 0
          /\ budget[k].overage = 0
      BY <2>1, <2>5, DimAssumption DEF Inductive, UnseededIsEmpty, NoItem, Zero
    <3>3. budget'[k].committed[Money] + budget'[k].reserved[Money]
            <= budget'[k].limit[Money]
      BY GrantStaysWithin, DimAssumption
    <3>4. l[k] = SeedLimits(c, k)[Money]
      OBVIOUS
    <3>. HIDE DEF item, l
    <3>. QED
      BY <2>2, <2>5, <2>3, <3>1, <3>2, <3>3, <3>4
  <2>. QED
    BY <2>4, <2>5
<1>4. ASSUME NEW k \in Key \ K PROVE budget'[k] = budget[k]
  BY <1>1
<1>. HIDE DEF l
<1>. QED
  BY <1>1, <1>2, <1>3, <1>4 DEF Cap!Hold

\* A settlement is an abstract settlement of its hold, on its items.
LEMMA SettlementRefines ==
  ASSUME Inductive, NEW c \in Call, CanSettle(c), UNCHANGED seeded,
         NEW actual \in Amount, SettleItems(c, actual),
         NEW K, K = resv[c].keys, NEW h, h = resv[c].cost[Money],
         NEW a, a = actual[Money]
  PROVE  Cap!Settle(K, h, a)
<1>1. /\ resv[c].keys \subseteq Key /\ resv[c].cost \in Amount
      /\ budget \in [Key -> Item]
  BY ReservationTypes DEF Inductive, TypeOK
<1>2. resv[c].cost[Money] \in Nat /\ actual[Money] \in Nat
  BY <1>1, DimAssumption DEF Amount
<1>3. ASSUME NEW k \in resv[c].keys
      PROVE  /\ k \in seeded /\ resv[c].cost[Money] <= budget[k].reserved[Money]
             /\ budget'[k].reserved[Money]
                  = budget[k].reserved[Money] - resv[c].cost[Money]
             /\ budget'[k].committed[Money]
                  = budget[k].committed[Money] + actual[Money]
             /\ budget'[k].overage
                  = budget[k].overage + Excess(actual, resv[c].cost)
             /\ budget'[k].limit = budget[k].limit
  <2>1. k \in seeded /\ budget[k].reserved[Money] >= resv[c].cost[Money]
    BY DEF CanSettle
  <2>2. resv[c].cost[Money] <= budget[k].reserved[Money]
    <3>1. budget[k] \in Item
      BY <1>1
    <3>2. budget[k].reserved[Money] \in Int
      BY <3>1, ItemQuantities, DimAssumption
    <3>. QED
      BY <1>2, <2>1, <3>2
  <2>3. budget'[k] = Settled(budget[k], resv[c].cost, actual)
    BY <1>1 DEF SettleItems
  <2>. QED
    BY <1>1, <2>1, <2>2, <2>3, SettledMoves, DimAssumption
<1>4. ASSUME NEW k \in Key \ resv[c].keys PROVE budget'[k] = budget[k]
  BY DEF SettleItems
<1>5. ASSUME NEW k \in Key PROVE budget[k].overage \in Int
  BY <1>1 DEF Item
<1>. QED
  BY <1>1, <1>2, <1>3, <1>4, <1>5 DEF Cap!Settle, Excess

\* Every amount and limit in play is one the abstract module allows.
LEMMA KnownMoneys ==
  ASSUME Inductive, NEW c \in Call, CanSettle(c)
  PROVE  /\ resv[c].cost[Money] \in Moneys(Costs \cup Usages \cup {Zero})
         /\ call[c].usage[Money] \in Moneys(Costs \cup Usages \cup {Zero})
         /\ Zero[Money] \in Moneys(Costs \cup Usages \cup {Zero})
BY DEF Inductive, AmountsAreKnown, CanSettle, Moneys

\* Every step of the engine is a hold, a settlement or a stutter of the cap.
LEMMA NextRefines == Inductive /\ [Next]_vars => [Cap!Next]_(Cap!cap)
<1>. SUFFICES ASSUME Inductive, [Next]_vars PROVE [Cap!Next]_(Cap!cap)
  OBVIOUS
<1>1. CASE UNCHANGED <<seeded, budget>>
  BY <1>1 DEF Cap!cap
<1>2. ASSUME NEW c \in Call, ReserveGranted(c) PROVE Cap!Next
  <2>1. PICK K \in SUBSET Key : K = call[c].keys
    BY FrameTypes DEF Inductive, TypeOK
  <2>2. PICK a \in Moneys(Costs \cup Usages \cup {Zero}) : a = call[c].cost[Money]
    BY <1>2 DEF Inductive, AmountsAreKnown, ReserveGranted, Moneys
  <2>. QED
    BY <1>2, <2>1, <2>2, GrantRefines DEF Cap!Next
<1>3. ASSUME NEW c \in Call, CanSettle(c), UNCHANGED seeded,
             NEW actual \in Amount, SettleItems(c, actual),
             actual[Money] \in Moneys(Costs \cup Usages \cup {Zero})
      PROVE  Cap!Next
  <2>1. PICK K \in SUBSET Key : K = resv[c].keys
    BY ReservationTypes DEF Inductive, TypeOK
  <2>2. PICK h \in Moneys(Costs \cup Usages \cup {Zero}) : h = resv[c].cost[Money]
    BY <1>3, KnownMoneys
  <2>3. Cap!Settle(K, h, actual[Money])
    BY <1>3, <2>1, <2>2, SettlementRefines
  <2>. QED
    BY <1>3, <2>3 DEF Cap!Next
<1>4. ASSUME NEW c \in Call, Reconcile(c) \/ Release(c) PROVE Cap!Next
  <2>1. CASE Reconcile(c)
    <3>1. PICK actual \in Amount : actual = call[c].usage
      BY FrameTypes DEF Inductive, TypeOK
    <3>2. CanSettle(c) /\ UNCHANGED seeded /\ SettleItems(c, actual)
      BY <2>1, <3>1 DEF Reconcile
    <3>. QED
      BY <1>3, <3>1, <3>2, KnownMoneys
  <2>2. CASE Release(c)
    <3>1. CanSettle(c) /\ UNCHANGED seeded /\ SettleItems(c, Zero)
      BY <2>2 DEF Release
    <3>. QED
      BY <1>3, <3>1, KnownMoneys, VectorTypes
  <2>. QED
    BY <1>4, <2>1, <2>2
<1>5. ASSUME NEW c \in Call, MarkPending(c) PROVE UNCHANGED Cap!cap
  <2>1. resv[c].cost \in Amount /\ budget \in [Key -> Item]
    BY ReservationTypes DEF Inductive, TypeOK
  <2>2. ASSUME NEW k \in Key
        PROVE  /\ budget'[k].limit = budget[k].limit
               /\ budget'[k].committed = budget[k].committed
               /\ budget'[k].reserved = budget[k].reserved
               /\ budget'[k].overage = budget[k].overage
    BY <1>5, <2>1, WithPendingMoves DEF MarkPending
  <2>3. seeded' = seeded
    BY <1>5 DEF MarkPending
  <2>. QED
    BY <2>2, <2>3 DEF Cap!cap
<1>. QED
  BY <1>1, <1>2, <1>4, <1>5, AccountSteps DEF AccountStep

\* The engine implements the abstract hard cap.
THEOREM EngineImplementsHardCap == Spec => ImplementsHardCap
BY InitRefines, NextRefines, InductiveHolds, PTL
   DEF Spec, ImplementsHardCap, Cap!Spec

-----------------------------------------------------------------------------
(* The books: counters against what they count *)

\* Every variable has its type, in a state of the invariant.
LEMMA ReckonedTypes ==
  ASSUME Reckoned
  PROVE  /\ call \in [Call -> Frame] /\ resv \in [Call -> Reservation]
         /\ budget \in [Key -> Item] /\ billed \in [Call -> Amount]
         /\ ledger \subseteq Entry /\ seeded \subseteq Key
BY DEF Reckoned, Inductive, TypeOK

\* The calls that count on an item are finitely many.
LEMMA FinitelyManyOn ==
  ASSUME Reckoned, NEW k
  PROVE  /\ IsFiniteSet(Covering(k)) /\ IsFiniteSet(Holding(k))
         /\ IsFiniteSet(Unresolved(k))
         /\ Holding(k) \subseteq Covering(k) /\ Unresolved(k) \subseteq Covering(k)
         /\ Covering(k) \subseteq Call
<1>1. /\ Covering(k) \subseteq {c \in Call : resv[c].state # "NONE"}
      /\ Holding(k) \subseteq Covering(k) /\ Unresolved(k) \subseteq Covering(k)
      /\ Covering(k) \subseteq Call
  BY DEF Reckoned, InStep, Covering, Holding, Unresolved
<1>2. IsFiniteSet({c \in Call : resv[c].state # "NONE"})
  BY DEF Reckoned, FinitelyMany
<1>3. IsFiniteSet(Covering(k))
  BY <1>1, <1>2, FS_Subset
<1>. QED
  BY <1>1, <1>3, FS_Subset

\* An open account holds integers in every counter.
LEMMA ItemCounters ==
  ASSUME NEW item \in Item
  PROVE  item.pending \in Int /\ item.open \in Int /\ item.overage \in Int
BY DEF Item

\* What a hold does to the counters beside the money.
LEMMA WithHoldCounts ==
  ASSUME NEW item \in Item, NEW cost \in Amount
  PROVE  /\ WithHold(item, cost).open = item.open + 1
         /\ WithHold(item, cost).pending = item.pending
BY DEF WithHold, Item

\* What a settlement does to the counters beside the money.
LEMMA SettledCounts ==
  ASSUME NEW item \in Item, NEW held \in Amount, NEW actual \in Amount
  PROVE  /\ Settled(item, held, actual).open = item.open - 1
         /\ Backend = "dynamo" =>
              Settled(item, held, actual).pending = item.pending
BY DEF Settled, Item, PendingAfterSettle

\* What a pending mark does to the counters beside the money.
LEMMA WithPendingCounts ==
  ASSUME NEW item \in Item, NEW held \in Amount
  PROVE  /\ WithPending(item, held).open = item.open
         /\ WithPending(item, held).pending = item.pending + held[Money]
BY DEF WithPending, Item

-----------------------------------------------------------------------------
(* The steps, by what they enter in the books *)

\* A grant enters one new hold, on the items of its call.
LEMMA GrantEnters ==
  ASSUME Reckoned, NEW c \in Call, ReserveGranted(c)
  PROVE  /\ resv[c].state = "NONE" /\ resv[c].keys = {}
         /\ call[c].cost \in Amount /\ call[c].keys \subseteq Key
         /\ resv' \in [Call -> Reservation]
         /\ resv'[c].state = "RESERVED" /\ resv'[c].keys = call[c].keys
         /\ resv'[c].cost = call[c].cost
         /\ \A b \in Call \ {c} : resv'[b] = resv[b]
         /\ seeded' = seeded \cup call[c].keys
         /\ ledger' = ledger /\ billed' = billed
<1>1. resv' \in [Call -> Reservation]
  <2>1. TypeOK'
    BY NextTypeOK DEF Reckoned, Inductive, Next, Progress
  <2>. QED
    BY <2>1 DEF TypeOK
<1>2. resv[c].state = "NONE" /\ resv[c].keys = {}
  BY DEF Reckoned, InStep, ReserveGranted, At
<1>. QED
  BY <1>1, <1>2, ReckonedTypes, FrameTypes DEF ReserveGranted, NoReservation

\* What a grant changes of an item.
LEMMA GrantCounts ==
  ASSUME Reckoned, NEW c \in Call, ReserveGranted(c), NEW k \in Key
  PROVE  /\ k \in call[c].keys =>
              /\ \A d \in Dim : /\ budget'[k].reserved[d]
                                     = budget[k].reserved[d] + call[c].cost[d]
                                /\ budget'[k].committed[d] = budget[k].committed[d]
              /\ budget'[k].open = budget[k].open + 1
              /\ budget'[k].pending = budget[k].pending
              /\ budget'[k].overage = budget[k].overage
         /\ k \notin call[c].keys => budget'[k] = budget[k]
<1>1. CASE k \in call[c].keys
  <2>. DEFINE item == ItemFor(k, SeedLimits(c, k))
  <2>1. item \in Item /\ call[c].cost \in Amount
    BY <1>1, GrantFits DEF Reckoned
  <2>2. budget'[k] = WithHold(item, call[c].cost)
    BY <1>1 DEF ReserveGranted
  <2>3. /\ item.reserved = budget[k].reserved /\ item.committed = budget[k].committed
        /\ item.open = budget[k].open /\ item.pending = budget[k].pending
        /\ item.overage = budget[k].overage
    <3>1. CASE k \in seeded
      BY <3>1 DEF ItemFor
    <3>2. CASE k \notin seeded
      <4>1. budget[k] = NoItem
        BY <3>2 DEF Reckoned, Inductive, UnseededIsEmpty
      <4>. QED
        BY <3>2, <4>1 DEF ItemFor, NoItem
    <3>. QED
      BY <3>1, <3>2
  <2>. HIDE DEF item
  <2>. QED
    BY <1>1, <2>1, <2>2, <2>3, WithHoldMoves, WithHoldCounts, DimAssumption
<1>2. CASE k \notin call[c].keys
  BY <1>2 DEF ReserveGranted
<1>. QED
  BY <1>1, <1>2

\* A settlement of call c that counts actual against its hold.
Settles(c, actual) == \/ Reconcile(c) /\ actual = call[c].usage
                      \/ Release(c) /\ actual = Zero

\* A settlement ends one hold, at what the provider charged.
LEMMA SettlementEnters ==
  ASSUME Reckoned, NEW c \in Call, NEW actual, Settles(c, actual)
  PROVE  /\ resv[c].state = "RESERVED" /\ actual = billed[c]
         /\ actual \in Amount /\ resv[c].cost \in Amount
         /\ resv' \in [Call -> Reservation]
         /\ resv'[c].keys = resv[c].keys /\ resv'[c].cost = resv[c].cost
         /\ \/ resv'[c].state = "RECONCILED"
            \/ resv'[c].state = "RELEASED" /\ actual = Zero
         /\ \A b \in Call \ {c} : resv'[b] = resv[b]
         /\ seeded' = seeded /\ billed' = billed
<1>1. call[c].usage \in Amount /\ Zero \in Amount /\ resv[c].cost \in Amount
  BY ReckonedTypes, FrameTypes, VectorTypes, ReservationTypes
<1>2. CASE Reconcile(c) /\ actual = call[c].usage
  <2>1. resv' = [resv EXCEPT ![c].state = "RECONCILED"]
    BY <1>2 DEF Reconcile
  <2>2. resv' \in [Call -> Reservation]
    BY <2>1, ReckonedTypes, SettlementType DEF State
  <2>3. actual = billed[c]
    BY <1>2 DEF Reckoned, InStep, Reconcile
  <2>4. /\ resv'[c].keys = resv[c].keys /\ resv'[c].cost = resv[c].cost
        /\ resv'[c].state = "RECONCILED"
        /\ \A b \in Call \ {c} : resv'[b] = resv[b]
    BY <2>1, ReckonedTypes DEF Reservation
  <2>. QED
    BY <1>1, <1>2, <2>2, <2>3, <2>4 DEF Reconcile, CanSettle
<1>3. CASE Release(c) /\ actual = Zero
  <2>1. resv' = [resv EXCEPT ![c].state = "RELEASED"]
    BY <1>3 DEF Release
  <2>2. resv' \in [Call -> Reservation]
    BY <2>1, ReckonedTypes, SettlementType DEF State
  <2>3. actual = billed[c]
    BY <1>3 DEF Reckoned, InStep, Release
  <2>4. /\ resv'[c].keys = resv[c].keys /\ resv'[c].cost = resv[c].cost
        /\ resv'[c].state = "RELEASED"
        /\ \A b \in Call \ {c} : resv'[b] = resv[b]
    BY <2>1, ReckonedTypes DEF Reservation
  <2>. QED
    BY <1>1, <1>3, <2>2, <2>3, <2>4 DEF Release, CanSettle
<1>. QED
  BY <1>2, <1>3 DEF Settles

\* What a settlement changes of an item.
LEMMA SettlementCounts ==
  ASSUME Reckoned, NEW c \in Call, NEW actual, Settles(c, actual), NEW k \in Key
  PROVE  /\ k \in resv[c].keys =>
              /\ \A d \in Dim :
                   /\ budget'[k].reserved[d] = budget[k].reserved[d] - resv[c].cost[d]
                   /\ budget'[k].committed[d] = budget[k].committed[d] + actual[d]
              /\ budget'[k].open = budget[k].open - 1
              /\ Backend = "dynamo" => budget'[k].pending = budget[k].pending
              /\ budget'[k].overage
                   = budget[k].overage + Excess(actual, resv[c].cost)
         /\ k \notin resv[c].keys => budget'[k] = budget[k]
<1>1. actual \in Amount /\ resv[c].cost \in Amount /\ budget[k] \in Item
  BY SettlementEnters, ReckonedTypes
<1>2. SettleItems(c, actual)
  BY DEF Settles, Reconcile, Release
<1>. QED
  BY <1>1, <1>2, SettledMoves, SettledCounts, DimAssumption DEF SettleItems

\* A pending mark keeps the hold and marks it unresolved.
LEMMA PendingEnters ==
  ASSUME Reckoned, NEW c \in Call, MarkPending(c)
  PROVE  /\ resv[c].state = "RESERVED" /\ resv[c].cost \in Amount
         /\ resv' \in [Call -> Reservation]
         /\ resv'[c].keys = resv[c].keys /\ resv'[c].cost = resv[c].cost
         /\ resv'[c].state = "RECONCILE_PENDING"
         /\ \A b \in Call \ {c} : resv'[b] = resv[b]
         /\ seeded' = seeded /\ billed' = billed
<1>1. resv' = [resv EXCEPT ![c].state = "RECONCILE_PENDING"]
  BY DEF MarkPending
<1>2. resv' \in [Call -> Reservation]
  BY <1>1, ReckonedTypes, SettlementType DEF State
<1>3. /\ resv'[c].keys = resv[c].keys /\ resv'[c].cost = resv[c].cost
      /\ resv'[c].state = "RECONCILE_PENDING"
      /\ \A b \in Call \ {c} : resv'[b] = resv[b]
  BY <1>1, ReckonedTypes DEF Reservation
<1>. QED
  BY <1>2, <1>3, ReckonedTypes, ReservationTypes DEF MarkPending, CanSettle

\* What a pending mark changes of an item.
LEMMA PendingCounts ==
  ASSUME Reckoned, NEW c \in Call, MarkPending(c), NEW k \in Key
  PROVE  /\ budget'[k].reserved = budget[k].reserved
         /\ budget'[k].committed = budget[k].committed
         /\ budget'[k].open = budget[k].open
         /\ budget'[k].overage = budget[k].overage
         /\ budget'[k].pending = budget[k].pending
              + IF k \in resv[c].keys THEN resv[c].cost[Money] ELSE 0
<1>1. resv[c].cost \in Amount /\ budget[k] \in Item
  BY PendingEnters, ReckonedTypes
<1>2. budget[k].pending \in Int
  BY <1>1, ItemCounters
<1>. QED
  BY <1>1, <1>2, WithPendingMoves, WithPendingCounts DEF MarkPending

\* The other steps enter nothing: they leave the items, the ledger and what the
\* reservations hold as they are.
Quiet ==
  /\ UNCHANGED <<seeded, budget, ledger>>
  /\ \A b \in Call : /\ resv'[b].state = resv[b].state
                     /\ resv'[b].keys = resv[b].keys
                     /\ resv'[b].cost = resv[b].cost

\* Every step, by what it enters in the books.
LEMMA BookSteps ==
  ASSUME Reckoned, [Next]_vars
  PROVE  \/ Quiet
         \/ \E c \in Call : ReserveGranted(c)
         \/ \E c \in Call : \E actual \in Amount : Settles(c, actual)
         \/ \E c \in Call : MarkPending(c)
<1>1. CASE \E c \in Call : MarkDispatched(c)
  <2>1. PICK c \in Call : MarkDispatched(c)
    BY <1>1
  <2>. QED
    BY <2>1, ReckonedTypes DEF MarkDispatched, Quiet, Reservation
<1>2. CASE \E c \in Call : Reconcile(c) \/ Release(c)
  <2>1. PICK c \in Call : Reconcile(c) \/ Release(c)
    BY <1>2
  <2>2. call[c].usage \in Amount /\ Zero \in Amount
    BY ReckonedTypes, FrameTypes, VectorTypes
  <2>. QED
    BY <2>1, <2>2 DEF Settles
<1>3. CASE UNCHANGED <<seeded, budget, ledger, resv>>
  BY <1>3 DEF Quiet
<1>. QED
  BY <1>1, <1>2, <1>3
  DEF Next, vars, store, world, Progress, Arrive, ReserveDenied,
      ResolveIdempotency, ProviderAnswers, ReserveConflict,
      SettleConflict, Crash, Tick, SetPolicy, SetAgentStatus, SetSessionStatus

-----------------------------------------------------------------------------
(* The reservations on an item *)

\* Nothing an item is counted for changes in a step that enters nothing.
LEMMA QuietSums ==
  ASSUME Reckoned, Quiet, NEW k
  PROVE  /\ Covering(k)' = Covering(k) /\ Holding(k)' = Holding(k)
         /\ Unresolved(k)' = Unresolved(k)
BY DEF Quiet, Covering, Holding, Unresolved

\* A grant adds its call to those that count on its items.
LEMMA GrantCovers ==
  ASSUME Reckoned, NEW c \in Call, ReserveGranted(c), NEW k
  PROVE  /\ c \notin Covering(k) /\ c \notin Holding(k)
         /\ k \in call[c].keys => /\ Covering(k)' = Covering(k) \cup {c}
                                  /\ Holding(k)' = Holding(k) \cup {c}
         /\ k \notin call[c].keys => /\ Covering(k)' = Covering(k)
                                     /\ Holding(k)' = Holding(k)
         /\ Unresolved(k)' = Unresolved(k)
BY GrantEnters DEF Covering, Holding, Unresolved, Held

\* A settlement takes its call from those that hold.
LEMMA SettlementCovers ==
  ASSUME Reckoned, NEW c \in Call, NEW actual, Settles(c, actual), NEW k
  PROVE  /\ Covering(k)' = Covering(k)
         /\ Holding(k)' = Holding(k) \ {c}
         /\ k \in resv[c].keys => c \in Holding(k)
         /\ k \notin resv[c].keys => c \notin Holding(k)
         /\ Unresolved(k)' = Unresolved(k)
BY SettlementEnters DEF Covering, Holding, Unresolved, Held

\* A pending mark adds its call to the unresolved ones on its items.
LEMMA PendingCovers ==
  ASSUME Reckoned, NEW c \in Call, MarkPending(c), NEW k
  PROVE  /\ Covering(k)' = Covering(k) /\ Holding(k)' = Holding(k)
         /\ c \notin Unresolved(k)
         /\ k \in resv[c].keys => Unresolved(k)' = Unresolved(k) \cup {c}
         /\ k \notin resv[c].keys => Unresolved(k)' = Unresolved(k)
BY PendingEnters DEF Covering, Holding, Unresolved, Held

\* What a call holds is a natural number, in every dimension.
LEMMA CostTypes ==
  ASSUME Reckoned, NEW b \in Call, NEW d \in Dim
  PROVE  resv[b].cost[d] \in Nat
BY ReckonedTypes, ReservationTypes DEF Amount

\* The hold of a new call is added to what its items are said to hold.
LEMMA HeldAfterGrant ==
  ASSUME Reckoned, NEW c \in Call, ReserveGranted(c), NEW k, NEW d \in Dim
  PROVE  HeldOn(k, d)' = HeldOn(k, d)
           + IF k \in call[c].keys THEN call[c].cost[d] ELSE 0
<1>. DEFINE f == [b \in Call |-> resv[b].cost[d]]
            g == [b \in Call |-> resv'[b].cost[d]]
<1>1. \A b \in Call : f[b] \in Int
  BY CostTypes
<1>2. /\ call[c].cost[d] \in Int /\ g[c] = call[c].cost[d]
      /\ \A b \in Call \ {c} : g[b] = f[b]
  BY GrantEnters DEF Amount
<1>3. IsFiniteSet(Holding(k)) /\ Holding(k) \subseteq Call
  BY FinitelyManyOn
<1>4. /\ HeldOn(k, d) = SumFunctionOnSet(f, Holding(k))
      /\ HeldOn(k, d)' = SumFunctionOnSet(g, Holding(k)')
  BY DEF HeldOn
<1>5. SumFunctionOnSet(f, Holding(k)) \in Int
  BY <1>1, <1>3, SumType
<1>6. c \notin Holding(k) /\ \A b \in Holding(k) : g[b] = f[b]
  BY <1>2, <1>3, GrantCovers
<1>. HIDE DEF f, g
<1>7. CASE k \in call[c].keys
  <2>1. Holding(k)' = Holding(k) \cup {c}
    BY <1>7, GrantCovers
  <2>2. SumFunctionOnSet(g, Holding(k) \cup {c})
          = SumFunctionOnSet(f, Holding(k)) + g[c]
    BY <1>1, <1>2, <1>3, <1>6, SumGains
  <2>. QED
    BY <1>2, <1>4, <1>7, <2>1, <2>2
<1>8. CASE k \notin call[c].keys
  <2>1. Holding(k)' = Holding(k)
    BY <1>8, GrantCovers
  <2>2. SumFunctionOnSet(g, Holding(k)) = SumFunctionOnSet(f, Holding(k))
    BY <1>3, <1>6, SumSame
  <2>. QED
    BY <1>4, <1>5, <1>8, <2>1, <2>2
<1>. QED
  BY <1>7, <1>8

\* The hold of a settled call is taken off what its items are said to hold.
LEMMA HeldAfterSettlement ==
  ASSUME Reckoned, NEW c \in Call, NEW actual, Settles(c, actual),
         NEW k, NEW d \in Dim
  PROVE  HeldOn(k, d)' = HeldOn(k, d)
           - IF k \in resv[c].keys THEN resv[c].cost[d] ELSE 0
<1>. DEFINE f == [b \in Call |-> resv[b].cost[d]]
            g == [b \in Call |-> resv'[b].cost[d]]
<1>1. \A b \in Call : f[b] \in Int /\ g[b] = f[b]
  BY CostTypes, SettlementEnters
<1>2. IsFiniteSet(Holding(k)) /\ Holding(k) \subseteq Call
  BY FinitelyManyOn
<1>3. /\ HeldOn(k, d) = SumFunctionOnSet(f, Holding(k))
      /\ HeldOn(k, d)' = SumFunctionOnSet(g, Holding(k) \ {c})
  BY SettlementCovers DEF HeldOn
<1>4. SumFunctionOnSet(f, Holding(k)) \in Int /\ f[c] = resv[c].cost[d]
  BY <1>1, <1>2, SumType
<1>. HIDE DEF f, g
<1>5. CASE k \in resv[c].keys
  <2>1. c \in Holding(k)
    BY <1>5, SettlementCovers
  <2>2. SumFunctionOnSet(g, Holding(k) \ {c})
          = SumFunctionOnSet(f, Holding(k)) - f[c]
    <3>1. /\ \A b \in Holding(k) : f[b] \in Int
          /\ \A b \in Holding(k) \ {c} : g[b] = f[b]
      BY <1>1, <1>2
    <3>. QED
      BY <1>2, <2>1, <3>1, SumLoses
  <2>. QED
    BY <1>3, <1>4, <1>5, <2>2
<1>6. CASE k \notin resv[c].keys
  <2>1. Holding(k) \ {c} = Holding(k)
    BY <1>6, SettlementCovers
  <2>2. SumFunctionOnSet(g, Holding(k)) = SumFunctionOnSet(f, Holding(k))
    BY <1>1, <1>2, SumSame
  <2>. QED
    BY <1>3, <1>4, <1>6, <2>1, <2>2
<1>. QED
  BY <1>5, <1>6

\* Where no call that holds changes, what is held does not change.
LEMMA HeldUnchanged ==
  ASSUME Reckoned, NEW k, NEW d, Holding(k)' = Holding(k),
         \A b \in Call : resv'[b].cost = resv[b].cost
  PROVE  HeldOn(k, d)' = HeldOn(k, d)
BY FinitelyManyOn, SumSame DEF HeldOn

\* Every step changes what an item holds by what the reservations on it do.
LEMMA NextHolds == Reckoned /\ [Next]_vars => HoldsMatchReservations'
<1>. SUFFICES ASSUME Reckoned, [Next]_vars, NEW k \in Key
              PROVE  /\ \A d \in Dim : budget'[k].reserved[d] = HeldOn(k, d)'
                     /\ budget'[k].open = Cardinality(Holding(k)')
  BY DEF HoldsMatchReservations
<1>1. /\ \A d \in Dim : budget[k].reserved[d] = HeldOn(k, d)
      /\ budget[k].open = Cardinality(Holding(k))
  BY DEF Reckoned, HoldsMatchReservations
<1>2. /\ budget[k].open \in Int /\ \A d \in Dim : budget[k].reserved[d] \in Int
      /\ IsFiniteSet(Holding(k))
  BY ReckonedTypes, ItemCounters, ItemQuantities, FinitelyManyOn
<1>3. CASE Quiet
  <2>1. Holding(k)' = Holding(k) /\ budget' = budget
    BY <1>3, QuietSums DEF Quiet
  <2>2. \A d \in Dim : HeldOn(k, d)' = HeldOn(k, d)
    BY <1>3, <2>1, HeldUnchanged DEF Quiet
  <2>. QED
    BY <1>1, <2>1, <2>2
<1>4. ASSUME NEW c \in Call, ReserveGranted(c)
      PROVE  /\ \A d \in Dim : budget'[k].reserved[d] = HeldOn(k, d)'
             /\ budget'[k].open = Cardinality(Holding(k)')
  <2>1. ASSUME NEW d \in Dim PROVE budget'[k].reserved[d] = HeldOn(k, d)'
    BY <1>1, <1>2, <1>4, GrantCounts, HeldAfterGrant
  <2>2. budget'[k].open = Cardinality(Holding(k)')
    <3>1. CASE k \in call[c].keys
      <4>1. Holding(k)' = Holding(k) \cup {c} /\ c \notin Holding(k)
        BY <1>4, <3>1, GrantCovers
      <4>2. Cardinality(Holding(k) \cup {c}) = Cardinality(Holding(k)) + 1
        BY <1>2, <4>1, FS_AddElement
      <4>. QED
        BY <1>1, <1>4, <3>1, <4>1, <4>2, GrantCounts
    <3>2. CASE k \notin call[c].keys
      BY <1>1, <1>4, <3>2, GrantCounts, GrantCovers
    <3>. QED
      BY <3>1, <3>2
  <2>. QED
    BY <2>1, <2>2
<1>5. ASSUME NEW c \in Call, NEW actual, Settles(c, actual)
      PROVE  /\ \A d \in Dim : budget'[k].reserved[d] = HeldOn(k, d)'
             /\ budget'[k].open = Cardinality(Holding(k)')
  <2>1. ASSUME NEW d \in Dim PROVE budget'[k].reserved[d] = HeldOn(k, d)'
    BY <1>1, <1>2, <1>5, SettlementCounts, HeldAfterSettlement
  <2>2. budget'[k].open = Cardinality(Holding(k)')
    <3>1. CASE k \in resv[c].keys
      <4>1. Holding(k)' = Holding(k) \ {c} /\ c \in Holding(k)
        BY <1>5, <3>1, SettlementCovers
      <4>2. Cardinality(Holding(k) \ {c}) = Cardinality(Holding(k)) - 1
        BY <1>2, <4>1, FS_RemoveElement
      <4>. QED
        BY <1>1, <1>5, <3>1, <4>1, <4>2, SettlementCounts
    <3>2. CASE k \notin resv[c].keys
      <4>1. Holding(k)' = Holding(k)
        BY <1>5, <3>2, SettlementCovers
      <4>. QED
        BY <1>1, <1>5, <3>2, <4>1, SettlementCounts
    <3>. QED
      BY <3>1, <3>2
  <2>. QED
    BY <2>1, <2>2
<1>6. ASSUME NEW c \in Call, MarkPending(c)
      PROVE  /\ \A d \in Dim : budget'[k].reserved[d] = HeldOn(k, d)'
             /\ budget'[k].open = Cardinality(Holding(k)')
  <2>1. /\ Holding(k)' = Holding(k)
        /\ budget'[k].reserved = budget[k].reserved
        /\ budget'[k].open = budget[k].open
        /\ \A b \in Call : resv'[b].cost = resv[b].cost
    BY <1>6, PendingCovers, PendingCounts, PendingEnters
  <2>2. \A d \in Dim : HeldOn(k, d)' = HeldOn(k, d)
    BY <2>1, HeldUnchanged
  <2>. QED
    BY <1>1, <2>1, <2>2
<1>. QED
  BY <1>3, <1>4, <1>5, <1>6, BookSteps

-----------------------------------------------------------------------------
(* The entries of the ledger *)

\* The entries on an item are finitely many, each of a natural amount.
LEMMA EntriesOnTypes ==
  ASSUME Reckoned, NEW k, NEW kind
  PROVE  /\ IsFiniteSet(EntriesOn(k, kind))
         /\ EntriesOn(k, kind) \subseteq ledger
         /\ \A e \in ledger : e.amount \in Nat /\ e.call \in Call
<1>1. IsFiniteSet(ledger) /\ EntriesOn(k, kind) \subseteq ledger
  BY DEF Reckoned, FinitelyMany, EntriesOn
<1>2. \A e \in ledger : e.amount \in Nat /\ e.call \in Call
  BY ReckonedTypes DEF Entry
<1>. QED
  BY <1>1, <1>2, FS_Subset

\* A new entry on an item adds its amount to what is recorded there.
LEMMA RecordedGains ==
  ASSUME Reckoned, NEW k, NEW kind, NEW e, e \notin EntriesOn(k, kind),
         ledger \subseteq ledger', e \in ledger', e.amount \in Int,
         EntriesOn(k, kind)' = EntriesOn(k, kind) \cup {e}
  PROVE  Recorded(k, kind)' = Recorded(k, kind) + e.amount
<1>. DEFINE f == [x \in ledger |-> x.amount]
            g == [x \in ledger' |-> x.amount]
            S == EntriesOn(k, kind)
<1>1. /\ IsFiniteSet(S) /\ \A x \in S : f[x] \in Int /\ g[x] = f[x]
      /\ g[e] = e.amount
  BY EntriesOnTypes
<1>2. /\ Recorded(k, kind) = SumFunctionOnSet(f, S)
      /\ Recorded(k, kind)' = SumFunctionOnSet(g, S \cup {e})
  BY DEF Recorded
<1>3. e \notin S /\ e.amount \in Int
  OBVIOUS
<1>. HIDE DEF f, g, S
<1>4. SumFunctionOnSet(g, S \cup {e}) = SumFunctionOnSet(f, S) + g[e]
  BY <1>1, <1>3, SumGains
<1>. QED
  BY <1>1, <1>2, <1>4

\* Where no entry comes, what is recorded does not change.
LEMMA RecordedUnchanged ==
  ASSUME Reckoned, NEW k, NEW kind, ledger \subseteq ledger',
         EntriesOn(k, kind)' = EntriesOn(k, kind)
  PROVE  Recorded(k, kind)' = Recorded(k, kind)
<1>. DEFINE f == [x \in ledger |-> x.amount]
            g == [x \in ledger' |-> x.amount]
            S == EntriesOn(k, kind)
<1>1. IsFiniteSet(S) /\ \A x \in S : f[x] = g[x]
  BY EntriesOnTypes
<1>2. /\ Recorded(k, kind) = SumFunctionOnSet(f, S)
      /\ Recorded(k, kind)' = SumFunctionOnSet(g, S)
  BY DEF Recorded
<1>. HIDE DEF f, g, S
<1>. QED
  BY <1>1, <1>2, SumSame

\* A reserved call has no entry yet.
LEMMA NoEntryYet ==
  ASSUME Reckoned, NEW c \in Call, resv[c].state \in {"NONE", "RESERVED"}
  PROVE  \A e \in ledger : e.call # c
BY DEF Reckoned, LedgerIsOfSettled

\* The entries a settlement writes on the items of its call.
LEMMA EntriesAfter ==
  ASSUME Reckoned, NEW c \in Call, NEW new, ledger' = ledger \cup new,
         resv[c].state = "RESERVED",
         \A b \in Call : resv'[b].keys = resv[b].keys,
         \A e \in new : e.call = c,
         NEW k, NEW kind
  PROVE  EntriesOn(k, kind)' = EntriesOn(k, kind) \cup
           {e \in new : e.kind = kind /\ k \in resv[c].keys}
<1>1. \A e \in ledger : e.call \in Call
  BY EntriesOnTypes
<1>. QED
  BY <1>1 DEF EntriesOn

\* A reconciliation records the bill, and what of it is beyond the hold.
LEMMA ReconcileRecords ==
  ASSUME Reckoned, NEW c \in Call, Reconcile(c), NEW k
  PROVE  /\ Recorded(k, "USAGE")' = Recorded(k, "USAGE")
              + IF k \in resv[c].keys THEN call[c].usage[Money] ELSE 0
         /\ Recorded(k, "OVERAGE")' = Recorded(k, "OVERAGE")
              + IF k \in resv[c].keys
                THEN Excess(call[c].usage, resv[c].cost) ELSE 0
<1>. DEFINE new == UsageEntries(c, call[c].usage)
            over == Excess(call[c].usage, resv[c].cost)
            usage == LedgerEntry(c, 0, "USAGE", call[c].usage[Money])
            extra == LedgerEntry(c, 1, "OVERAGE", over)
<1>1. Settles(c, call[c].usage)
  BY DEF Settles
<1>2. /\ resv[c].state = "RESERVED" /\ ledger' = ledger \cup new
      /\ \A b \in Call : resv'[b].keys = resv[b].keys
  BY <1>1, SettlementEnters DEF Reconcile
<1>3. over \in Nat /\ call[c].usage[Money] \in Nat
  BY ReckonedTypes, FrameTypes, ReservationTypes, VectorTypes
<1>4. new = {usage} \cup (IF over > 0 THEN {extra} ELSE {})
  BY DEF UsageEntries
<1>5. /\ usage.call = c /\ usage.kind = "USAGE"
      /\ usage.amount = call[c].usage[Money]
      /\ extra.call = c /\ extra.kind = "OVERAGE" /\ extra.amount = over
  BY DEF LedgerEntry
<1>6. usage \notin ledger /\ extra \notin ledger
  BY <1>2, <1>5, NoEntryYet
<1>. HIDE DEF new, over, usage, extra
<1>7. ASSUME NEW kind
      PROVE  EntriesOn(k, kind)' = EntriesOn(k, kind) \cup
               {e \in new : e.kind = kind /\ k \in resv[c].keys}
  <2>1. \A e \in new : e.call = c
    BY <1>4, <1>5
  <2>. QED
    BY <1>2, <2>1, EntriesAfter
<1>8. /\ \A kind : EntriesOn(k, kind) \subseteq ledger
      /\ Recorded(k, "USAGE") \in Int /\ Recorded(k, "OVERAGE") \in Int
  <2>1. ASSUME NEW kind PROVE EntriesOn(k, kind) \subseteq ledger
    BY EntriesOnTypes
  <2>2. ASSUME NEW kind PROVE Recorded(k, kind) \in Int
    BY EntriesOnTypes, SumType DEF Recorded
  <2>. QED
    BY <2>1, <2>2
<1>9. CASE k \in resv[c].keys
  <2>1. EntriesOn(k, "USAGE")' = EntriesOn(k, "USAGE") \cup {usage}
    BY <1>4, <1>5, <1>7, <1>9
  <2>2. Recorded(k, "USAGE")' = Recorded(k, "USAGE") + usage.amount
    <3>1. usage \notin EntriesOn(k, "USAGE") /\ usage \in ledger'
      BY <1>2, <1>4, <1>6, <1>8
    <3>. QED
      BY <1>2, <1>3, <1>5, <2>1, <3>1, RecordedGains
  <2>3. CASE over > 0
    <3>1. EntriesOn(k, "OVERAGE")' = EntriesOn(k, "OVERAGE") \cup {extra}
      BY <1>4, <1>5, <1>7, <1>9, <2>3
    <3>2. extra \notin EntriesOn(k, "OVERAGE") /\ extra \in ledger'
      BY <1>2, <1>4, <1>6, <1>8, <2>3
    <3>3. Recorded(k, "OVERAGE")' = Recorded(k, "OVERAGE") + extra.amount
      BY <1>2, <1>3, <1>5, <3>1, <3>2, RecordedGains
    <3>. QED
      BY <1>5, <1>9, <2>2, <3>3 DEF over
  <2>4. CASE over = 0
    <3>1. EntriesOn(k, "OVERAGE")' = EntriesOn(k, "OVERAGE")
      <4>1. new = {usage}
        BY <1>4, <2>4
      <4>. QED
        BY <1>5, <1>7, <4>1
    <3>2. Recorded(k, "OVERAGE")' = Recorded(k, "OVERAGE")
      BY <1>2, <3>1, RecordedUnchanged
    <3>. QED
      BY <1>5, <1>8, <1>9, <2>2, <2>4, <3>2 DEF over
  <2>. QED
    BY <1>3, <2>3, <2>4
<1>10. CASE k \notin resv[c].keys
  <2>1. /\ EntriesOn(k, "USAGE")' = EntriesOn(k, "USAGE")
        /\ EntriesOn(k, "OVERAGE")' = EntriesOn(k, "OVERAGE")
    BY <1>7, <1>10
  <2>2. /\ Recorded(k, "USAGE")' = Recorded(k, "USAGE")
        /\ Recorded(k, "OVERAGE")' = Recorded(k, "OVERAGE")
    BY <1>2, <2>1, RecordedUnchanged
  <2>. QED
    BY <1>8, <1>10, <2>2
<1>. QED
  BY <1>9, <1>10

\* A step that records no usage and no overage leaves both as they are.
LEMMA NothingRecorded ==
  ASSUME Reckoned, NEW c \in Call, resv[c].state = "RESERVED",
         \A b \in Call : resv'[b].keys = resv[b].keys,
         NEW e, e.call = c, e.kind \notin {"USAGE", "OVERAGE"},
         ledger' = ledger \cup {e}, NEW k, NEW kind \in {"USAGE", "OVERAGE"}
  PROVE  Recorded(k, kind)' = Recorded(k, kind)
<1>1. \A x \in ledger : x.call \in Call
  BY EntriesOnTypes
<1>2. EntriesOn(k, kind)' = EntriesOn(k, kind)
  BY <1>1 DEF EntriesOn
<1>. QED
  BY <1>2, RecordedUnchanged

\* A grant records nothing: its call has no entries, and the items of the
\* others are the same.
LEMMA GrantRecordsNothing ==
  ASSUME Reckoned, NEW c \in Call, ReserveGranted(c), NEW k, NEW kind
  PROVE  Recorded(k, kind)' = Recorded(k, kind)
<1>1. \A e \in ledger : e.call \in Call /\ e.call # c
  BY EntriesOnTypes, NoEntryYet, GrantEnters
<1>2. EntriesOn(k, kind)' = EntriesOn(k, kind)
  BY <1>1, GrantEnters DEF EntriesOn
<1>. QED
  BY <1>2, GrantEnters, RecordedUnchanged

\* Every step enters in the ledger what it does to the counters.
LEMMA NextLedgerAgrees == Reckoned /\ [Next]_vars => CommittedMatchesLedger'
<1>. DEFINE Agrees(k) == /\ budget[k].committed[Money] = Recorded(k, "USAGE")
                         /\ budget[k].overage = Recorded(k, "OVERAGE")
<1>. SUFFICES ASSUME Reckoned, [Next]_vars, NEW k \in Key PROVE Agrees(k)'
  BY DEF CommittedMatchesLedger
<1>1. /\ Agrees(k)
      /\ budget[k].committed[Money] \in Int /\ budget[k].overage \in Int
  BY ReckonedTypes, ItemQuantities, DimAssumption
  DEF Reckoned, CommittedMatchesLedger
<1>2. CASE Quiet
  <2>1. \A e \in ledger : e.call \in Call
    BY EntriesOnTypes
  <2>2. ASSUME NEW kind PROVE Recorded(k, kind)' = Recorded(k, kind)
    <3>1. EntriesOn(k, kind)' = EntriesOn(k, kind) /\ ledger' = ledger
      BY <1>2, <2>1 DEF EntriesOn, Quiet
    <3>. QED
      BY <3>1, RecordedUnchanged
  <2>. QED
    BY <1>1, <1>2, <2>2 DEF Quiet
<1>3. ASSUME NEW c \in Call, ReserveGranted(c) PROVE Agrees(k)'
  BY <1>1, <1>3, GrantCounts, GrantRecordsNothing, DimAssumption
<1>4. ASSUME NEW c \in Call, NEW actual, Settles(c, actual) PROVE Agrees(k)'
  <2>1. /\ k \in resv[c].keys =>
             /\ budget'[k].committed[Money] = budget[k].committed[Money] + actual[Money]
             /\ budget'[k].overage = budget[k].overage + Excess(actual, resv[c].cost)
        /\ k \notin resv[c].keys => budget'[k] = budget[k]
    BY <1>4, SettlementCounts, DimAssumption
  <2>2. CASE Reconcile(c) /\ actual = call[c].usage
    BY <1>1, <2>1, <2>2, ReconcileRecords
  <2>3. CASE Release(c) /\ actual = Zero
    <3>1. actual[Money] = 0 /\ Excess(actual, resv[c].cost) = 0
      <4>1. resv[c].cost[Money] \in Nat
        BY ReckonedTypes, ReservationTypes
      <4>. QED
        BY <2>3, <4>1, DimAssumption DEF Zero, Excess
    <3>2. \A kind \in {"USAGE", "OVERAGE"} : Recorded(k, kind)' = Recorded(k, kind)
      <4>. DEFINE e == LedgerEntry(c, 0, "RELEASE", 0)
      <4>1. /\ e.call = c /\ e.kind \notin {"USAGE", "OVERAGE"}
            /\ ledger' = ledger \cup {e}
        BY <2>3 DEF Release, LedgerEntry
      <4>. HIDE DEF e
      <4>. QED
        BY <1>4, <4>1, SettlementEnters, NothingRecorded
    <3>. QED
      BY <1>1, <2>1, <3>1, <3>2
  <2>. QED
    BY <1>4, <2>2, <2>3 DEF Settles
<1>5. ASSUME NEW c \in Call, MarkPending(c) PROVE Agrees(k)'
  <2>1. \A kind \in {"USAGE", "OVERAGE"} : Recorded(k, kind)' = Recorded(k, kind)
    <3>. DEFINE e == LedgerEntry(c, 0, "PENDING_ASSUMED", resv[c].cost[Money])
    <3>1. /\ e.call = c /\ e.kind \notin {"USAGE", "OVERAGE"}
          /\ ledger' = ledger \cup {e}
      BY <1>5 DEF MarkPending, LedgerEntry
    <3>. HIDE DEF e
    <3>. QED
      BY <1>5, <3>1, PendingEnters, NothingRecorded
  <2>. QED
    BY <1>1, <1>5, <2>1, PendingCounts
<1>. QED
  BY <1>2, <1>3, <1>4, <1>5, BookSteps

-----------------------------------------------------------------------------
(* What is pending, and what is counted *)

\* Every step keeps the pending counter at what is held unresolved.
LEMMA NextPending ==
  Reckoned /\ [Next]_vars /\ Backend = "dynamo" => PendingTracksUnresolved'
<1>. SUFFICES ASSUME Reckoned, [Next]_vars, Backend = "dynamo", NEW k \in Key
              PROVE  budget'[k].pending = HeldUnresolved(k)'
  BY DEF PendingTracksUnresolved
<1>. DEFINE f == [b \in Call |-> resv[b].cost[Money]]
            g == [b \in Call |-> resv'[b].cost[Money]]
            S == Unresolved(k)
<1>1. /\ budget[k].pending = SumFunctionOnSet(f, S) /\ budget[k].pending \in Int
      /\ HeldUnresolved(k)' = SumFunctionOnSet(g, Unresolved(k)')
      /\ \A b \in Call : f[b] \in Int
      /\ IsFiniteSet(S) /\ S \subseteq Call
  BY ReckonedTypes, ItemCounters, CostTypes, FinitelyManyOn, DimAssumption
  DEF Reckoned, PendingTracksUnresolved, HeldUnresolved
<1>2. ASSUME Unresolved(k)' = S, budget'[k].pending = budget[k].pending,
             \A b \in S : g[b] = f[b]
      PROVE  budget'[k].pending = HeldUnresolved(k)'
  <2>. HIDE DEF f, g, S
  <2>. QED
    BY <1>1, <1>2, SumSame
<1>3. CASE Quiet
  <2>1. \A b \in S : g[b] = f[b]
    BY <1>1, <1>3 DEF Quiet
  <2>. QED
    BY <1>2, <1>3, <2>1, QuietSums DEF Quiet
<1>4. ASSUME NEW c \in Call, ReserveGranted(c)
      PROVE  budget'[k].pending = HeldUnresolved(k)'
  <2>1. \A b \in S : g[b] = f[b]
    BY <1>1, <1>4, GrantEnters DEF Unresolved
  <2>2. Unresolved(k)' = S /\ budget'[k].pending = budget[k].pending
    BY <1>4, GrantCovers, GrantCounts
  <2>. QED
    BY <1>2, <2>1, <2>2
<1>5. ASSUME NEW c \in Call, NEW actual, Settles(c, actual)
      PROVE  budget'[k].pending = HeldUnresolved(k)'
  <2>1. \A b \in S : g[b] = f[b]
    BY <1>1, <1>5, SettlementEnters
  <2>2. Unresolved(k)' = S /\ budget'[k].pending = budget[k].pending
    BY <1>5, SettlementCovers, SettlementCounts
  <2>. QED
    BY <1>2, <2>1, <2>2
<1>6. ASSUME NEW c \in Call, MarkPending(c)
      PROVE  budget'[k].pending = HeldUnresolved(k)'
  <2>1. /\ g[c] = resv[c].cost[Money] /\ g[c] \in Int
        /\ \A b \in S : g[b] = f[b]
    BY <1>1, <1>6, PendingEnters
  <2>2. budget'[k].pending = budget[k].pending
          + IF k \in resv[c].keys THEN resv[c].cost[Money] ELSE 0
    BY <1>6, PendingCounts
  <2>3. CASE k \in resv[c].keys
    <3>1. Unresolved(k)' = S \cup {c} /\ c \notin S
      BY <1>6, <2>3, PendingCovers
    <3>. HIDE DEF f, g, S
    <3>2. SumFunctionOnSet(g, S \cup {c}) = SumFunctionOnSet(f, S) + g[c]
      BY <1>1, <2>1, <3>1, SumGains
    <3>. QED
      BY <1>1, <2>1, <2>2, <2>3, <3>1, <3>2
  <2>4. CASE k \notin resv[c].keys
    <3>1. Unresolved(k)' = S
      BY <1>6, <2>4, PendingCovers
    <3>2. budget'[k].pending = budget[k].pending
      BY <1>1, <2>2, <2>4
    <3>. QED
      BY <1>2, <2>1, <3>1, <3>2
  <2>. QED
    BY <2>3, <2>4
<1>. QED
  BY <1>3, <1>4, <1>5, <1>6, BookSteps

\* What a call counts for is a natural number.
LEMMA CountedType ==
  ASSUME Reckoned, NEW b \in Call
  PROVE  Counted(b) \in Nat
<1>1. resv[b].cost[Money] \in Nat /\ billed[b][Money] \in Nat
  BY ReckonedTypes, ReservationTypes, DimAssumption DEF Amount
<1>. QED
  BY <1>1 DEF Counted

\* No bill changes after its settlement.
LEMMA SettledBillStands ==
  ASSUME Reckoned, [Next]_vars, NEW b \in Call, resv[b].state # "RESERVED"
  PROVE  billed'[b] = billed[b]
<1>1. ASSUME NEW c \in Call, ProviderAnswers(c) PROVE billed'[b] = billed[b]
  <2>1. resv[c].state = "RESERVED"
    BY <1>1 DEF Reckoned, InStep, ProviderAnswers, At
  <2>. QED
    BY <1>1, <2>1, ReckonedTypes, AnswerMoves
<1>. QED
  BY <1>1, BillingSteps

\* Every step changes the money counted on an item by what its calls count for.
LEMMA NextCounted == Reckoned /\ [Next]_vars => MoneyIsCounted'
<1>. SUFFICES ASSUME Reckoned, [Next]_vars, NEW k \in Key
              PROVE  budget'[k].committed[Money] + budget'[k].reserved[Money]
                       = SumFunctionOnSet([b \in Call |-> Counted(b)'], Covering(k)')
  BY DEF MoneyIsCounted
<1>. DEFINE f == [b \in Call |-> Counted(b)]
            g == [b \in Call |-> Counted(b)']
            S == Covering(k)
            Counts == budget'[k].committed[Money] + budget'[k].reserved[Money]
                        = SumFunctionOnSet(g, Covering(k)')
<1>1. /\ budget[k].committed[Money] + budget[k].reserved[Money]
           = SumFunctionOnSet(f, S)
      /\ budget[k].committed[Money] \in Int /\ budget[k].reserved[Money] \in Int
      /\ IsFiniteSet(S) /\ S \subseteq Call /\ \A b \in S : f[b] \in Int
  BY ReckonedTypes, ItemQuantities, CountedType, FinitelyManyOn, DimAssumption
  DEF Reckoned, MoneyIsCounted
<1>2. ASSUME Covering(k)' = S, \A b \in S : Counted(b)' = Counted(b),
             budget'[k].committed[Money] + budget'[k].reserved[Money]
               = budget[k].committed[Money] + budget[k].reserved[Money]
      PROVE  Counts
  <2>1. \A b \in S : g[b] = f[b]
    BY <1>1, <1>2
  <2>. HIDE DEF f, g, S
  <2>2. SumFunctionOnSet(f, S) = SumFunctionOnSet(g, S)
    BY <1>1, <2>1, SumSame
  <2>. QED
    BY <1>1, <1>2, <2>2
<1>3. CASE Quiet
  <2>1. \A b \in Call : Counted(b)' = Counted(b)
    BY <1>3, SettledBillStands DEF Quiet, Counted
  <2>. QED
    BY <1>1, <1>2, <1>3, <2>1, QuietSums DEF Quiet
<1>4. ASSUME NEW c \in Call, ReserveGranted(c) PROVE Counts
  <2>1. /\ Counted(c)' = call[c].cost[Money] /\ call[c].cost[Money] \in Int
        /\ \A b \in Call \ {c} : Counted(b)' = Counted(b)
    BY <1>4, GrantEnters, DimAssumption DEF Counted, Held, Amount
  <2>2. c \notin S
    BY <1>4, GrantCovers
  <2>3. CASE k \in call[c].keys
    <3>1. /\ g[c] = call[c].cost[Money] /\ \A b \in S : g[b] = f[b]
          /\ Covering(k)' = S \cup {c}
      BY <1>1, <1>4, <2>1, <2>2, <2>3, GrantCovers
    <3>2. /\ budget'[k].committed[Money] = budget[k].committed[Money]
          /\ budget'[k].reserved[Money] = budget[k].reserved[Money] + call[c].cost[Money]
      BY <1>4, <2>3, GrantCounts, DimAssumption
    <3>. HIDE DEF f, g, S
    <3>3. SumFunctionOnSet(g, S \cup {c}) = SumFunctionOnSet(f, S) + g[c]
      BY <1>1, <2>1, <2>2, <3>1, SumGains
    <3>. QED
      BY <1>1, <2>1, <3>1, <3>2, <3>3
  <2>4. CASE k \notin call[c].keys
    <3>1. Covering(k)' = S /\ budget'[k] = budget[k]
      BY <1>4, <2>4, GrantCovers, GrantCounts
    <3>2. \A b \in S : Counted(b)' = Counted(b)
      BY <1>1, <2>1, <2>2
    <3>. QED
      BY <1>2, <3>1, <3>2
  <2>. QED
    BY <2>3, <2>4
<1>5. ASSUME NEW c \in Call, NEW actual, Settles(c, actual) PROVE Counts
  <2>1. /\ Counted(c) = resv[c].cost[Money] /\ Counted(c)' = actual[Money]
        /\ \A b \in Call \ {c} : Counted(b)' = Counted(b)
    BY <1>5, SettlementEnters, DimAssumption DEF Counted, Held, Zero
  <2>2. /\ Covering(k)' = S /\ (c \in S <=> k \in resv[c].keys)
        /\ actual[Money] \in Int /\ resv[c].cost[Money] \in Int
    BY <1>5, SettlementEnters, SettlementCovers, DimAssumption
    DEF Covering, Amount
  <2>3. CASE k \in resv[c].keys
    <3>1. /\ g[c] = actual[Money] /\ f[c] = resv[c].cost[Money] /\ c \in S
          /\ \A b \in S \ {c} : g[b] = f[b]
          /\ \A b \in S : g[b] \in Int
      BY <1>1, <2>1, <2>2, <2>3
    <3>2. /\ budget'[k].committed[Money] = budget[k].committed[Money] + actual[Money]
          /\ budget'[k].reserved[Money] = budget[k].reserved[Money] - resv[c].cost[Money]
      BY <1>5, <2>3, SettlementCounts, DimAssumption
    <3>. HIDE DEF f, g, S
    <3>3. SumFunctionOnSet(g, S) = SumFunctionOnSet(f, S) - f[c] + g[c]
      BY <1>1, <3>1, SumUpdates
    <3>. QED
      BY <1>1, <2>2, <3>1, <3>2, <3>3
  <2>4. CASE k \notin resv[c].keys
    <3>1. budget'[k] = budget[k]
      BY <1>5, <2>4, SettlementCounts
    <3>2. \A b \in S : Counted(b)' = Counted(b)
      BY <1>1, <2>1, <2>2, <2>4
    <3>. QED
      BY <1>2, <2>2, <3>1, <3>2
  <2>. QED
    BY <2>3, <2>4
<1>6. ASSUME NEW c \in Call, MarkPending(c) PROVE Counts
  <2>1. \A b \in Call : Counted(b)' = Counted(b)
    BY <1>6, PendingEnters DEF Counted, Held
  <2>. QED
    BY <1>1, <1>2, <1>6, <2>1, PendingCovers, PendingCounts
<1>. QED
  BY <1>3, <1>4, <1>5, <1>6, BookSteps

-----------------------------------------------------------------------------
(* The calls and their reservations *)

\* Every step keeps a call and its reservation in step.
LEMMA NextInStep == Reckoned /\ [Next]_vars => InStep'
<1>. DEFINE Stepped(b) ==
       /\ resv[b].state = "NONE" => resv[b].keys = {}
       /\ resv[b].keys \subseteq seeded
       /\ call[b].pc \in {"idle", "reserving", "resolving"} =>
            resv[b].state = "NONE"
       /\ call[b].pc \in {"granted", "dispatched", "answered"} =>
            resv[b].state = "RESERVED"
       /\ call[b].pc = "answered" /\ call[b].outcome = "billed" =>
            billed[b] = call[b].usage
       /\ call[b].pc = "answered" /\ call[b].outcome = "notBilled" =>
            billed[b] = Zero
       /\ resv[b].state = "RELEASED" => billed[b] = Zero
<1>. SUFFICES ASSUME Reckoned, [Next]_vars, NEW b \in Call PROVE Stepped(b)'
  BY DEF InStep, At, ProvablyUnbilled
<1>1. /\ Stepped(b) /\ call \in [Call -> Frame]
      /\ resv \in [Call -> Reservation] /\ billed \in [Call -> Amount]
  BY ReckonedTypes DEF Reckoned, InStep, At, ProvablyUnbilled
<1>2. ASSUME NEW c \in Call, ReserveGranted(c) PROVE Stepped(b)'
  <2>1. GoTo(c, "granted")
    BY <1>2 DEF ReserveGranted
  <2>2. CASE b = c
    BY <1>1, <1>2, <2>1, <2>2, GrantEnters, Moved
  <2>3. CASE b # c
    BY <1>1, <1>2, <2>1, <2>3, GrantEnters, Moved
  <2>. QED
    BY <2>2, <2>3
<1>3. ASSUME NEW c \in Call, NEW actual, Settles(c, actual) PROVE Stepped(b)'
  <2>1. GoTo(c, "settled")
    BY <1>3 DEF Settles, Reconcile, Release
  <2>2. CASE b = c
    BY <1>1, <1>3, <2>1, <2>2, SettlementEnters, Moved
  <2>3. CASE b # c
    BY <1>1, <1>3, <2>1, <2>3, SettlementEnters, Moved
  <2>. QED
    BY <2>2, <2>3
<1>4. ASSUME NEW c \in Call, MarkPending(c) PROVE Stepped(b)'
  <2>1. GoTo(c, "settled")
    BY <1>4 DEF MarkPending
  <2>2. CASE b = c
    BY <1>1, <1>4, <2>1, <2>2, PendingEnters, Moved
  <2>3. CASE b # c
    BY <1>1, <1>4, <2>1, <2>3, PendingEnters, Moved
  <2>. QED
    BY <2>2, <2>3
<1>5. CASE Quiet
  <2>1. /\ resv'[b].state = resv[b].state /\ resv'[b].keys = resv[b].keys
        /\ seeded' = seeded
    BY <1>5 DEF Quiet
  <2>2. resv[b].state = "RELEASED" => billed'[b] = billed[b]
    BY SettledBillStands
  <2>3. ASSUME call'[b] = call[b], billed'[b] = billed[b] PROVE Stepped(b)'
    BY <1>1, <2>1, <2>3
  <2>4. ASSUME NEW c \in Call, Arrive(c) PROVE Stepped(b)'
    <3>1. billed' = billed /\ call[c].pc = "idle"
      BY <2>4 DEF Arrive, At
    <3>. QED
      BY <1>1, <2>1, <2>3, <2>4, <3>1, ArriveMoves
  <2>5. ASSUME NEW c \in Call, MarkDispatched(c) PROVE Stepped(b)'
    <3>1. /\ billed' = billed /\ call[c].pc = "granted"
          /\ GoTo(c, "dispatched")
      BY <2>5 DEF MarkDispatched, At
    <3>. QED
      BY <1>1, <2>1, <2>3, <3>1, Moved
  <2>6. ASSUME NEW c \in Call, ProviderAnswers(c) PROVE Stepped(b)'
    <3>1. CASE b = c
      <4>1. call[b].pc = "dispatched"
        BY <2>6, <3>1 DEF ProviderAnswers, At
      <4>2. /\ call'[b].pc = "answered"
            /\ call'[b].outcome = "billed" => billed'[b] = call'[b].usage
            /\ call'[b].outcome = "notBilled" => billed'[b] = Zero
        BY <1>1, <2>6, <3>1 DEF ProviderAnswers, Frame
      <4>. QED
        BY <1>1, <2>1, <4>1, <4>2
    <3>2. CASE b # c
      BY <1>1, <2>3, <2>6, <3>2, AnswerMoves
    <3>. QED
      BY <3>1, <3>2
  <2>7. ASSUME NEW c \in Call, ReserveConflict(c) PROVE Stepped(b)'
    <3>1. billed' = billed /\ call[c].pc = "reserving"
      BY <2>7 DEF ReserveConflict, At
    <3>. QED
      BY <1>1, <2>1, <2>3, <2>7, <3>1, ConflictMoves
  <2>8. ASSUME NEW c \in Call,
               \/ ReserveDenied(c) \/ ResolveIdempotency(c)
               \/ SettleConflict(c) \/ Crash(c)
        PROVE  Stepped(b)'
    <3>1. PICK where \in Answered \cup {"resolving"} :
            /\ GoTo(c, where)
            /\ where = "resolving" => call[c].pc = "reserving"
      BY <2>8
      DEF ReserveDenied, ResolveIdempotency, Repeated, SettleConflict, Crash,
          Answered, At
    <3>2. billed' = billed
      BY <2>8
      DEF ReserveDenied, ResolveIdempotency, SettleConflict, Crash
    <3>. QED
      BY <1>1, <2>1, <2>3, <3>1, <3>2, Moved DEF Answered
  <2>9. CASE call' = call /\ billed' = billed
    BY <2>3, <2>9
  <2>. QED
    BY <1>2, <1>3, <1>4, <2>4, <2>5, <2>6, <2>7, <2>8, <2>9
    DEF Next, Progress, vars, Settles, Tick, SetPolicy, SetAgentStatus,
        SetSessionStatus
<1>. QED
  BY <1>2, <1>3, <1>4, <1>5, BookSteps

\* Every step writes ledger entries of the call it settles, and no others.
LEMMA NextLedgerIsOfSettled == Reckoned /\ [Next]_vars => LedgerIsOfSettled'
<1>. SUFFICES ASSUME Reckoned, [Next]_vars, NEW e \in ledger'
              PROVE  resv'[e.call].state \notin {"NONE", "RESERVED"}
  BY DEF LedgerIsOfSettled
<1>1. \A x \in ledger : x.call \in Call
                        /\ resv[x.call].state \notin {"NONE", "RESERVED"}
  BY EntriesOnTypes DEF Reckoned, LedgerIsOfSettled
<1>2. CASE Quiet
  BY <1>1, <1>2 DEF Quiet
<1>3. ASSUME NEW c \in Call, ReserveGranted(c)
      PROVE  resv'[e.call].state \notin {"NONE", "RESERVED"}
  BY <1>1, <1>3, GrantEnters
<1>4. ASSUME NEW c \in Call, NEW actual, Settles(c, actual)
      PROVE  resv'[e.call].state \notin {"NONE", "RESERVED"}
  <2>1. e \in ledger \/ e.call = c
    BY <1>4 DEF Settles, Reconcile, Release, UsageEntries, LedgerEntry
  <2>. QED
    BY <1>1, <1>4, <2>1, SettlementEnters
<1>5. ASSUME NEW c \in Call, MarkPending(c)
      PROVE  resv'[e.call].state \notin {"NONE", "RESERVED"}
  <2>1. e \in ledger \/ e.call = c
    BY <1>5 DEF MarkPending, LedgerEntry
  <2>. QED
    BY <1>1, <1>5, <2>1, PendingEnters
<1>. QED
  BY <1>2, <1>3, <1>4, <1>5, BookSteps

\* Every step leaves finitely many reservations and entries.
LEMMA NextFinite == Reckoned /\ [Next]_vars => FinitelyMany'
<1>. DEFINE Kept == {b \in Call : resv[b].state # "NONE"}
<1>. SUFFICES ASSUME Reckoned, [Next]_vars
              PROVE  IsFiniteSet(Kept') /\ IsFiniteSet(ledger')
  BY DEF FinitelyMany
<1>1. IsFiniteSet(Kept) /\ IsFiniteSet(ledger)
  BY DEF Reckoned, FinitelyMany
<1>2. CASE Quiet
  <2>1. Kept' = Kept /\ ledger' = ledger
    BY <1>2 DEF Quiet
  <2>. QED
    BY <1>1, <2>1
<1>3. ASSUME NEW c \in Call, ReserveGranted(c)
      PROVE  IsFiniteSet(Kept') /\ IsFiniteSet(ledger')
  <2>1. Kept' = Kept \cup {c} /\ ledger' = ledger
    BY <1>3, GrantEnters
  <2>. HIDE DEF Kept
  <2>. QED
    BY <1>1, <2>1, FS_AddElement
<1>4. ASSUME NEW c \in Call, NEW e1, NEW e2, Kept' = Kept,
             ledger' \subseteq (ledger \cup {e1}) \cup {e2}
      PROVE  IsFiniteSet(Kept') /\ IsFiniteSet(ledger')
  <2>1. IsFiniteSet((ledger \cup {e1}) \cup {e2})
    BY <1>1, FS_AddElement
  <2>. HIDE DEF Kept
  <2>. QED
    BY <1>1, <1>4, <2>1, FS_Subset
<1>5. ASSUME NEW c \in Call, NEW actual, Settles(c, actual)
      PROVE  IsFiniteSet(Kept') /\ IsFiniteSet(ledger')
  <2>1. Kept' = Kept
    BY <1>5, SettlementEnters
  <2>2. \E e1, e2 : ledger' \subseteq (ledger \cup {e1}) \cup {e2}
    BY <1>5 DEF Settles, Reconcile, Release, UsageEntries
  <2>. HIDE DEF Kept
  <2>. QED
    BY <1>4, <1>5, <2>1, <2>2
<1>6. ASSUME NEW c \in Call, MarkPending(c)
      PROVE  IsFiniteSet(Kept') /\ IsFiniteSet(ledger')
  <2>1. Kept' = Kept
    BY <1>6, PendingEnters
  <2>2. \E e : ledger' = ledger \cup {e}
    BY <1>6 DEF MarkPending
  <2>. HIDE DEF Kept
  <2>. QED
    BY <1>1, <2>1, <2>2, FS_AddElement
<1>. QED
  BY <1>2, <1>3, <1>5, <1>6, BookSteps

-----------------------------------------------------------------------------
(* The invariant and what it implies *)

\* An empty store holds nothing and has recorded nothing.
LEMMA InitReckoned == Init => Reckoned
<1>. SUFFICES ASSUME Init PROVE Reckoned
  OBVIOUS
<1>1. Inductive
  BY InitInductive
<1>2. /\ \A c \in Call : /\ resv[c].state = "NONE" /\ resv[c].keys = {}
                         /\ call[c].pc = "idle"
      /\ \A k \in Key : budget[k] = NoItem
      /\ ledger = {}
  BY DEF Init, NoReservation
<1>3. InStep /\ LedgerIsOfSettled
  BY <1>2 DEF InStep, LedgerIsOfSettled, At
<1>4. FinitelyMany
  <2>1. {c \in Call : resv[c].state # "NONE"} = {}
    BY <1>2
  <2>. QED
    BY <1>2, <2>1, FS_EmptySet DEF FinitelyMany
<1>5. ASSUME NEW k PROVE Covering(k) = {} /\ Holding(k) = {} /\ Unresolved(k) = {}
  BY <1>2 DEF Covering, Holding, Unresolved
<1>6. HoldsMatchReservations
  <2>1. ASSUME NEW k \in Key, NEW d \in Dim PROVE HeldOn(k, d) = 0
    BY <1>5, SumEmpty DEF HeldOn
  <2>2. ASSUME NEW k \in Key PROVE Cardinality(Holding(k)) = 0
    BY <1>5, FS_EmptySet
  <2>. QED
    BY <1>2, <2>1, <2>2 DEF HoldsMatchReservations, NoItem, Zero
<1>7. CommittedMatchesLedger
  <2>1. ASSUME NEW k, NEW kind PROVE Recorded(k, kind) = 0
    <3>1. EntriesOn(k, kind) = {}
      BY <1>2 DEF EntriesOn
    <3>. QED
      BY <3>1, SumEmpty DEF Recorded
  <2>. QED
    BY <1>2, <2>1, DimAssumption DEF CommittedMatchesLedger, NoItem, Zero
<1>8. MoneyIsCounted
  <2>1. ASSUME NEW k
        PROVE  SumFunctionOnSet([c \in Call |-> Counted(c)], Covering(k)) = 0
    BY <1>5, SumEmpty
  <2>. QED
    BY <1>2, <2>1, DimAssumption DEF MoneyIsCounted, NoItem, Zero
<1>9. PendingTracksUnresolved
  <2>1. ASSUME NEW k PROVE HeldUnresolved(k) = 0
    BY <1>5, SumEmpty DEF HeldUnresolved
  <2>. QED
    BY <1>2, <2>1 DEF PendingTracksUnresolved, NoItem
<1>. QED
  BY <1>1, <1>3, <1>4, <1>6, <1>7, <1>8, <1>9 DEF Reckoned

\* Every step keeps the books.
LEMMA NextReckoned == Reckoned /\ [Next]_vars => Reckoned'
<1>1. Reckoned /\ [Next]_vars => Inductive'
  BY NextInductive DEF Reckoned
<1>2. Reckoned /\ [Next]_vars => (Backend = "dynamo" => PendingTracksUnresolved)'
  BY NextPending
<1>. QED
  BY <1>1, <1>2, NextInStep, NextLedgerIsOfSettled, NextFinite, NextHolds,
     NextLedgerAgrees, NextCounted
  DEF Reckoned

\* In every reachable state the books are in order.
THEOREM BooksAreKept == Spec => []Reckoned
BY InitReckoned, NextReckoned, PTL DEF Spec

\* No hold leaks, none is reversed twice or by another amount: what an item
\* says is held is what the unresolved reservations on it hold.
THEOREM HoldsMatch == Spec => []HoldsMatchReservations
<1>1. Reckoned => HoldsMatchReservations
  BY DEF Reckoned
<1>. QED
  BY <1>1, BooksAreKept, PTL

\* The counters of every item and the ledger tell the same story.
THEOREM LedgerAgrees == Spec => []CommittedMatchesLedger
<1>1. Reckoned => CommittedMatchesLedger
  BY DEF Reckoned
<1>. QED
  BY <1>1, BooksAreKept, PTL

\* In a store whose settlements leave the pending counter alone, that counter
\* is the held money whose outcome is unknown.
THEOREM PendingTracks ==
  ASSUME Backend = "dynamo" PROVE Spec => []PendingTracksUnresolved
<1>1. Reckoned => PendingTracksUnresolved
  BY DEF Reckoned
<1>. QED
  BY <1>1, BooksAreKept, PTL

\* The counters answer for a call by no less than what its bill asks of them.
LEMMA AnswerableIsCounted ==
  ASSUME Reckoned, NEW c \in Call, resv[c].state # "NONE"
  PROVE  /\ Answerable(c) \in Int /\ Counted(c) \in Int
         /\ Answerable(c) <= Counted(c)
<1>1. /\ billed[c][Money] \in Nat /\ resv[c].cost[Money] \in Nat
      /\ resv[c].state \in State
  BY ReckonedTypes, ReservationTypes, DimAssumption DEF Amount, Reservation
<1>2. resv[c].state = "RELEASED" => billed[c][Money] = 0
  BY DimAssumption DEF Reckoned, InStep, Zero
<1>3. CASE resv[c].state \in Held
  BY <1>1, <1>3 DEF Answerable, Counted, Excess, Held
<1>4. CASE resv[c].state \in Terminal
  BY <1>1, <1>2, <1>4 DEF Answerable, Counted, Held, Terminal
<1>. QED
  BY <1>1, <1>3, <1>4 DEF State, Held, Terminal

\* Money a provider has charged is never free to be spent again.
THEOREM SpendCovered == Spec => []SpendIsCovered
<1>1. Reckoned => SpendIsCovered
  <2>. SUFFICES ASSUME Reckoned, NEW k \in Key
                PROVE  SumFunctionOnSet([c \in Call |-> Answerable(c)], Covering(k))
                         <= budget[k].committed[Money] + budget[k].reserved[Money]
    BY DEF SpendIsCovered
  <2>. DEFINE f == [c \in Call |-> Answerable(c)]
              g == [c \in Call |-> Counted(c)]
              S == Covering(k)
  <2>1. /\ budget[k].committed[Money] + budget[k].reserved[Money]
             = SumFunctionOnSet(g, S)
        /\ IsFiniteSet(S)
    BY FinitelyManyOn DEF Reckoned, MoneyIsCounted
  <2>2. \A c \in S : f[c] \in Int /\ g[c] \in Int /\ f[c] <= g[c]
    <3>1. \A c \in S : c \in Call /\ resv[c].state # "NONE"
      BY DEF Reckoned, InStep, Covering
    <3>. QED
      BY <3>1, AnswerableIsCounted
  <2>3. SumFunctionOnSet(f, S) <= SumFunctionOnSet(g, S)
    <3>. HIDE DEF f, g, S
    <3>. QED
      BY <2>1, <2>2, SumMonotone
  <2>. QED
    BY <2>1, <2>3
<1>. QED
  BY <1>1, BooksAreKept, PTL

\* The conditions of a settlement always hold when a provider has answered: the
\* reservation is unsettled and every item still holds at least its amount.
THEOREM SettlementsApply == Spec => []SettlementAlwaysApplies
<1>1. Reckoned => SettlementAlwaysApplies
  <2>. SUFFICES ASSUME Reckoned, NEW c \in Call, At(c, "answered")
                PROVE  CanSettle(c)
    BY DEF SettlementAlwaysApplies
  <2>1. resv[c].state = "RESERVED" /\ resv[c].keys \subseteq seeded
    BY DEF Reckoned, InStep, At
  <2>2. ASSUME NEW k \in resv[c].keys
        PROVE  budget[k].reserved[Money] >= resv[c].cost[Money]
    <3>. DEFINE f == [b \in Call |-> resv[b].cost[Money]]
                S == Holding(k)
    <3>1. k \in Key
      BY <2>1, ReckonedTypes
    <3>2. budget[k].reserved[Money] = SumFunctionOnSet(f, S)
      BY <3>1, DimAssumption DEF Reckoned, HoldsMatchReservations, HeldOn
    <3>3. c \in S
      BY <2>1 DEF Holding, Covering, Held
    <3>4. /\ IsFiniteSet(S) /\ \A b \in S : f[b] \in Nat
          /\ f[c] = resv[c].cost[Money]
      BY FinitelyManyOn, CostTypes, DimAssumption
    <3>. HIDE DEF f, S
    <3>5. f[c] <= SumFunctionOnSet(f, S) /\ SumFunctionOnSet(f, S) \in Nat
      BY <3>3, <3>4, SumBoundsParts, SumType
    <3>. QED
      BY <3>2, <3>3, <3>4, <3>5
  <2>. QED
    BY <2>1, <2>2 DEF CanSettle
<1>. QED
  BY <1>1, BooksAreKept, PTL
===============================================================================
