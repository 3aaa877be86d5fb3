------------------------ MODULE SettlementEffectsProofs ------------------------
(***************************************************************************)
(* Proofs about what follows a settlement, for any calls, items, limits,   *)
(* costs and deployments, and streams of any length: each item is warned   *)
(* about exactly once, the gateway warns of spent money only, the first to *)
(* close a session wins, and a closure by budget is reported.              *)
(***************************************************************************)
EXTENDS SettlementEffects, Sums

\* The items of a call are items; the session's is one.
LEMMA ItemTypes ==
  /\ Len(Chain) \in Nat /\ Len(Chain) >= 1
  /\ \A i \in 1 .. Len(Chain) : Chain[i] \in Item
  /\ SessionItem \in Item
  /\ \A k \in Item : Limit[k] \in Nat /\ Limit[k] > 0
<1>1. Len(Chain) \in Nat /\ Len(Chain) >= 1 /\ DOMAIN Chain = 1 .. Len(Chain)
  BY ChainAssumption
<1>2. \A i \in 1 .. Len(Chain) : Chain[i] \in Item
  BY <1>1 DEF Item
<1>. QED
  BY <1>1, <1>2, LimitAssumption DEF SessionItem

\* A utilization that has reached a percentage is of a spend that crossed it.
LEMMA UtilizationCrosses ==
  ASSUME NEW limit \in Nat, limit > 0, NEW spent \in Nat, NEW percent \in Nat,
         (spent * 100) \div limit >= percent
  PROVE  spent >= -((-limit * percent) \div 100)
<1>. DEFINE q == (spent * 100) \div limit
<1>1. q \in Nat /\ limit * q <= spent * 100
  OBVIOUS
<1>2. limit * percent <= limit * q
  <2>1. q - percent \in Nat
    BY <1>1
  <2>2. limit * (q - percent) >= 0
    BY <2>1
  <2>3. limit * (q - percent) = limit * q - limit * percent
    BY <1>1
  <2>4. limit * percent \in Nat /\ limit * q \in Nat
    BY <1>1
  <2>. HIDE DEF q
  <2>. QED
    BY <2>2, <2>3, <2>4
<1>3. PICK n \in Nat : n = limit * percent
  OBVIOUS
<1>4. n <= spent * 100
  <2>1. limit * q \in Nat /\ spent * 100 \in Nat
    BY <1>1
  <2>. HIDE DEF q
  <2>. QED
    BY <1>1, <1>2, <1>3, <2>1
<1>5. -((-n) \div 100) <= spent
  BY <1>4
<1>6. -limit * percent = -n
  BY <1>3
<1>. QED
  BY <1>5, <1>6

-----------------------------------------------------------------------------
(* What the steps do to the frame of a call *)

\* A call that only moves on.
LEMMA Goes ==
  ASSUME frame \in [Call -> Frame], NEW c \in Call, NEW where \in Pc, GoTo(c, where)
  PROVE  /\ frame' \in [Call -> Frame]
         /\ frame'[c].pc = where /\ frame'[c].cost = frame[c].cost
         /\ frame'[c].at = frame[c].at /\ frame'[c].seen = frame[c].seen
         /\ \A b \in Call \ {c} : frame'[b] = frame[b]
BY DEF GoTo, Frame

\* The places a call may stand at.
LEMMA PcTypes ==
  {"idle", "held", "read", "warn", "close", "denied", "done", "stopped"} \subseteq Pc
BY DEF Pc

\* A step of call c that grants nothing: the cost stays what it is, and a call
\* gets on to its effects in their order only.
Moves(c) ==
  /\ frame' \in [Call -> Frame]
  /\ frame'[c].cost = frame[c].cost
  /\ frame'[c].pc # "held"
  /\ \A b \in Call \ {c} : frame'[b] = frame[b]
  /\ frame'[c].pc \in {"read", "warn", "close"} =>
       frame[c].pc \in {"held", "read", "warn", "close"}
  /\ frame'[c].pc = "warn" => /\ frame'[c].seen = budget[Chain[frame'[c].at]]
                              /\ budget' = budget
  /\ frame'[c].pc = "denied" =>
       \E cost \in Costs : /\ Remaining(SessionItem, budget[SessionItem]) < cost
                          /\ cost <= Limit[SessionItem]

\* A denial moves the call, and names the session only for want of money there.
LEMMA DenyMoves ==
  ASSUME TypeOK, NEW c \in Call, NEW cost \in Costs, Deny(c, cost)
  PROVE  Moves(c) /\ UNCHANGED <<budget, stream>>
<1>. DEFINE blocking == Outermost(Short(cost))
            where == IF FitsFresh(cost) /\ Chain[blocking] = SessionItem
                     THEN "denied" ELSE "done"
<1>1. frame \in [Call -> Frame] /\ budget[SessionItem] \in Counters
  BY ItemTypes DEF TypeOK
<1>2. /\ frame' = [frame EXCEPT ![c] = [@ EXCEPT !.pc = where, !.seen = budget[SessionItem]]]
      /\ UNCHANGED <<budget, stream>> /\ Short(cost) # {}
  BY DEF Deny
<1>3. where \in {"denied", "done"} /\ where \in Pc
  BY PcTypes
<1>4. blocking \in Short(cost)
  <2>1. Short(cost) \subseteq 1 .. Len(Chain)
    BY ChainAssumption DEF Short
  <2>2. \E i \in Short(cost) : \A j \in Short(cost) : i <= j
    <3>1. PICK i \in Short(cost) : \A j \in Short(cost) : <<j, i>> \notin OpToRel(<, Nat)
      <4>1. Short(cost) \subseteq Nat
        BY <2>1, ItemTypes
      <4>. QED
        BY <1>2, <4>1, NatLessThanWellFounded, WFMin, Zenon
    <3>2. ASSUME NEW j \in Short(cost) PROVE i <= j
      <4>1. i \in Nat /\ j \in Nat
        BY <2>1, ItemTypes
      <4>2. ~(j < i)
        BY <3>1, <4>1 DEF OpToRel
      <4>. QED
        BY <4>1, <4>2
    <3>. QED
      BY <3>2
  <2>. QED
    BY <2>2 DEF Outermost
<1>5. where = "denied" => Remaining(SessionItem, budget[SessionItem]) < cost
                          /\ cost <= Limit[SessionItem]
  <2>. SUFFICES ASSUME FitsFresh(cost), Chain[blocking] = SessionItem
                PROVE  Remaining(SessionItem, budget[SessionItem]) < cost
                       /\ cost <= Limit[SessionItem]
    OBVIOUS
  <2>1. Remaining(Chain[blocking], budget[Chain[blocking]]) < cost
    BY <1>4 DEF Short
  <2>. QED
    BY <2>1, ItemTypes DEF FitsFresh
<1>. HIDE DEF where
<1>6. /\ frame' \in [Call -> Frame] /\ frame'[c].pc = where
      /\ frame'[c].cost = frame[c].cost
      /\ \A b \in Call \ {c} : frame'[b] = frame[b]
  BY <1>1, <1>2, <1>3 DEF Frame
<1>. QED
  BY <1>2, <1>3, <1>5, <1>6 DEF Moves

\* What was written of the items is in the stream, in order.
LEMMA WriteTypes ==
  ASSUME TypeOK, NEW new \in [Item -> Counters], Write(new)
  PROVE  budget' = new /\ stream' \in [Item -> Seq(Counters)]
<1>1. budget' = new /\ stream \in [Item -> Seq(Counters)]
  BY DEF Write, TypeOK
<1>2. stream' = [k \in Item |-> IF mode.streaming /\ new[k] # budget[k]
                               THEN Append(stream[k], new[k]) ELSE stream[k]]
  BY DEF Write, Emit
<1>3. ASSUME NEW k \in Item PROVE Append(stream[k], new[k]) \in Seq(Counters)
  BY <1>1
<1>. QED
  BY <1>1, <1>2, <1>3

\* A grant holds the same amount on every item.
LEMMA GrantEffect ==
  ASSUME TypeOK, NEW c \in Call, NEW cost \in Costs, Grant(c, cost)
  PROVE  /\ cost \in Nat /\ cost > 0
         /\ budget' \in [Item -> Counters] /\ stream' \in [Item -> Seq(Counters)]
         /\ \A k \in Item : /\ budget'[k].reserved = budget[k].reserved + cost
                            /\ budget'[k].committed = budget[k].committed
                            /\ budget'[k].warned = budget[k].warned
         /\ frame' \in [Call -> Frame]
         /\ frame'[c].pc = "held" /\ frame'[c].cost = cost
         /\ \A b \in Call \ {c} : frame'[b] = frame[b]
<1>. DEFINE new == [k \in Item |-> [budget[k] EXCEPT !.reserved = @ + cost]]
<1>1. cost \in Nat /\ cost > 0
  BY AmountAssumption
<1>2. \A k \in Item : budget[k] \in Counters
  BY DEF TypeOK
<1>3. ASSUME NEW k \in Item
      PROVE  /\ new[k] \in Counters /\ new[k].reserved = budget[k].reserved + cost
             /\ new[k].committed = budget[k].committed /\ new[k].warned = budget[k].warned
  BY <1>1, <1>2 DEF Counters
<1>4. new \in [Item -> Counters] /\ Write(new)
  BY <1>3 DEF Grant
<1>5. frame' = [frame EXCEPT ![c] = [@ EXCEPT !.pc = "held", !.cost = cost]]
  BY DEF Grant
<1>6. /\ frame' \in [Call -> Frame]
      /\ frame'[c].pc = "held" /\ frame'[c].cost = cost
      /\ \A b \in Call \ {c} : frame'[b] = frame[b]
  BY <1>1, <1>5, PcTypes DEF TypeOK, Frame
<1>. HIDE DEF new
<1>7. budget' = new /\ stream' \in [Item -> Seq(Counters)]
  BY <1>4, WriteTypes
<1>. QED
  BY <1>1, <1>3, <1>4, <1>6, <1>7

\* What a call holds is reserved on every item.
LEMMA HeldIsReserved ==
  ASSUME TypeOK, HoldsAreReserved, NEW c \in Call, frame[c].pc = "held", NEW k \in Item
  PROVE  frame[c].cost \in Nat /\ frame[c].cost <= budget[k].reserved
<1>. DEFINE f == [b \in Call |-> frame[b].cost]
            S == Holders
<1>1. /\ IsFiniteSet(S) /\ SumFunctionOnSet(f, S) <= budget[k].reserved
      /\ budget[k].reserved \in Nat
  BY DEF HoldsAreReserved, TypeOK, Counters
<1>2. c \in S /\ \A b \in S : f[b] \in Nat
  BY DEF Holders, TypeOK, Frame
<1>3. f[c] = frame[c].cost
  OBVIOUS
<1>. HIDE DEF f, S
<1>4. f[c] <= SumFunctionOnSet(f, S) /\ SumFunctionOnSet(f, S) \in Nat
  BY <1>1, <1>2, SumBoundsParts, SumType
<1>. QED
  BY <1>1, <1>2, <1>3, <1>4

\* A settlement takes the hold off every item, and may spend.
LEMMA SettleEffect ==
  ASSUME TypeOK, HoldsAreReserved, NEW c \in Call, Reconcile(c) \/ Release(c)
  PROVE  /\ frame[c].pc = "held" /\ frame[c].cost \in Nat
         /\ budget' \in [Item -> Counters] /\ stream' \in [Item -> Seq(Counters)]
         /\ \A k \in Item : /\ budget'[k].reserved = budget[k].reserved - frame[c].cost
                            /\ budget'[k].committed >= budget[k].committed
                            /\ budget'[k].warned = budget[k].warned
         /\ Moves(c) /\ frame'[c].pc \in {"read", "done"}
         /\ UNCHANGED <<session, alerts, posts>>
<1>. DEFINE new(actual) == [k \in Item |-> [budget[k] EXCEPT !.reserved = @ - frame[c].cost,
                                                            !.committed = @ + actual]]
            same == [k \in Item |-> [budget[k] EXCEPT !.reserved = @ - frame[c].cost]]
<1>1. frame[c].pc = "held" /\ frame[c].cost \in Nat /\ frame \in [Call -> Frame]
  BY DEF Reconcile, Release, TypeOK, Frame
<1>2. \A k \in Item : budget[k] \in Counters /\ frame[c].cost <= budget[k].reserved
  BY <1>1, HeldIsReserved DEF TypeOK
<1>3. ASSUME NEW k \in Item, NEW actual \in Nat
      PROVE  /\ new(actual)[k] \in Counters
             /\ new(actual)[k].reserved = budget[k].reserved - frame[c].cost
             /\ new(actual)[k].committed >= budget[k].committed
             /\ new(actual)[k].warned = budget[k].warned
  <2>1. /\ budget[k] \in Counters /\ budget[k].committed \in Nat
        /\ budget[k].reserved - frame[c].cost \in Nat
    BY <1>1, <1>2 DEF Counters
  <2>2. /\ budget[k].committed + actual \in Nat
        /\ budget[k].committed + actual >= budget[k].committed
    BY <2>1
  <2>. QED
    BY <2>1, <2>2 DEF Counters
<1>4. ASSUME NEW k \in Item
      PROVE  /\ same[k] \in Counters
             /\ same[k].reserved = budget[k].reserved - frame[c].cost
             /\ same[k].committed >= budget[k].committed
             /\ same[k].warned = budget[k].warned
  BY <1>1, <1>2 DEF Counters
<1>5. CASE Reconcile(c)
  <2>1. PICK actual \in Usages : Write(new(actual))
    BY <1>5 DEF Reconcile
  <2>2. actual \in Nat
    BY AmountAssumption
  <2>3. GoTo(c, "read") /\ UNCHANGED <<session, alerts, posts>>
    BY <1>5 DEF Reconcile
  <2>4. Moves(c) /\ frame'[c].pc = "read"
    BY <1>1, <2>3, Goes, PcTypes DEF Moves
  <2>5. new(actual) \in [Item -> Counters]
    BY <1>3, <2>2
  <2>. HIDE DEF new
  <2>6. budget' = new(actual) /\ stream' \in [Item -> Seq(Counters)]
    BY <2>1, <2>5, WriteTypes
  <2>. QED
    BY <1>1, <1>3, <2>2, <2>3, <2>4, <2>5, <2>6
<1>6. CASE Release(c)
  <2>1. Write(same) /\ GoTo(c, "done") /\ UNCHANGED <<session, alerts, posts>>
    BY <1>6 DEF Release
  <2>2. Moves(c) /\ frame'[c].pc = "done"
    BY <1>1, <2>1, Goes, PcTypes DEF Moves
  <2>3. same \in [Item -> Counters]
    BY <1>4
  <2>. HIDE DEF same
  <2>4. budget' = same /\ stream' \in [Item -> Seq(Counters)]
    BY <2>1, <2>3, WriteTypes
  <2>. QED
    BY <1>1, <1>4, <2>1, <2>2, <2>3, <2>4
<1>. QED
  BY <1>5, <1>6

-----------------------------------------------------------------------------
(* What the follow-up transactions do *)

\* Flag and alert of item k, which was not warned about.
Flags(k, trigger) ==
  /\ ~budget[k].warned
  /\ budget' = [budget EXCEPT ![k].warned = TRUE]
  /\ alerts' = alerts \cup {[kind |-> "WARN_80", item |-> k, trigger |-> trigger,
                             reason |-> "none"]}

\* Status and alert of the session, which was open.
Closes(c) ==
  /\ session.status = "OPEN"
  /\ \E reason \in {"budget_exhausted", "remaining_below_viable"} :
       /\ session' = [status |-> "CLOSED_BUDGET", reason |-> reason]
       /\ alerts' = alerts \cup {[kind |-> "SESSION_CLOSED", item |-> SessionItem,
                                  trigger |-> c, reason |-> reason]}

\* A flag changes nothing else of its item, nor any other.
LEMMA FlagEffect ==
  ASSUME TypeOK, NEW k \in Item, NEW trigger \in Call \cup {NoCall}, Flags(k, trigger)
  PROVE  /\ budget' \in [Item -> Counters] /\ alerts' \subseteq Alert
         /\ budget'[k].warned
         /\ \A j \in Item : /\ budget'[j].committed = budget[j].committed
                            /\ budget'[j].reserved = budget[j].reserved
                            /\ j # k => budget'[j] = budget[j]
<1>1. budget \in [Item -> Counters] /\ alerts \subseteq Alert
  BY DEF TypeOK
<1>2. [kind |-> "WARN_80", item |-> k, trigger |-> trigger, reason |-> "none"] \in Alert
  BY DEF Alert, Reason
<1>. QED
  BY <1>1, <1>2 DEF Flags, Counters

\* A closure is recorded with its reason.
LEMMA CloseEffect ==
  ASSUME TypeOK, NEW c \in Call, Closes(c)
  PROVE  session' \in SessionRecord /\ alerts' \subseteq Alert
<1>1. PICK reason \in {"budget_exhausted", "remaining_below_viable"} :
         /\ session' = [status |-> "CLOSED_BUDGET", reason |-> reason]
         /\ alerts' = alerts \cup {[kind |-> "SESSION_CLOSED", item |-> SessionItem,
                                    trigger |-> c, reason |-> reason]}
  BY DEF Closes
<1>2. [kind |-> "SESSION_CLOSED", item |-> SessionItem, trigger |-> c, reason |-> reason]
        \in Alert
  BY ItemTypes DEF Alert, Reason
<1>. QED
  BY <1>1, <1>2 DEF TypeOK, SessionRecord, Status, Reason

\* The transaction of a warning writes both or nothing.
LEMMA FlipFlags ==
  ASSUME TypeOK, NEW k \in Item, NEW percent, NEW c \in Call, FlipThreshold(k, percent, c)
  PROVE  /\ stream' \in [Item -> Seq(Counters)]
         /\ Flags(k, c) \/ UNCHANGED <<budget, alerts>>
<1>1. CASE UNCHANGED <<budget, stream, alerts>>
  BY <1>1 DEF TypeOK
<1>2. CASE /\ CanFlip(k, percent) /\ Write([budget EXCEPT ![k].warned = TRUE])
           /\ alerts' = alerts \cup {[kind |-> "WARN_80", item |-> k, trigger |-> c,
                                      reason |-> "none"]}
  <2>1. [budget EXCEPT ![k].warned = TRUE] \in [Item -> Counters]
    BY DEF TypeOK, Counters
  <2>2. /\ budget' = [budget EXCEPT ![k].warned = TRUE]
        /\ stream' \in [Item -> Seq(Counters)]
    BY <1>2, <2>1, WriteTypes
  <2>. QED
    BY <1>2, <2>2 DEF Flags, CanFlip
<1>. QED
  BY <1>1, <1>2 DEF FlipThreshold

\* So does the one of a closure.
LEMMA CloseCloses ==
  ASSUME NEW c \in Call, NEW remaining, CloseByBudget(c, ReasonFor(remaining))
  PROVE  Closes(c) \/ UNCHANGED <<session, alerts>>
BY DEF CloseByBudget, Closes, CanClose, ReasonFor

\* So does the stream's, which leaves the rest of the stream in order.
LEMMA ConsumeFlags ==
  ASSUME TypeOK, NEW k \in Item, NEW acknowledged \in BOOLEAN, Consume(k, acknowledged)
  PROVE  /\ stream' \in [Item -> Seq(Counters)]
         /\ Flags(k, NoCall) \/ UNCHANGED <<budget, alerts>>
         /\ UNCHANGED <<session, frame, posts>>
<1>. DEFINE rest == Undelivered(k, acknowledged)
<1>1. stream[k] # <<>> /\ stream \in [Item -> Seq(Counters)] /\ stream[k] \in Seq(Counters)
  BY DEF Consume, TypeOK
<1>2. rest \in Seq(Counters)
  BY <1>1 DEF Undelivered
<1>3. UNCHANGED <<session, frame, posts>>
  BY DEF Consume
<1>. HIDE DEF rest
<1>4. CASE /\ CanFlip(k, BackstopPercent)
           /\ budget' = [budget EXCEPT ![k].warned = TRUE]
           /\ alerts' = alerts \cup {[kind |-> "WARN_80", item |-> k, trigger |-> NoCall,
                                      reason |-> "none"]}
           /\ stream' = [stream EXCEPT ![k] = Append(rest, budget'[k])]
  <2>1. Flags(k, NoCall)
    BY <1>4 DEF Flags, CanFlip
  <2>2. budget'[k] \in Counters
    BY <2>1, FlagEffect
  <2>3. Append(rest, budget'[k]) \in Seq(Counters)
    BY <1>2, <2>2
  <2>. QED
    BY <1>1, <1>3, <1>4, <2>1, <2>3
<1>5. CASE stream' = [stream EXCEPT ![k] = rest] /\ UNCHANGED <<budget, alerts>>
  BY <1>1, <1>2, <1>3, <1>5
<1>. QED
  BY <1>4, <1>5 DEF Consume, rest

-----------------------------------------------------------------------------
(* The steps, by what they change *)

\* A reservation is granted, denied, or refused by a closed session.
LEMMA ReserveSteps ==
  ASSUME TypeOK, NEW c \in Call, Reserve(c)
  PROVE  /\ UNCHANGED <<session, alerts, posts>>
         /\ \/ \E cost \in Costs : Grant(c, cost) /\ frame[c].pc = "idle"
            \/ Moves(c) /\ UNCHANGED <<budget, stream>>
<1>1. UNCHANGED <<session, alerts, posts>> /\ frame[c].pc = "idle"
  BY DEF Reserve
<1>2. CASE GoTo(c, "done") /\ UNCHANGED <<budget, stream>>
  <2>1. Moves(c)
    BY <1>2, Goes, PcTypes DEF TypeOK, Moves
  <2>. QED
    BY <1>1, <1>2, <2>1
<1>3. ASSUME NEW cost \in Costs, Deny(c, cost) PROVE Moves(c) /\ UNCHANGED <<budget, stream>>
  BY <1>3, DenyMoves
<1>. QED
  BY <1>1, <1>2, <1>3 DEF Reserve

\* Reading moves a call only.
LEMMA ReadSteps ==
  ASSUME TypeOK, NEW c \in Call, ReadState(c) \/ Stop(c)
  PROVE  Moves(c) /\ UNCHANGED <<budget, stream, session, alerts, posts>>
<1>1. CASE ReadState(c)
  <2>. DEFINE k == Chain[frame[c].at]
  <2>1. /\ frame[c] \in Frame /\ frame \in [Call -> Frame] /\ frame[c].pc = "read"
        /\ UNCHANGED <<budget, stream, session, alerts, posts>>
    BY <1>1 DEF ReadState, TypeOK
  <2>2. budget[k] \in Counters
    BY <2>1, ItemTypes DEF TypeOK, Frame
  <2>3. frame' = [frame EXCEPT ![c] = [@ EXCEPT !.pc = "warn", !.seen = budget[k]]]
    BY <1>1 DEF ReadState
  <2>4. /\ frame' \in [Call -> Frame] /\ frame'[c].pc = "warn"
        /\ frame'[c].cost = frame[c].cost /\ frame'[c].at = frame[c].at
        /\ frame'[c].seen = budget[k]
        /\ \A b \in Call \ {c} : frame'[b] = frame[b]
    BY <2>1, <2>2, <2>3, PcTypes DEF Frame
  <2>5. frame'[c].seen = budget[Chain[frame'[c].at]]
    BY <2>4
  <2>. QED
    BY <2>1, <2>4, <2>5 DEF Moves
<1>2. CASE Stop(c)
  BY <1>2, Goes, PcTypes DEF Stop, TypeOK, Moves
<1>. QED
  BY <1>1, <1>2

\* A warning of the gateway is about what the call saw.
LEMMA WarnSteps ==
  ASSUME TypeOK, NEW c \in Call, MaybeWarn(c)
  PROVE  /\ Moves(c) /\ UNCHANGED <<session, posts>>
         /\ stream' \in [Item -> Seq(Counters)]
         /\ frame[c].pc = "warn" /\ Chain[frame[c].at] \in Item
         /\ \/ /\ Flags(Chain[frame[c].at], c)
               /\ ShouldWarn(Chain[frame[c].at], frame[c].seen)
            \/ UNCHANGED <<budget, alerts>>
<1>. DEFINE k == Chain[frame[c].at]
<1>1. k \in Item
  BY ItemTypes DEF TypeOK, Frame
<1>2. frame[c].pc = "warn" /\ GoTo(c, "close") /\ UNCHANGED <<session, posts>>
  BY DEF MaybeWarn
<1>3. Moves(c)
  BY <1>2, Goes, PcTypes DEF TypeOK, Moves
<1>4. CASE ShouldWarn(k, frame[c].seen)
  <2>1. FlipThreshold(k, WarningPercent, c)
    BY <1>4 DEF MaybeWarn
  <2>. QED
    BY <1>1, <1>2, <1>3, <1>4, <2>1, FlipFlags
<1>5. CASE ~ShouldWarn(k, frame[c].seen)
  <2>1. UNCHANGED <<budget, stream, alerts>>
    BY <1>5 DEF MaybeWarn
  <2>. QED
    BY <1>1, <1>2, <1>3, <2>1 DEF TypeOK
<1>. QED
  BY <1>4, <1>5

\* A closure by budget is decided by a call at its close, or at its denial.
LEMMA CloseSteps ==
  ASSUME TypeOK, NEW c \in Call, MaybeClose(c) \/ CloseOnDenial(c)
  PROVE  /\ Moves(c) /\ UNCHANGED <<budget, stream, posts>>
         /\ frame[c].pc \in {"close", "denied"}
         /\ Closes(c) \/ UNCHANGED <<session, alerts>>
<1>1. CASE MaybeClose(c)
  <2>1. /\ frame[c].pc = "close" /\ NextItem(c) /\ UNCHANGED <<budget, stream, posts>>
        /\ frame[c] \in Frame /\ frame \in [Call -> Frame]
    BY <1>1 DEF MaybeClose, TypeOK
  <2>2. Closes(c) \/ UNCHANGED <<session, alerts>>
    BY <1>1, CloseCloses DEF MaybeClose
  <2>3. CASE frame[c].at < Len(Chain)
    <3>1. frame[c].at + 1 \in 1 .. Len(Chain)
      BY <2>1, <2>3, ItemTypes DEF Frame
    <3>. DEFINE next == [frame[c] EXCEPT !.pc = "read", !.at = frame[c].at + 1]
    <3>2. next \in Frame /\ next.pc = "read" /\ next.cost = frame[c].cost
      BY <2>1, <3>1, PcTypes DEF Frame
    <3>3. frame' = [frame EXCEPT ![c] = next]
      BY <2>1, <2>3 DEF NextItem
    <3>. HIDE DEF next
    <3>4. Moves(c)
      BY <2>1, <3>2, <3>3 DEF Moves
    <3>. QED
      BY <2>1, <2>2, <3>4
  <2>4. CASE ~(frame[c].at < Len(Chain))
    <3>1. GoTo(c, "done")
      BY <2>1, <2>4 DEF NextItem, GoTo
    <3>2. Moves(c)
      BY <2>1, <3>1, Goes, PcTypes DEF Moves
    <3>. QED
      BY <2>1, <2>2, <3>2
  <2>. QED
    BY <2>3, <2>4
<1>2. CASE CloseOnDenial(c)
  <2>1. frame[c].pc = "denied" /\ GoTo(c, "done") /\ UNCHANGED <<budget, stream, posts>>
    BY <1>2 DEF CloseOnDenial
  <2>2. Closes(c) \/ UNCHANGED <<session, alerts>>
    BY <1>2, CloseCloses DEF CloseOnDenial
  <2>3. Moves(c)
    BY <2>1, Goes, PcTypes DEF TypeOK, Moves
  <2>. QED
    BY <2>1, <2>2, <2>3
<1>. QED
  BY <1>1, <1>2

\* The kinds of step that the invariants tell apart.
Granting == \E c \in Call, cost \in Costs :
  Grant(c, cost) /\ frame[c].pc = "idle" /\ UNCHANGED <<session, alerts, posts>>
Settling == \E c \in Call : Reconcile(c) \/ Release(c)
Still == frame' = frame \/ \E c \in Call : Moves(c)
Flagging == /\ Still /\ UNCHANGED <<session, posts>>
            /\ stream' \in [Item -> Seq(Counters)]
            /\ \E k \in Item, trigger \in Call \cup {NoCall} :
                 /\ Flags(k, trigger)
                 /\ trigger \in Call => /\ frame[trigger].pc = "warn"
                                        /\ k = Chain[frame[trigger].at]
                                        /\ ShouldWarn(k, frame[trigger].seen)
Closing == /\ Still /\ UNCHANGED <<budget, stream, posts>>
           /\ \E c \in Call : Closes(c) /\ frame[c].pc \in {"close", "denied"}
Quiet == /\ Still /\ UNCHANGED <<budget, alerts>>
         /\ stream' \in [Item -> Seq(Counters)]
         /\ posts' \in 0 .. MaxPosts
         /\ \/ UNCHANGED <<session, posts>>
            \/ session' = NewSession /\ posts' = posts + 1
            \/ session.status = "OPEN" /\ UNCHANGED posts
               /\ session' = [status |-> "CLOSED_USER", reason |-> "user_requested"]

\* Every step is of one of them.
LEMMA StepKinds ==
  ASSUME TypeOK, [Next]_vars
  PROVE  mode' = mode /\ (Granting \/ Settling \/ Flagging \/ Closing \/ Quiet)
<1>. stream \in [Item -> Seq(Counters)] /\ posts \in 0 .. MaxPosts
  BY DEF TypeOK
<1>1. CASE UNCHANGED vars
  BY <1>1 DEF vars, Quiet, Still
<1>2. ASSUME NEW c \in Call, Reserve(c) PROVE Granting \/ Quiet
  <2>1. CASE \E cost \in Costs : Grant(c, cost) /\ frame[c].pc = "idle"
    BY <1>2, <2>1, ReserveSteps DEF Granting
  <2>2. CASE Moves(c) /\ UNCHANGED <<budget, stream>>
    BY <1>2, <2>2, ReserveSteps DEF Quiet, Still
  <2>. QED
    BY <1>2, <2>1, <2>2, ReserveSteps
<1>3. ASSUME NEW c \in Call, Reconcile(c) \/ Release(c) PROVE Settling
  BY <1>3 DEF Settling
<1>4. ASSUME NEW c \in Call, ReadState(c) \/ Stop(c) PROVE Quiet
  BY <1>4, ReadSteps DEF Quiet, Still
<1>5. ASSUME NEW c \in Call, MaybeWarn(c) PROVE Flagging \/ Quiet
  <2>1. CASE UNCHANGED <<budget, alerts>>
    BY <1>5, <2>1, WarnSteps DEF Quiet, Still
  <2>2. CASE ~UNCHANGED <<budget, alerts>>
    BY <1>5, <2>2, WarnSteps DEF Flagging, Still
  <2>. QED
    BY <2>1, <2>2
<1>6. ASSUME NEW c \in Call, MaybeClose(c) \/ CloseOnDenial(c) PROVE Closing \/ Quiet
  BY <1>6, CloseSteps DEF Closing, Quiet, Still
<1>7. ASSUME NEW k \in Item, NEW acknowledged \in BOOLEAN, Consume(k, acknowledged)
      PROVE  Flagging \/ Quiet
  <2>1. CASE UNCHANGED <<budget, alerts>>
    BY <1>7, <2>1, ConsumeFlags DEF Quiet, Still
  <2>2. CASE Flags(k, NoCall)
    BY <1>7, <2>2, ConsumeFlags, CallAssumption DEF Flagging, Still
  <2>. QED
    BY <1>7, <2>1, <2>2, ConsumeFlags
<1>8. ASSUME PostSession PROVE Quiet
  BY <1>8, BoundAssumption DEF PostSession, Quiet, Still
<1>9. ASSUME CloseSession PROVE Quiet
  BY <1>9 DEF CloseSession, CanClose, Quiet, Still
<1>10. CASE Next
  BY <1>2, <1>3, <1>4, <1>5, <1>6, <1>7, <1>8, <1>9, <1>10 DEF Next, Effects
<1>11. mode' = mode
  BY DEF Next, vars
<1>. QED
  BY <1>1, <1>10, <1>11

-----------------------------------------------------------------------------
(* Every step keeps the invariant *)

\* Types are kept: in particular no hold is taken off twice.
LEMMA NextTypeOK == TypeOK /\ HoldsAreReserved /\ [Next]_vars => TypeOK'
<1>. SUFFICES ASSUME TypeOK, HoldsAreReserved, [Next]_vars PROVE TypeOK'
  OBVIOUS
<1>1. mode' = mode /\ (Granting \/ Settling \/ Flagging \/ Closing \/ Quiet)
  BY StepKinds
<1>2. CASE Granting
  BY <1>1, <1>2, GrantEffect DEF Granting, TypeOK
<1>3. CASE Settling
  BY <1>1, <1>3, SettleEffect DEF Settling, Moves, TypeOK
<1>4. CASE Flagging
  <2>1. PICK k \in Item, trigger \in Call \cup {NoCall} : Flags(k, trigger)
    BY <1>4 DEF Flagging
  <2>2. budget' \in [Item -> Counters] /\ alerts' \subseteq Alert
    BY <2>1, FlagEffect
  <2>. QED
    BY <1>1, <1>4, <2>2 DEF Flagging, Still, Moves, TypeOK
<1>5. CASE Closing
  BY <1>1, <1>5, CloseEffect DEF Closing, Still, Moves, TypeOK
<1>6. CASE Quiet
  <2>1. session' \in SessionRecord
    BY <1>6 DEF Quiet, TypeOK, SessionRecord, NewSession, Status, Reason
  <2>. QED
    BY <1>1, <1>6, <2>1 DEF Quiet, Still, Moves, TypeOK
<1>. QED
  BY <1>1, <1>2, <1>3, <1>4, <1>5, <1>6

\* Holds stay reserved.
LEMMA NextHolds == TypeOK /\ HoldsAreReserved /\ [Next]_vars => HoldsAreReserved'
<1>. SUFFICES ASSUME TypeOK, HoldsAreReserved, [Next]_vars PROVE HoldsAreReserved'
  OBVIOUS
<1>. DEFINE f == [c \in Call |-> frame[c].cost]
            g == [c \in Call |-> frame'[c].cost]
            S == Holders
<1>1. /\ IsFiniteSet(S) /\ S \subseteq Call
      /\ \A k \in Item : SumFunctionOnSet(f, S) <= budget[k].reserved
      /\ \A k \in Item : budget[k].reserved \in Nat
  BY DEF HoldsAreReserved, Holders, TypeOK, Counters
<1>2. \A c \in Call : f[c] \in Nat /\ f[c] = frame[c].cost
  BY DEF TypeOK, Frame
<1>3. SumFunctionOnSet(f, S) \in Int /\ \A c \in S : f[c] \in Nat
  <2>1. \A c \in S : f[c] \in Nat
    BY <1>1, <1>2
  <2>. HIDE DEF f, S
  <2>. QED
    BY <1>1, <2>1, SumType
<1>4. ASSUME IsFiniteSet(S'), \A k \in Item : SumFunctionOnSet(g, S') <= budget'[k].reserved
      PROVE  HoldsAreReserved'
  BY <1>4 DEF HoldsAreReserved
<1>5. ASSUME NEW c \in Call, NEW cost \in Costs, Grant(c, cost), frame[c].pc = "idle"
      PROVE  HoldsAreReserved'
  <2>1. /\ cost \in Nat
        /\ \A k \in Item : budget'[k].reserved = budget[k].reserved + cost
        /\ frame'[c].pc = "held" /\ frame'[c].cost = cost
        /\ \A b \in Call \ {c} : frame'[b] = frame[b]
    BY <1>5, GrantEffect
  <2>2. c \notin S /\ S' = S \cup {c}
    BY <1>5, <2>1 DEF Holders
  <2>3. /\ g[c] = cost /\ g[c] \in Int
        /\ \A b \in S : g[b] = f[b]
        /\ \A b \in S : f[b] \in Int
    BY <1>1, <1>3, <2>1, <2>2
  <2>4. SumFunctionOnSet(g, S \cup {c}) = SumFunctionOnSet(f, S) + g[c]
    <3>. HIDE DEF f, g, S
    <3>. QED
      BY <1>1, <2>2, <2>3, SumGains
  <2>5. IsFiniteSet(S')
    <3>. HIDE DEF S
    <3>. QED
      BY <1>1, <2>2, FS_AddElement
  <2>6. ASSUME NEW k \in Item PROVE SumFunctionOnSet(g, S') <= budget'[k].reserved
    <3>1. /\ SumFunctionOnSet(f, S) <= budget[k].reserved /\ budget[k].reserved \in Nat
          /\ budget'[k].reserved = budget[k].reserved + cost
      BY <1>1, <2>1
    <3>2. SumFunctionOnSet(g, S') = SumFunctionOnSet(f, S) + cost
      BY <2>2, <2>3, <2>4
    <3>. HIDE DEF f, g, S
    <3>. QED
      BY <1>3, <2>1, <3>1, <3>2
  <2>. QED
    BY <1>4, <2>5, <2>6
<1>6. ASSUME NEW c \in Call, Moves(c),
             \A k \in Item : \/ budget'[k].reserved = budget[k].reserved
                             \/ /\ frame[c].pc = "held"
                                /\ budget'[k].reserved = budget[k].reserved - frame[c].cost
      PROVE  HoldsAreReserved'
  <2>1. frame'[c].pc # "held" /\ \A b \in Call \ {c} : frame'[b] = frame[b]
    BY <1>6 DEF Moves
  <2>2. S' = S \ {c}
    BY <2>1 DEF Holders
  <2>3. \A b \in S \ {c} : g[b] = f[b]
    BY <1>1, <2>1
  <2>4. (c \in S) <=> (frame[c].pc = "held")
    BY DEF Holders
  <2>5. PICK R : R = S \ {c}
    OBVIOUS
  <2>6. IsFiniteSet(R) /\ R = S' /\ \A b \in R : g[b] = f[b]
    BY <1>1, <2>2, <2>3, <2>5, FS_Difference
  <2>7. CASE c \in S
    <3>1. \A b \in S : f[b] \in Int
      BY <1>3
    <3>2. SumFunctionOnSet(g, R) = SumFunctionOnSet(f, S) - f[c]
      <4>. HIDE DEF f, g, S
      <4>. QED
        BY <1>1, <2>5, <2>6, <2>7, <3>1, SumLoses
    <3>3. f[c] = frame[c].cost /\ f[c] \in Nat
      BY <1>2
    <3>4. ASSUME NEW k \in Item PROVE SumFunctionOnSet(g, S') <= budget'[k].reserved
      <4>1. /\ SumFunctionOnSet(f, S) <= budget[k].reserved /\ budget[k].reserved \in Nat
            /\ \/ budget'[k].reserved = budget[k].reserved
               \/ budget'[k].reserved = budget[k].reserved - f[c]
        BY <1>1, <1>6, <3>3
      <4>2. SumFunctionOnSet(g, S') = SumFunctionOnSet(f, S) - f[c]
        BY <2>6, <3>2
      <4>. HIDE DEF f, g, S
      <4>. QED
        BY <1>3, <3>3, <4>1, <4>2
    <3>. QED
      BY <1>4, <2>6, <3>4
  <2>8. CASE c \notin S
    <3>1. SumFunctionOnSet(g, R) = SumFunctionOnSet(f, S)
      <4>1. R = S /\ \A b \in S : f[b] = g[b]
        BY <2>3, <2>5, <2>8
      <4>. HIDE DEF f, g, S
      <4>. QED
        BY <1>1, <4>1, SumSame
    <3>2. ASSUME NEW k \in Item PROVE SumFunctionOnSet(g, S') <= budget'[k].reserved
      <4>1. budget'[k].reserved = budget[k].reserved
        BY <1>6, <2>4, <2>8
      <4>2. SumFunctionOnSet(g, S') = SumFunctionOnSet(f, S)
        BY <2>6, <3>1
      <4>3. SumFunctionOnSet(f, S) <= budget[k].reserved
        BY <1>1
      <4>. HIDE DEF f, g, S
      <4>. QED
        BY <4>1, <4>2, <4>3
    <3>. QED
      BY <1>4, <2>6, <3>2
  <2>. QED
    BY <2>7, <2>8
<1>7. ASSUME Still, \A k \in Item : budget'[k].reserved = budget[k].reserved
      PROVE  HoldsAreReserved'
  <2>1. CASE frame' = frame
    <3>1. IsFiniteSet(S')
      BY <1>1, <2>1 DEF Holders
    <3>2. ASSUME NEW k \in Item PROVE SumFunctionOnSet(g, S') <= budget'[k].reserved
      BY <1>1, <1>7, <2>1 DEF Holders
    <3>. QED
      BY <1>4, <3>1, <3>2
  <2>. QED
    BY <1>6, <1>7, <2>1 DEF Still
<1>8. CASE Settling
  <2>1. PICK c \in Call : Reconcile(c) \/ Release(c)
    BY <1>8 DEF Settling
  <2>2. /\ frame[c].pc = "held" /\ Moves(c)
        /\ \A k \in Item : budget'[k].reserved = budget[k].reserved - frame[c].cost
    BY <2>1, SettleEffect
  <2>. QED
    BY <1>6, <2>2
<1>9. CASE Flagging
  <2>1. \A k \in Item : budget'[k].reserved = budget[k].reserved
    BY <1>9, FlagEffect DEF Flagging
  <2>. QED
    BY <1>7, <1>9, <2>1 DEF Flagging
<1>. QED
  BY <1>5, <1>7, <1>8, <1>9, StepKinds DEF Granting, Closing, Quiet

\* Spent money stays spent.
LEMMA SpendGrows ==
  ASSUME TypeOK, HoldsAreReserved, [Next]_vars, NEW k \in Item
  PROVE  /\ budget'[k].committed >= budget[k].committed
         /\ budget[k].committed \in Nat /\ budget'[k].committed \in Nat
<1>1. TypeOK' /\ budget[k].committed \in Nat
  BY NextTypeOK DEF TypeOK, Counters
<1>2. budget'[k].committed \in Nat
  BY <1>1 DEF TypeOK, Counters
<1>3. CASE Granting
  BY <1>1, <1>3, GrantEffect DEF Granting
<1>4. CASE Settling
  <2>1. PICK c \in Call : Reconcile(c) \/ Release(c)
    BY <1>4 DEF Settling
  <2>. QED
    BY <1>1, <1>2, <2>1, SettleEffect
<1>5. CASE Flagging
  BY <1>1, <1>5, FlagEffect DEF Flagging
<1>6. CASE Closing \/ Quiet
  BY <1>1, <1>6 DEF Closing, Quiet
<1>. QED
  BY <1>1, <1>2, <1>3, <1>4, <1>5, <1>6, StepKinds

\* What a call read is behind the item, not ahead of it.
LEMMA NextReads ==
  TypeOK /\ HoldsAreReserved /\ ReadsAreCovered /\ [Next]_vars => ReadsAreCovered'
<1>. SUFFICES ASSUME TypeOK, HoldsAreReserved, ReadsAreCovered, [Next]_vars,
                     NEW c \in Call, frame'[c].pc = "warn"
              PROVE  frame'[c].seen.committed <= budget'[Chain[frame'[c].at]].committed
  BY DEF ReadsAreCovered
<1>1. TypeOK'
  BY NextTypeOK
<1>2. Chain[frame'[c].at] \in Item /\ frame'[c].seen.committed \in Nat
  BY <1>1, ItemTypes DEF TypeOK, Frame, Counters
<1>3. CASE frame'[c] = frame[c]
  <2>1. frame[c].seen.committed <= budget[Chain[frame[c].at]].committed
    BY <1>3 DEF ReadsAreCovered
  <2>. QED
    BY <1>2, <1>3, <2>1, SpendGrows
<1>4. CASE Moves(c)
  BY <1>2, <1>4, SpendGrows DEF Moves
<1>5. CASE Granting
  BY <1>3, <1>5, GrantEffect DEF Granting
<1>6. CASE Settling
  BY <1>3, <1>4, <1>6, SettleEffect DEF Settling, Moves
<1>7. CASE Still
  BY <1>3, <1>4, <1>7 DEF Still, Moves
<1>. QED
  BY <1>5, <1>6, <1>7, StepKinds DEF Flagging, Closing, Quiet

\* Flags and alerts come together.
LEMMA NextWarnings ==
  TypeOK /\ HoldsAreReserved /\ WarningsAreFlagged /\ [Next]_vars => WarningsAreFlagged'
<1>. SUFFICES ASSUME TypeOK, HoldsAreReserved, WarningsAreFlagged, [Next]_vars,
                     NEW k \in Item
              PROVE  IF budget'[k].warned
                     THEN \E a \in alerts' : AlertsOf("WARN_80", k)' = {a}
                     ELSE AlertsOf("WARN_80", k)' = {}
  BY DEF WarningsAreFlagged
<1>1. IF budget[k].warned THEN \E a \in alerts : AlertsOf("WARN_80", k) = {a}
      ELSE AlertsOf("WARN_80", k) = {}
  BY DEF WarningsAreFlagged
<1>2. ASSUME AlertsOf("WARN_80", k)' = AlertsOf("WARN_80", k), alerts \subseteq alerts',
             budget'[k].warned = budget[k].warned
      PROVE  IF budget'[k].warned
             THEN \E a \in alerts' : AlertsOf("WARN_80", k)' = {a}
             ELSE AlertsOf("WARN_80", k)' = {}
  BY <1>1, <1>2
<1>3. CASE alerts' = alerts /\ budget'[k].warned = budget[k].warned
  BY <1>2, <1>3 DEF AlertsOf
<1>4. CASE Granting
  BY <1>3, <1>4, GrantEffect DEF Granting
<1>5. CASE Settling
  BY <1>3, <1>5, SettleEffect DEF Settling
<1>6. CASE Flagging
  <2>1. PICK j \in Item, trigger \in Call \cup {NoCall} : Flags(j, trigger)
    BY <1>6 DEF Flagging
  <2>. DEFINE a == [kind |-> "WARN_80", item |-> j, trigger |-> trigger, reason |-> "none"]
  <2>2. alerts' = alerts \cup {a} /\ a.item = j /\ a.kind = "WARN_80" /\ ~budget[j].warned
    BY <2>1 DEF Flags
  <2>. HIDE DEF a
  <2>3. CASE k = j
    <3>1. AlertsOf("WARN_80", k) = {} /\ budget'[k].warned
      BY <1>1, <2>1, <2>2, <2>3, FlagEffect
    <3>2. AlertsOf("WARN_80", k)' = {a}
      BY <2>2, <2>3, <3>1 DEF AlertsOf
    <3>. QED
      BY <2>2, <3>1, <3>2
  <2>4. CASE k # j
    <3>1. AlertsOf("WARN_80", k)' = AlertsOf("WARN_80", k)
      BY <2>2, <2>4 DEF AlertsOf
    <3>2. budget'[k].warned = budget[k].warned
      BY <2>1, <2>4, FlagEffect
    <3>. QED
      BY <1>2, <2>2, <3>1, <3>2
  <2>. QED
    BY <2>3, <2>4
<1>7. CASE Closing
  <2>1. PICK c \in Call : Closes(c) /\ budget' = budget
    BY <1>7 DEF Closing
  <2>2. PICK reason \in {"budget_exhausted", "remaining_below_viable"} :
          alerts' = alerts \cup {[kind |-> "SESSION_CLOSED", item |-> SessionItem,
                                  trigger |-> c, reason |-> reason]}
    BY <2>1 DEF Closes
  <2>3. AlertsOf("WARN_80", k)' = AlertsOf("WARN_80", k)
    BY <2>2 DEF AlertsOf
  <2>. QED
    BY <1>2, <2>1, <2>2, <2>3
<1>8. CASE Quiet
  BY <1>3, <1>8 DEF Quiet
<1>. QED
  BY <1>4, <1>5, <1>6, <1>7, <1>8, StepKinds

\* The gateway's warnings stay about spent money.
LEMMA NextInline ==
  TypeOK /\ HoldsAreReserved /\ ReadsAreCovered /\ InlineWarningIsSpent /\ [Next]_vars
    => InlineWarningIsSpent'
<1>. SUFFICES ASSUME TypeOK, HoldsAreReserved, ReadsAreCovered, InlineWarningIsSpent,
                     [Next]_vars,
                     NEW a \in alerts', a.kind = "WARN_80", a.trigger \in Call
              PROVE  Crossed(a.item, WarningPercent)'
  BY DEF InlineWarningIsSpent
<1>1. /\ WarningPercent \in Nat
      /\ \A k \in Item : Limit[k] \in Nat /\ Limit[k] > 0
                         /\ CrossingAt(k, WarningPercent) \in Int
  <2>1. WarningPercent \in Nat
    BY PolicyAssumption
  <2>2. ASSUME NEW k \in Item PROVE CrossingAt(k, WarningPercent) \in Int
    <3>1. -Limit[k] * WarningPercent \in Int
      <4>1. Limit[k] \in Int /\ WarningPercent \in Int
        BY <2>1, ItemTypes
      <4>. QED
        BY <4>1
    <3>. QED
      BY <3>1 DEF CrossingAt
  <2>. QED
    BY <2>1, <2>2, ItemTypes
<1>2. CASE a \in alerts
  <2>1. Crossed(a.item, WarningPercent) /\ a.item \in Item
    BY <1>2 DEF InlineWarningIsSpent, TypeOK, Alert
  <2>2. PICK k \in Item : k = a.item
    BY <2>1
  <2>3. /\ budget[k].committed >= CrossingAt(k, WarningPercent)
        /\ CrossingAt(k, WarningPercent)' = CrossingAt(k, WarningPercent)
    BY <2>1, <2>2 DEF Crossed, CrossingAt
  <2>4. budget'[k].committed >= CrossingAt(k, WarningPercent)
    BY <1>1, <2>3, SpendGrows
  <2>. QED
    BY <2>2, <2>3, <2>4 DEF Crossed
<1>3. CASE a \notin alerts
  <2>1. Flagging
    <3>1. CASE Closing
      BY <1>3, <3>1 DEF Closing, Closes
    <3>2. CASE Settling
      BY <1>3, <3>2, SettleEffect DEF Settling
    <3>. QED
      BY <1>3, <3>1, <3>2, StepKinds DEF Granting, Quiet
  <2>2. PICK k \in Item, c \in Call \cup {NoCall} :
          /\ Flags(k, c)
          /\ c \in Call => /\ frame[c].pc = "warn" /\ k = Chain[frame[c].at]
                           /\ ShouldWarn(k, frame[c].seen)
    BY <2>1 DEF Flagging
  <2>3. a.item = k /\ a.trigger = c
    BY <1>3, <2>2 DEF Flags
  <2>4. /\ frame[c].seen.committed <= budget[k].committed
        /\ frame[c].seen.committed \in Nat
        /\ (frame[c].seen.committed * 100) \div Limit[k] >= WarningPercent
    BY <2>2, <2>3 DEF ReadsAreCovered, ShouldWarn, Utilization, TypeOK, Frame, Counters
  <2>5. frame[c].seen.committed >= CrossingAt(k, WarningPercent)
    BY <1>1, <2>4, UtilizationCrosses DEF CrossingAt
  <2>6. budget'[k].committed >= CrossingAt(k, WarningPercent)
    BY <1>1, <2>4, <2>5, SpendGrows
  <2>. QED
    BY <2>3, <2>6 DEF Crossed, CrossingAt
<1>. QED
  BY <1>2, <1>3

\* A closure by budget is reported with it, and stays reported.
LEMMA NextReported == TypeOK /\ HoldsAreReserved /\ ClosureIsReported /\ [Next]_vars
                        => ClosureIsReported'
<1>. SUFFICES ASSUME TypeOK, HoldsAreReserved, ClosureIsReported, [Next]_vars,
                     session'.status = "CLOSED_BUDGET"
              PROVE  \E a \in alerts' : /\ a.kind = "SESSION_CLOSED" /\ a.item = SessionItem
                                        /\ a.reason = session'.reason
  BY DEF ClosureIsReported, AlertsOf
<1>1. CASE session' = session /\ alerts \subseteq alerts'
  BY <1>1 DEF ClosureIsReported, AlertsOf
<1>2. CASE Closing
  <2>1. PICK c \in Call : Closes(c)
    BY <1>2 DEF Closing
  <2>2. PICK reason \in {"budget_exhausted", "remaining_below_viable"} :
          /\ session' = [status |-> "CLOSED_BUDGET", reason |-> reason]
          /\ alerts' = alerts \cup {[kind |-> "SESSION_CLOSED", item |-> SessionItem,
                                     trigger |-> c, reason |-> reason]}
    BY <2>1 DEF Closes
  <2>. DEFINE a == [kind |-> "SESSION_CLOSED", item |-> SessionItem, trigger |-> c,
                    reason |-> reason]
  <2>3. /\ a \in alerts' /\ a.kind = "SESSION_CLOSED" /\ a.item = SessionItem
        /\ a.reason = session'.reason
    BY <2>2
  <2>. QED
    BY <2>3, Zenon
<1>3. CASE Quiet
  BY <1>1, <1>3 DEF Quiet, NewSession
<1>4. CASE Flagging
  BY <1>1, <1>4 DEF Flagging, Flags
<1>5. CASE Settling
  BY <1>1, <1>5, SettleEffect DEF Settling
<1>6. CASE Granting
  BY <1>1, <1>6 DEF Granting
<1>. QED
  BY <1>2, <1>3, <1>4, <1>5, <1>6, StepKinds

\* A call that held money is not forgotten.
LEMMA HeldIsRemembered ==
  ASSUME TypeOK, HoldsAreReserved, ClosersCameLater, [Next]_vars
  PROVE  /\ SomeoneHeld \/ Granting \/ Settling => SomeoneHeld'
         /\ Settling => SomeoneHeld
<1>1. ASSUME NEW c \in Call, NEW cost \in Costs, Grant(c, cost) PROVE SomeoneHeld'
  <2>1. frame'[c].cost > 0
    BY <1>1, GrantEffect
  <2>. QED
    BY <2>1 DEF SomeoneHeld
<1>2. ASSUME Settling PROVE SomeoneHeld
  <2>1. PICK c \in Call : Reconcile(c) \/ Release(c)
    BY <1>2 DEF Settling
  <2>2. frame[c].cost > 0
    BY <2>1, SettleEffect DEF ClosersCameLater
  <2>. QED
    BY <2>2 DEF SomeoneHeld
<1>3. ASSUME NEW c \in Call, Moves(c), SomeoneHeld PROVE SomeoneHeld'
  <2>1. PICK b \in Call : frame[b].cost > 0
    BY <1>3 DEF SomeoneHeld
  <2>2. frame'[b].cost = frame[b].cost
    BY <1>3 DEF Moves
  <2>. QED
    BY <2>1, <2>2 DEF SomeoneHeld
<1>4. ASSUME Settling PROVE SomeoneHeld'
  <2>1. PICK c \in Call : Reconcile(c) \/ Release(c)
    BY <1>4 DEF Settling
  <2>2. Moves(c)
    BY <2>1, SettleEffect
  <2>. QED
    BY <1>2, <1>3, <1>4, <2>2
<1>5. ASSUME Granting PROVE SomeoneHeld'
  BY <1>1, <1>5 DEF Granting
<1>6. ASSUME Still, SomeoneHeld PROVE SomeoneHeld'
  BY <1>3, <1>6 DEF Still, SomeoneHeld
<1>. QED
  BY <1>2, <1>4, <1>5, <1>6, StepKinds DEF Flagging, Closing, Quiet

\* Before any call held money, a session that lacks a cost lacks it from the start.
LEMMA DeniedLate ==
  ASSUME TypeOK, ClosersCameLater, NEW c \in Call, Moves(c), frame'[c].pc = "denied"
  PROVE  SomeoneHeld
<1>. SUFFICES ASSUME ~SomeoneHeld PROVE FALSE
  OBVIOUS
<1>1. PICK cost \in Costs : /\ Remaining(SessionItem, budget[SessionItem]) < cost
                            /\ cost <= Limit[SessionItem]
  BY DEF Moves
<1>2. budget[SessionItem] = [NoCounters EXCEPT !.warned = budget[SessionItem].warned]
  BY ItemTypes DEF ClosersCameLater
<1>3. budget[SessionItem].committed = 0 /\ budget[SessionItem].reserved = 0
  BY <1>2 DEF NoCounters
<1>4. Limit[SessionItem] \in Nat /\ cost \in Nat
  BY ItemTypes, AmountAssumption
<1>. QED
  BY <1>1, <1>3, <1>4 DEF Remaining

\* Counters move after a grant only, and closers after that.
LEMMA NextClosers ==
  TypeOK /\ HoldsAreReserved /\ ClosersCameLater /\ [Next]_vars => ClosersCameLater'
<1>. SUFFICES ASSUME TypeOK, HoldsAreReserved, ClosersCameLater, [Next]_vars
              PROVE  ClosersCameLater'
  OBVIOUS
<1>1. ASSUME NEW k \in Item, ~SomeoneHeld'
      PROVE  budget'[k] = [NoCounters EXCEPT !.warned = budget'[k].warned]
  <2>1. Flagging \/ Closing \/ Quiet
    BY <1>1, HeldIsRemembered, StepKinds
  <2>2. budget[k] = [NoCounters EXCEPT !.warned = budget[k].warned]
    BY <1>1, HeldIsRemembered DEF ClosersCameLater
  <2>3. budget'[k].committed = budget[k].committed /\ budget'[k].reserved = budget[k].reserved
    BY <2>1, FlagEffect DEF Flagging, Closing, Quiet
  <2>4. budget'[k] \in Counters
    BY NextTypeOK DEF TypeOK
  <2>. QED
    BY <2>2, <2>3, <2>4 DEF Counters, NoCounters
<1>. DEFINE Later(c) ==
       /\ frame[c].pc \in {"held", "read", "warn", "close"} => frame[c].cost > 0
       /\ frame[c].pc = "denied" => SomeoneHeld
<1>2. ASSUME NEW c \in Call PROVE Later(c)'
  <2>1. Later(c)
    BY DEF ClosersCameLater
  <2>2. CASE frame'[c] = frame[c]
    BY <2>1, <2>2, HeldIsRemembered
  <2>3. CASE Moves(c)
    BY <2>1, <2>3, DeniedLate, HeldIsRemembered DEF Moves
  <2>4. CASE Granting
    BY <2>2, <2>4, GrantEffect DEF Granting
  <2>5. CASE Settling
    <3>1. PICK b \in Call : Reconcile(b) \/ Release(b)
      BY <2>5 DEF Settling
    <3>2. Moves(b)
      BY <3>1, SettleEffect
    <3>. QED
      BY <2>2, <2>3, <3>2 DEF Moves
  <2>6. CASE Still
    BY <2>2, <2>3, <2>6 DEF Still, Moves
  <2>. QED
    BY <2>4, <2>5, <2>6, StepKinds DEF Flagging, Closing, Quiet
<1>. QED
  BY <1>1, <1>2 DEF ClosersCameLater

\* So a budget closes no session that never held money.
LEMMA NextOversized ==
  TypeOK /\ HoldsAreReserved /\ ClosersCameLater /\ OversizedLeavesOpen /\ [Next]_vars
    => OversizedLeavesOpen'
<1>. SUFFICES ASSUME TypeOK, HoldsAreReserved, ClosersCameLater, OversizedLeavesOpen,
                     [Next]_vars, session'.status = "CLOSED_BUDGET"
              PROVE  SomeoneHeld'
  BY DEF OversizedLeavesOpen, SomeoneHeld
<1>1. CASE session' = session
  BY <1>1, HeldIsRemembered DEF OversizedLeavesOpen, SomeoneHeld
<1>2. CASE Closing
  <2>1. PICK c \in Call : frame[c].pc \in {"close", "denied"}
    BY <1>2 DEF Closing
  <2>2. SomeoneHeld
    BY <2>1 DEF ClosersCameLater, SomeoneHeld
  <2>. QED
    BY <2>2, HeldIsRemembered
<1>3. CASE Quiet
  BY <1>1, <1>3 DEF Quiet, NewSession
<1>4. CASE Granting \/ Settling
  BY <1>4, HeldIsRemembered
<1>. QED
  BY <1>1, <1>2, <1>3, <1>4, StepKinds DEF Flagging

\* It holds at first.
LEMMA InitFollowed == Init => Followed
<1>. SUFFICES ASSUME Init PROVE Followed
  OBVIOUS
<1>1. /\ NoCounters \in Counters /\ NewSession \in SessionRecord
      /\ <<>> \in Seq(Counters) /\ 1 \in 1 .. Len(Chain) /\ 0 \in 0 .. MaxPosts
      /\ {} \subseteq Alert /\ "idle" \in Pc
  BY ItemTypes, BoundAssumption
     DEF NoCounters, Counters, NewSession, SessionRecord, Status, Reason, Pc
<1>2. TypeOK
  BY <1>1 DEF Init, TypeOK, Frame
<1>3. HoldsAreReserved
  <2>1. Holders = {}
    BY DEF Init, Holders
  <2>2. \A k \in Item : budget[k].reserved = 0
    BY DEF Init, NoCounters
  <2>. QED
    BY <2>1, <2>2, SumEmpty, FS_EmptySet DEF HoldsAreReserved
<1>4. ReadsAreCovered /\ WarningsAreFlagged /\ InlineWarningIsSpent
  BY DEF Init, ReadsAreCovered, WarningsAreFlagged, InlineWarningIsSpent, AlertsOf,
         NoCounters
<1>5. ClosureIsReported /\ OversizedLeavesOpen
  BY DEF Init, ClosureIsReported, OversizedLeavesOpen, NewSession
<1>6. ClosersCameLater
  BY DEF Init, ClosersCameLater, NoCounters
<1>. QED
  BY <1>2, <1>3, <1>4, <1>5, <1>6 DEF Followed

\* And every step keeps it.
LEMMA NextFollowed == Followed /\ [Next]_vars => Followed'
BY NextTypeOK, NextHolds, NextReads, NextWarnings, NextInline, NextReported, NextClosers,
   NextOversized DEF Followed

-----------------------------------------------------------------------------
(* The theorems *)

\* The inductive invariant holds.
THEOREM FollowedHolds == Spec => []Followed
BY InitFollowed, NextFollowed, PTL DEF Spec

\* Of an item there is one warning exactly when its flag is up, however the
\* gateway's calls, the stream's images and their repetitions interleave.
THEOREM WarnedOnce == Spec => []WarnedExactlyOnce
<1>1. Followed => WarnedExactlyOnce
  <2>. SUFFICES ASSUME WarningsAreFlagged, NEW k \in Item
                PROVE  Cardinality(AlertsOf("WARN_80", k)) = IF budget[k].warned THEN 1 ELSE 0
    BY DEF Followed, WarnedExactlyOnce
  <2>1. CASE budget[k].warned
    <3>1. PICK a \in alerts : AlertsOf("WARN_80", k) = {a}
      BY <2>1 DEF WarningsAreFlagged
    <3>. QED
      BY <2>1, <3>1, FS_Singleton
  <2>2. CASE ~budget[k].warned
    BY <2>2, FS_EmptySet DEF WarningsAreFlagged
  <2>. QED
    BY <2>1, <2>2
<1>. QED
  BY <1>1, FollowedHolds, PTL

\* The gateway warns of money that is spent, whatever was held when it read.
THEOREM InlineIsSpent == Spec => []InlineWarningIsSpent
<1>1. Followed => InlineWarningIsSpent
  BY DEF Followed
<1>. QED
  BY <1>1, FollowedHolds, PTL

\* A session that its budget closed has an alert with the same reason.
THEOREM ClosureReported == Spec => []ClosureIsReported
<1>1. Followed => ClosureIsReported
  BY DEF Followed
<1>. QED
  BY <1>1, FollowedHolds, PTL

\* A request too large for what is left closes no session on its own: some call
\* held money before.
THEOREM OversizedLeaves == Spec => []OversizedLeavesOpen
<1>1. Followed => OversizedLeavesOpen
  BY DEF Followed
<1>. QED
  BY <1>1, FollowedHolds, PTL

\* Of the closers that race, the first wins: nobody rewrites a closed session,
\* except by posting it again.
THEOREM FirstCloser == Spec => FirstCloserWins
<1>1. TypeOK /\ HoldsAreReserved /\ [Next]_vars
        => [session.status # "OPEN" /\ posts' = posts => session' = session]_vars
  <2>. SUFFICES ASSUME TypeOK, HoldsAreReserved, [Next]_vars,
                       session.status # "OPEN", posts' = posts
                PROVE  session' = session
    OBVIOUS
  <2>1. posts' # posts + 1
    BY DEF TypeOK
  <2>2. CASE Settling
    BY <2>2, SettleEffect DEF Settling
  <2>. QED
    BY <2>1, <2>2, StepKinds DEF Granting, Flagging, Closing, Closes, Quiet
<1>2. Followed => TypeOK /\ HoldsAreReserved
  BY DEF Followed
<1>. QED
  BY <1>1, <1>2, FollowedHolds, PTL DEF Spec, FirstCloserWins
================================================================================
