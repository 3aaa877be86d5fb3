----------------------------- MODULE RunawayProofs -----------------------------
(***************************************************************************)
(* Proofs about the runaway detector, for any entries, handlers, operators *)
(* and environments: marks keep an entry from being counted twice in a     *)
(* window, so that no repetition pauses an agent; pauses and resumes that  *)
(* race leave the first standing and an audit trail without inventions.    *)
(***************************************************************************)
EXTENDS Runaway, Sums

\* What the constants are.
LEMMA Parameters ==
  /\ IsFiniteSet(Entry) /\ Kind \in [Entry -> LedgerKinds] /\ Amount \in [Entry -> Nat]
  /\ Limits \subseteq Nat /\ Initial \in Limits /\ Percent \in Nat /\ Interval \in Nat
  /\ MarkLife \in Nat /\ MaxTime \in Nat /\ 0 \in Time /\ Time \subseteq Nat
  /\ NoTime \notin Time
  /\ \A m \in Modes : m.life \in Nat /\ m.time \in Time /\ m.acts \in Nat /\ m.amends \in Nat
  /\ (CHOOSE e \in Entry : TRUE) \in Entry
<1>1. (CHOOSE e \in Entry : TRUE) \in Entry
  BY EntryAssumption
<1>. QED
  BY <1>1, EntryAssumption, PolicyAssumption, LifeAssumption, BoundAssumption, ModeAssumption
     DEF Mode, Time, NoTime

\* The window of a handler is part of the ledger, and so are its sums.
LEMMA WindowTypes ==
  ASSUME TypeOK, NEW now \in Time
  PROVE  /\ InWindow(now) \subseteq Entry /\ IsFiniteSet(InWindow(now))
         /\ RollingSpend(now) \in Nat
<1>. DEFINE f == [e \in Entry |-> counted[e] * Amount[e]]
            S == InWindow(now)
<1>1. S \subseteq Entry /\ IsFiniteSet(S)
  BY Parameters, FS_Subset DEF InWindow
<1>2. ASSUME NEW e \in S PROVE f[e] \in Nat
  <2>1. counted[e] \in Nat /\ Amount[e] \in Nat
    BY <1>1, Parameters DEF TypeOK
  <2>2. counted[e] * Amount[e] \in Nat
    BY <2>1
  <2>. QED
    BY <1>1, <2>2
<1>3. SumFunctionOnSet(f, S) \in Nat
  <2>. HIDE DEF f, S
  <2>. QED
    BY <1>1, <1>2, SumType
<1>. QED
  BY <1>1, <1>3 DEF RollingSpend

\* A handler that only moves on.
LEMMA GoTypes ==
  ASSUME handler \in [Handler -> HandlerFrame], NEW h \in Handler,
         NEW where \in {"idle", "claim", "add", "sum", "trip", "event", "alert"},
         Go(h, where)
  PROVE  /\ handler' \in [Handler -> HandlerFrame]
         /\ handler'[h].pc = where /\ handler'[h].entry = handler[h].entry
         /\ handler'[h].now = handler[h].now /\ handler'[h].limit = handler[h].limit
         /\ \A g \in Handler \ {h} : handler'[g] = handler[g]
BY DEF Go, HandlerFrame

\* An operator that only moves on.
LEMMA AtTypes ==
  ASSUME operator \in [Operator -> OperatorFrame], NEW o \in Operator,
         NEW where \in {"idle", "set", "audit", "alert"}, At(o, where)
  PROVE  /\ operator' \in [Operator -> OperatorFrame]
         /\ operator'[o].pc = where /\ operator'[o].seen = operator[o].seen
         /\ operator'[o].to = operator[o].to
         /\ \A p \in Operator \ {o} : operator'[p] = operator[p]
BY DEF At, OperatorFrame

-----------------------------------------------------------------------------
(* The steps, by what they do to entries and handlers *)

counting == <<clock, completed, mark, counted>>

\* A handler goes on with the entry it has, or stops.
GoesOn(h) ==
  /\ handler' \in [Handler -> HandlerFrame]
  /\ Busy(h)
  /\ handler'[h].entry = handler[h].entry /\ handler'[h].now = handler[h].now
  /\ handler'[h].limit = handler[h].limit
  /\ \A g \in Handler \ {h} : handler'[g] = handler[g]

Writes == \E e \in Entry :
  /\ completed[e] = NoTime /\ completed' = [completed EXCEPT ![e] = clock]
  /\ UNCHANGED <<clock, mark, counted, handler>>
Takes == \E h \in Handler, e \in Entry :
  /\ handler[h].pc = "idle" /\ completed[e] # NoTime /\ Kind[e] \in CountedKinds
  /\ handler' \in [Handler -> HandlerFrame]
  /\ handler'[h].pc = "claim" /\ handler'[h].entry = e /\ handler'[h].now = clock
  /\ \A g \in Handler \ {h} : handler'[g] = handler[g]
  /\ UNCHANGED counting
Claims == \E h \in Handler :
  /\ handler[h].pc = "claim" /\ GoesOn(h) /\ handler'[h].pc = "add"
  /\ mark[handler[h].entry] = NoTime
  /\ mark' = [mark EXCEPT ![handler[h].entry] = handler[h].now + MarkLife]
  /\ UNCHANGED <<clock, completed, counted>>
Adds == \E h \in Handler :
  /\ handler[h].pc = "add" /\ GoesOn(h) /\ handler'[h].pc = "sum"
  /\ counted' = [counted EXCEPT ![handler[h].entry] = @ + 1]
  /\ UNCHANGED <<clock, completed, mark>>
Leaves == \E h \in Handler :
  /\ GoesOn(h) /\ handler'[h].pc \notin {"claim", "add"}
  /\ handler'[h].pc = "trip" =>
       RollingSpend(handler[h].now) > Threshold(handler[h].limit)
  /\ UNCHANGED counting
Expires == \E e \in Entry :
  /\ mark[e] # NoTime /\ mark[e] <= clock /\ mark' = [mark EXCEPT ![e] = NoTime]
  /\ UNCHANGED <<clock, completed, counted, handler>>
Ticks == /\ clock' = clock + 1 /\ clock < mode.time
         /\ \A h \in Handler : Busy(h) => clock < handler[h].now + mode.life
         /\ UNCHANGED <<completed, mark, counted, handler>>
Rests == UNCHANGED <<counting, handler>>

\* Every step is of one of them.
LEMMA HandlerSteps ==
  ASSUME TypeOK, [Next]_vars
  PROVE  Writes \/ Takes \/ Claims \/ Adds \/ Leaves \/ Expires \/ Ticks \/ Rests
<1>0. handler \in [Handler -> HandlerFrame]
  BY DEF TypeOK
<1>1. ASSUME NEW e \in Entry, Emit(e) PROVE Writes
  BY <1>1 DEF Emit, Writes, rolling
<1>2. ASSUME NEW e \in Entry, ExpireMark(e) PROVE Expires
  BY <1>2 DEF ExpireMark, Expires, ledger
<1>3. ASSUME NEW h \in Handler, NEW e \in Entry, Deliver(h, e) PROVE Takes \/ Rests
  <2>1. UNCHANGED counting /\ handler[h].pc = "idle" /\ completed[e] # NoTime
    BY <1>3 DEF Deliver, counting, rolling
  <2>2. CASE policy.enabled /\ Kind[e] \in CountedKinds
    <3>. DEFINE f == [pc |-> "claim", entry |-> e, now |-> clock,
                      limit |-> policy.limit, sum |-> 0]
    <3>1. handler' = [handler EXCEPT ![h] = f]
      BY <1>3, <2>2 DEF Deliver
    <3>2. f \in HandlerFrame
      BY DEF HandlerFrame, TypeOK, AgentPolicy
    <3>3. f.pc = "claim" /\ f.entry = e /\ f.now = clock
      OBVIOUS
    <3>. HIDE DEF f
    <3>4. /\ handler' \in [Handler -> HandlerFrame] /\ handler'[h] = f
          /\ \A g \in Handler \ {h} : handler'[g] = handler[g]
      BY <1>0, <3>1, <3>2
    <3>. QED
      BY <2>1, <2>2, <3>3, <3>4 DEF Takes
  <2>3. CASE ~(policy.enabled /\ Kind[e] \in CountedKinds)
    BY <1>3, <2>1, <2>3 DEF Deliver, Rests
  <2>. QED
    BY <2>2, <2>3
<1>4. ASSUME NEW h \in Handler, Claim(h) PROVE Claims \/ Leaves
  <2>1. handler[h].pc = "claim" /\ UNCHANGED <<clock, completed, counted>> /\ Busy(h)
    BY <1>4 DEF Claim, Busy
  <2>2. CASE mark[handler[h].entry] = NoTime
    <3>1. Go(h, "add") /\ mark' = [mark EXCEPT ![handler[h].entry] = handler[h].now + MarkLife]
      BY <1>4, <2>2 DEF Claim
    <3>2. GoesOn(h) /\ handler'[h].pc = "add"
      BY <1>0, <2>1, <3>1, GoTypes DEF GoesOn
    <3>. QED
      BY <2>1, <2>2, <3>1, <3>2 DEF Claims
  <2>3. CASE mark[handler[h].entry] # NoTime
    <3>1. Go(h, "idle") /\ mark' = mark
      BY <1>4, <2>3 DEF Claim, Done
    <3>2. GoesOn(h) /\ handler'[h].pc = "idle"
      BY <1>0, <2>1, <3>1, GoTypes DEF GoesOn
    <3>. QED
      BY <2>1, <3>1, <3>2 DEF Leaves, counting
  <2>. QED
    BY <2>2, <2>3
<1>5. ASSUME NEW h \in Handler, Add(h) PROVE Adds
  <2>1. /\ handler[h].pc = "add" /\ UNCHANGED <<clock, completed, mark>> /\ Busy(h)
        /\ Go(h, "sum") /\ counted' = [counted EXCEPT ![handler[h].entry] = @ + 1]
    BY <1>5 DEF Add, Busy, ledger
  <2>2. GoesOn(h) /\ handler'[h].pc = "sum"
    BY <1>0, <2>1, GoTypes DEF GoesOn
  <2>. QED
    BY <2>1, <2>2 DEF Adds
<1>6. ASSUME NEW h \in Handler, Sum(h) PROVE Leaves
  <2>. DEFINE sum == RollingSpend(handler[h].now)
  <2>1. handler[h].pc = "sum" /\ UNCHANGED counting /\ Busy(h)
    BY <1>6 DEF Sum, Busy, rolling, counting
  <2>2. CASE sum > Threshold(handler[h].limit)
    <3>1. handler' = [handler EXCEPT ![h] = [@ EXCEPT !.pc = "trip", !.sum = sum]]
      BY <1>6, <2>2 DEF Sum
    <3>2. sum \in Nat
      BY <1>0, WindowTypes DEF HandlerFrame
    <3>. HIDE DEF sum
    <3>3. GoesOn(h) /\ handler'[h].pc = "trip"
      BY <1>0, <2>1, <3>1, <3>2 DEF GoesOn, HandlerFrame
    <3>. QED
      BY <2>1, <2>2, <3>3 DEF Leaves, sum
  <2>3. CASE ~(sum > Threshold(handler[h].limit))
    <3>1. Go(h, "idle")
      BY <1>6, <2>3 DEF Sum, Done
    <3>2. GoesOn(h) /\ handler'[h].pc = "idle"
      BY <1>0, <2>1, <3>1, GoTypes DEF GoesOn
    <3>. QED
      BY <2>1, <3>2 DEF Leaves
  <2>. QED
    BY <2>2, <2>3
<1>7. ASSUME NEW h \in Handler, Trip(h) \/ RecordEvent(h) \/ AlertRunaway(h) \/ Crash(h)
      PROVE  Leaves
  <2>1. UNCHANGED counting /\ Busy(h)
    BY <1>7 DEF Trip, RecordEvent, AlertRunaway, Crash, Busy, rolling, ledger, counting
  <2>2. Go(h, "idle") \/ Go(h, "event") \/ Go(h, "alert")
    BY <1>7 DEF Trip, RecordEvent, AlertRunaway, Crash, Done
  <2>3. GoesOn(h) /\ handler'[h].pc \in {"idle", "event", "alert"}
    BY <1>0, <2>1, <2>2, GoTypes DEF GoesOn
  <2>. QED
    BY <2>1, <2>3 DEF Leaves
<1>8. ASSUME NEW o \in Operator,
             \/ Decide(o) \/ Audit(o) \/ AlertReview(o) \/ Abandon(o)
             \/ \E to \in {"ACTIVE", "PAUSED_ADMIN"} : Review(o, to)
      PROVE  Rests
  BY <1>8 DEF Decide, Audit, AlertReview, Abandon, Review, Rests, counting, rolling, ledger
<1>9. ASSUME \E limit \in Limits : SetLimit(limit)
                                     \/ \E enabled \in BOOLEAN : PostAgent(limit, enabled)
      PROVE  Rests
  BY <1>9 DEF SetLimit, PostAgent, Rests, counting, rolling, ledger
<1>10. ASSUME Tick PROVE Ticks
  BY <1>10 DEF Tick, Ticks, ledger, rolling
<1>11. CASE UNCHANGED vars
  BY <1>11 DEF vars, Rests, counting
<1>. QED
  BY <1>1, <1>2, <1>3, <1>4, <1>5, <1>6, <1>7, <1>8, <1>9, <1>10, <1>11 DEF Next, Observe

-----------------------------------------------------------------------------
(* The steps, by what they do to operators and the audit trail *)

\* An operator goes on with what was seen and decided, or stops.
Proceeds(o) ==
  /\ operator' \in [Operator -> OperatorFrame]
  /\ operator'[o].seen = operator[o].seen /\ operator'[o].to = operator[o].to
  /\ \A p \in Operator \ {o} : operator'[p] = operator[p]

Act(o) == [from |-> operator[o].seen, to |-> operator[o].to, by |-> "review"]

Reviews == \E o \in Operator :
  /\ operator' \in [Operator -> OperatorFrame] /\ operator[o].pc = "idle"
  /\ operator'[o].pc = "set" /\ operator'[o].to \in {"ACTIVE", "PAUSED_ADMIN"}
  /\ (operator'[o].seen = "ACTIVE") <=> (operator'[o].to = "PAUSED_ADMIN")
  /\ \A p \in Operator \ {o} : operator'[p] = operator[p]
  /\ UNCHANGED <<audit, log>>
Decides == \E o \in Operator :
  /\ operator[o].pc = "set" /\ Proceeds(o) /\ operator'[o].pc = "audit"
  /\ log' = [log EXCEPT ![Act(o)] = @ + 1] /\ UNCHANGED audit
WritesDown == \E o \in Operator :
  /\ operator[o].pc = "audit" /\ Proceeds(o) /\ operator'[o].pc = "alert"
  /\ audit' = [audit EXCEPT ![Act(o)] = @ + 1] /\ UNCHANGED log
Retires == \E o \in Operator :
  Proceeds(o) /\ operator'[o].pc = "idle" /\ UNCHANGED <<audit, log>>
Stays == /\ UNCHANGED <<operator, audit>> /\ log' \in [Transition -> Nat]
         /\ \A x \in Transition : log'[x] >= log[x]

\* Whoever changes the status leaves a trace in the log.
LEMMA LogTypes ==
  ASSUME log \in [Transition -> Nat], agent \in AgentState,
         NEW new \in AgentStatus, NEW by \in By, NEW old,
         log' = [log EXCEPT ![[from |-> old, to |-> new, by |-> by]] = @ + 1]
  PROVE  /\ log' \in [Transition -> Nat]
         /\ \A x \in Transition : log'[x] >= log[x]
<1>. DEFINE y == [from |-> old, to |-> new, by |-> by]
<1>1. log' = [log EXCEPT ![y] = @ + 1]
  OBVIOUS
<1>. HIDE DEF y
<1>2. ASSUME NEW x \in Transition PROVE log'[x] \in Nat /\ log'[x] >= log[x]
  <2>1. log[x] \in Nat
    OBVIOUS
  <2>2. log'[x] = log[x] \/ log'[x] = log[x] + 1
    BY <1>1
  <2>. QED
    BY <2>1, <2>2
<1>. QED
  BY <1>1, <1>2

\* Every step is of one of these, too.
LEMMA OperatorSteps ==
  ASSUME TypeOK, [Next]_vars
  PROVE  Reviews \/ Decides \/ WritesDown \/ Retires \/ Stays
<1>0. /\ operator \in [Operator -> OperatorFrame] /\ log \in [Transition -> Nat]
      /\ agent \in AgentState /\ \A x \in Transition : log[x] \in Nat
  BY DEF TypeOK
<1>1. ASSUME UNCHANGED <<operator, audit, log>> PROVE Stays
  BY <1>0, <1>1 DEF Stays
<1>2. ASSUME NEW e \in Entry, Emit(e) \/ ExpireMark(e) PROVE Stays
  BY <1>1, <1>2 DEF Emit, ExpireMark, records
<1>3. ASSUME NEW h \in Handler,
             \/ Claim(h) \/ Add(h) \/ Sum(h) \/ RecordEvent(h) \/ AlertRunaway(h) \/ Crash(h)
             \/ \E e \in Entry : Deliver(h, e)
      PROVE  Stays
  BY <1>1, <1>3 DEF Claim, Add, Sum, RecordEvent, AlertRunaway, Crash, Deliver, records
<1>4. ASSUME NEW h \in Handler, Trip(h) PROVE Stays
  <2>1. UNCHANGED <<operator, audit>>
    BY <1>4 DEF Trip, records
  <2>2. CASE SetStatus("ACTIVE", "PAUSED_RUNAWAY", "detector")
    <3>1. /\ log' \in [Transition -> Nat]
          /\ \A x \in Transition : log'[x] >= log[x]
      <4>1. "PAUSED_RUNAWAY" \in AgentStatus /\ "detector" \in By
        BY DEF AgentStatus, By
      <4>. QED
        BY <1>0, <2>2, <4>1, LogTypes DEF SetStatus
    <3>. QED
      BY <2>1, <3>1 DEF Stays
  <2>3. CASE UNCHANGED log
    BY <1>1, <2>1, <2>3
  <2>. QED
    BY <1>4, <2>2, <2>3 DEF Trip
<1>5. ASSUME NEW o \in Operator, NEW to \in {"ACTIVE", "PAUSED_ADMIN"}, Review(o, to)
      PROVE  Reviews
  <2>. DEFINE f == [pc |-> "set", seen |-> agent.status, to |-> to]
  <2>1. /\ operator[o].pc = "idle" /\ operator' = [operator EXCEPT ![o] = f]
        /\ UNCHANGED <<audit, log>> /\ ((agent.status = "ACTIVE") <=> (to = "PAUSED_ADMIN"))
    BY <1>5 DEF Review, records
  <2>2. f \in OperatorFrame
    BY <1>0 DEF OperatorFrame, AgentState, AgentStatus
  <2>3. f.pc = "set" /\ f.to = to /\ f.seen = agent.status
    OBVIOUS
  <2>. HIDE DEF f
  <2>4. /\ operator' \in [Operator -> OperatorFrame] /\ operator'[o] = f
        /\ \A p \in Operator \ {o} : operator'[p] = operator[p]
    BY <1>0, <2>1, <2>2
  <2>. QED
    BY <2>1, <2>3, <2>4 DEF Reviews
<1>6. ASSUME NEW o \in Operator, Decide(o) PROVE Decides \/ Retires
  <2>1. operator[o].pc = "set" /\ UNCHANGED audit
    BY <1>6 DEF Decide, records
  <2>2. CASE SetStatus(operator[o].seen, operator[o].to, "review") /\ At(o, "audit")
    <3>1. Proceeds(o) /\ operator'[o].pc = "audit"
      BY <1>0, <2>2, AtTypes DEF Proceeds
    <3>2. log' = [log EXCEPT ![Act(o)] = @ + 1]
      BY <2>2 DEF SetStatus, Act
    <3>. QED
      BY <2>1, <3>1, <3>2 DEF Decides
  <2>3. CASE At(o, "idle") /\ UNCHANGED log
    <3>1. Proceeds(o) /\ operator'[o].pc = "idle"
      BY <1>0, <2>3, AtTypes DEF Proceeds
    <3>. QED
      BY <2>1, <2>3, <3>1 DEF Retires
  <2>. QED
    BY <1>6, <2>2, <2>3 DEF Decide
<1>7. ASSUME NEW o \in Operator, Audit(o) PROVE WritesDown
  <2>1. /\ operator[o].pc = "audit" /\ At(o, "alert") /\ UNCHANGED log
        /\ audit' = [audit EXCEPT ![Act(o)] = @ + 1]
    BY <1>7 DEF Audit, Act
  <2>2. Proceeds(o) /\ operator'[o].pc = "alert"
    BY <1>0, <2>1, AtTypes DEF Proceeds
  <2>. QED
    BY <2>1, <2>2 DEF WritesDown
<1>8. ASSUME NEW o \in Operator, AlertReview(o) \/ Abandon(o) PROVE Retires
  <2>1. At(o, "idle") /\ UNCHANGED <<audit, log>>
    BY <1>8 DEF AlertReview, Abandon, records
  <2>2. Proceeds(o) /\ operator'[o].pc = "idle"
    BY <1>0, <2>1, AtTypes DEF Proceeds
  <2>. QED
    BY <2>1, <2>2 DEF Retires
<1>9. ASSUME NEW limit \in Limits, NEW enabled \in BOOLEAN, PostAgent(limit, enabled)
      PROVE  Stays
  <2>1. UNCHANGED <<operator, audit>>
    BY <1>9 DEF PostAgent, records
  <2>2. log' \in [Transition -> Nat] /\ \A x \in Transition : log'[x] >= log[x]
    <3>1. "ACTIVE" \in AgentStatus /\ "post" \in By
      BY DEF AgentStatus, By
    <3>. QED
      BY <1>0, <1>9, <3>1, LogTypes DEF PostAgent
  <2>. QED
    BY <2>1, <2>2 DEF Stays
<1>10. ASSUME Tick \/ \E limit \in Limits : SetLimit(limit) PROVE Stays
  BY <1>1, <1>10 DEF Tick, SetLimit, records
<1>11. CASE UNCHANGED vars
  BY <1>1, <1>11 DEF vars
<1>. QED
  BY <1>2, <1>3, <1>4, <1>5, <1>6, <1>7, <1>8, <1>9, <1>10, <1>11 DEF Next, Observe

-----------------------------------------------------------------------------
(* Types *)

\* What the steps of handlers and operators do to their own variables.
LEMMA NextCounting ==
  ASSUME TypeOK, [Next]_vars
  PROVE  /\ clock' \in Time /\ completed' \in [Entry -> Time \cup {NoTime}]
         /\ mark' \in [Entry -> Nat \cup {NoTime}] /\ counted' \in [Entry -> Nat]
         /\ handler' \in [Handler -> HandlerFrame]
<1>1. /\ clock \in Time /\ completed \in [Entry -> Time \cup {NoTime}]
      /\ mark \in [Entry -> Nat \cup {NoTime}] /\ counted \in [Entry -> Nat]
      /\ handler \in [Handler -> HandlerFrame] /\ mode \in Modes
  BY DEF TypeOK
<1>2. CASE Writes
  BY <1>1, <1>2 DEF Writes
<1>3. CASE Takes \/ Leaves \/ Rests
  BY <1>1, <1>3 DEF Takes, Leaves, Rests, counting, GoesOn
<1>4. CASE Claims
  <2>1. PICK h \in Handler :
          /\ GoesOn(h) /\ UNCHANGED <<clock, completed, counted>>
          /\ mark' = [mark EXCEPT ![handler[h].entry] = handler[h].now + MarkLife]
    BY <1>4 DEF Claims
  <2>2. handler[h].now + MarkLife \in Nat
    <3>1. handler[h].now \in Nat
      BY <1>1 DEF HandlerFrame, Time
    <3>. QED
      BY <3>1, LifeAssumption
  <2>. QED
    BY <1>1, <2>1, <2>2 DEF GoesOn
<1>5. CASE Adds
  <2>1. PICK h \in Handler : /\ GoesOn(h) /\ UNCHANGED <<clock, completed, mark>>
                             /\ counted' = [counted EXCEPT ![handler[h].entry] = @ + 1]
    BY <1>5 DEF Adds
  <2>2. handler[h].entry \in Entry /\ counted[handler[h].entry] + 1 \in Nat
    BY <1>1 DEF HandlerFrame
  <2>. QED
    BY <1>1, <2>1, <2>2 DEF GoesOn
<1>6. CASE Expires
  BY <1>1, <1>6 DEF Expires
<1>7. CASE Ticks
  <2>1. mode.time \in Time /\ clock < mode.time
    BY <1>1, <1>7, Parameters DEF Ticks
  <2>2. clock + 1 \in Time
    BY <1>1, <2>1, BoundAssumption DEF Time
  <2>. QED
    BY <1>1, <1>7, <2>2 DEF Ticks
<1>. QED
  BY <1>2, <1>3, <1>4, <1>5, <1>6, <1>7, HandlerSteps

LEMMA NextAuditing ==
  ASSUME TypeOK, [Next]_vars
  PROVE  /\ operator' \in [Operator -> OperatorFrame]
         /\ audit' \in [Transition -> Nat] /\ log' \in [Transition -> Nat]
<1>1. /\ operator \in [Operator -> OperatorFrame]
      /\ audit \in [Transition -> Nat] /\ log \in [Transition -> Nat]
  BY DEF TypeOK
<1>2. CASE Reviews \/ Retires \/ Stays
  BY <1>1, <1>2 DEF Reviews, Retires, Stays, Proceeds
<1>3. ASSUME NEW o \in Operator PROVE Act(o) \in Transition
  BY <1>1 DEF Act, Transition, OperatorFrame, By
<1>4. CASE Decides
  <2>1. PICK o \in Operator : /\ Proceeds(o) /\ UNCHANGED audit
                              /\ log' = [log EXCEPT ![Act(o)] = @ + 1]
    BY <1>4 DEF Decides
  <2>2. log[Act(o)] + 1 \in Nat
    BY <1>1, <1>3
  <2>. QED
    BY <1>1, <2>1, <2>2 DEF Proceeds
<1>5. CASE WritesDown
  <2>1. PICK o \in Operator : /\ Proceeds(o) /\ UNCHANGED log
                              /\ audit' = [audit EXCEPT ![Act(o)] = @ + 1]
    BY <1>5 DEF WritesDown
  <2>2. audit[Act(o)] + 1 \in Nat
    BY <1>1, <1>3
  <2>. QED
    BY <1>1, <2>1, <2>2 DEF Proceeds
<1>. QED
  BY <1>2, <1>4, <1>5, OperatorSteps

\* The kinds of an alert recorded.
LEMMA RecordTypes ==
  ASSUME alerts \in [AlertKind -> Nat], NEW kind \in AlertKind, RecordAlert(kind)
  PROVE  alerts' \in [AlertKind -> Nat]
<1>1. alerts[kind] + 1 \in Nat
  OBVIOUS
<1>. QED
  BY <1>1 DEF RecordAlert

\* A status that is set is one.
LEMMA StatusTypes ==
  ASSUME NEW old, NEW new \in AgentStatus, NEW by, SetStatus(old, new, by)
  PROVE  agent' \in AgentState
<1>1. (new \in PausedStatuses) \in BOOLEAN
  BY SMT
<1>. QED
  BY <1>1 DEF SetStatus, AgentState

\* Types are kept.
LEMMA NextTypeOK == TypeOK /\ [Next]_vars => TypeOK'
<1>. SUFFICES ASSUME TypeOK, [Next]_vars PROVE TypeOK'
  OBVIOUS
<1>. DEFINE Rest == /\ handled' \subseteq Entry
                    /\ agent' \in AgentState /\ policy' \in AgentPolicy
                    /\ events' \in Nat /\ alerts' \in [AlertKind -> Nat]
                    /\ acts' \in 0 .. mode.acts /\ amends' \in 0 .. mode.amends
<1>0. /\ handled \subseteq Entry /\ agent \in AgentState /\ policy \in AgentPolicy
      /\ events \in Nat /\ alerts \in [AlertKind -> Nat]
      /\ acts \in 0 .. mode.acts /\ amends \in 0 .. mode.amends
      /\ handler \in [Handler -> HandlerFrame] /\ operator \in [Operator -> OperatorFrame]
      /\ mode.acts \in Nat /\ mode.amends \in Nat /\ mode \in Modes
  BY Parameters DEF TypeOK
<1>1. ASSUME NEW h \in Handler PROVE handler[h].entry \in Entry
  BY <1>0 DEF HandlerFrame
<1>2. ASSUME NEW e \in Entry, Emit(e) \/ ExpireMark(e) PROVE Rest
  BY <1>0, <1>2 DEF Emit, ExpireMark, records, bounds, ledger
<1>3. ASSUME NEW h \in Handler, NEW e \in Entry, Deliver(h, e) PROVE Rest
  BY <1>0, <1>3 DEF Deliver, records, bounds
<1>4. ASSUME NEW h \in Handler, Claim(h) \/ Add(h) \/ Sum(h) \/ Crash(h) PROVE Rest
  BY <1>0, <1>1, <1>4 DEF Claim, Add, Sum, Crash, Done, records, bounds, ledger
<1>5. ASSUME NEW h \in Handler, Trip(h) PROVE Rest
  <2>1. agent' \in AgentState
    BY <1>0, <1>5, StatusTypes DEF Trip, AgentStatus
  <2>. QED
    BY <1>0, <1>1, <1>5, <2>1 DEF Trip, Done, records, bounds
<1>6. ASSUME NEW h \in Handler, RecordEvent(h) PROVE Rest
  BY <1>0, <1>6 DEF RecordEvent, bounds, ledger
<1>7. ASSUME NEW h \in Handler, AlertRunaway(h) PROVE Rest
  <2>1. alerts' \in [AlertKind -> Nat]
    BY <1>0, <1>7, RecordTypes DEF AlertRunaway, AlertKind
  <2>. QED
    BY <1>0, <1>1, <1>7, <2>1 DEF AlertRunaway, Done, bounds
<1>8. ASSUME NEW o \in Operator, NEW to \in {"ACTIVE", "PAUSED_ADMIN"}, Review(o, to)
      PROVE  Rest
  BY <1>0, <1>8 DEF Review, records, ledger
<1>9. ASSUME NEW o \in Operator, Decide(o) PROVE Rest
  <2>1. agent' \in AgentState
    BY <1>0, <1>9, StatusTypes DEF Decide, OperatorFrame
  <2>. QED
    BY <1>0, <1>9, <2>1 DEF Decide, records, bounds, ledger
<1>10. ASSUME NEW o \in Operator, Audit(o) \/ Abandon(o) PROVE Rest
  BY <1>0, <1>10 DEF Audit, Abandon, records, bounds, ledger
<1>11. ASSUME NEW o \in Operator, AlertReview(o) PROVE Rest
  <2>1. alerts' \in [AlertKind -> Nat]
    BY <1>0, <1>11, RecordTypes DEF AlertReview, AlertKind
  <2>. QED
    BY <1>0, <1>11, <2>1 DEF AlertReview, bounds, ledger
<1>12. ASSUME NEW limit \in Limits, NEW enabled \in BOOLEAN, PostAgent(limit, enabled)
       PROVE  Rest
  BY <1>0, <1>12 DEF PostAgent, AgentPolicy, AgentState, AgentStatus, records, ledger
<1>13. ASSUME NEW limit \in Limits, SetLimit(limit) PROVE Rest
  BY <1>0, <1>13 DEF SetLimit, AgentPolicy, records, ledger
<1>14. ASSUME Tick PROVE Rest
  BY <1>0, <1>14 DEF Tick, records, bounds, ledger
<1>15. CASE UNCHANGED vars
  BY <1>0, <1>15, NextCounting, NextAuditing DEF vars, TypeOK
<1>16. CASE Next
  <2>1. Rest
    BY <1>2, <1>3, <1>4, <1>5, <1>6, <1>7, <1>8, <1>9, <1>10, <1>11, <1>12, <1>13, <1>14,
       <1>16 DEF Next, Observe
  <2>2. mode' = mode
    BY <1>16 DEF Next
  <2>. QED
    BY <1>0, <2>1, <2>2, NextCounting, NextAuditing DEF TypeOK
<1>. QED
  BY <1>15, <1>16

-----------------------------------------------------------------------------
(* Every step keeps the invariant *)

\* The environment of a behaviour is its own.
LEMMA ModeStays == ASSUME [Next]_vars PROVE mode' = mode
BY DEF Next, vars

\* What times and entries are.
LEMMA TimeTypes ==
  ASSUME TypeOK
  PROVE  /\ clock \in Nat /\ mode.life \in Nat
         /\ \A e \in Entry : completed[e] \in Nat \cup {NoTime} /\ NoTime = -1
         /\ \A h \in Handler : /\ handler[h].now \in Nat /\ handler[h].now \in Time
                               /\ handler[h].entry \in Entry
BY Parameters DEF TypeOK, HandlerFrame, Time, NoTime

\* Handlers take what was written, and the clock waits for them.
LEMMA NextTimely == TypeOK /\ HandlersAreTimely /\ [Next]_vars => HandlersAreTimely'
<1>. SUFFICES ASSUME TypeOK, HandlersAreTimely, [Next]_vars PROVE HandlersAreTimely'
  OBVIOUS
<1>. DEFINE Timely(h) == Busy(h) =>
              /\ completed[handler[h].entry] # NoTime
              /\ Kind[handler[h].entry] \in CountedKinds
              /\ completed[handler[h].entry] <= handler[h].now
              /\ handler[h].now <= clock /\ clock <= handler[h].now + mode.life
<1>0. /\ mode' = mode /\ completed \in [Entry -> Time \cup {NoTime}]
      /\ \A e \in Entry : completed[e] <= clock
      /\ \A h \in Handler : Timely(h)
  BY ModeStays DEF TypeOK, HandlersAreTimely
<1>1. ASSUME \A e \in Entry : completed'[e] <= clock', \A h \in Handler : Timely(h)'
      PROVE  HandlersAreTimely'
  BY <1>1 DEF HandlersAreTimely
<1>2. CASE Writes
  <2>1. PICK e \in Entry : /\ completed[e] = NoTime
                           /\ completed' = [completed EXCEPT ![e] = clock]
                           /\ UNCHANGED <<clock, handler>>
    BY <1>2 DEF Writes
  <2>2. \A d \in Entry : completed'[d] <= clock'
    BY <1>0, <2>1, TimeTypes
  <2>3. ASSUME NEW h \in Handler PROVE Timely(h)'
    <3>1. Timely(h) /\ handler[h].entry \in Entry
      BY <1>0, TimeTypes
    <3>2. Busy(h) => handler[h].entry # e
      BY <2>1, <3>1
    <3>. QED
      BY <1>0, <2>1, <3>1, <3>2 DEF Busy
  <2>. QED
    BY <1>1, <2>2, <2>3
<1>3. CASE Takes
  <2>1. PICK h \in Handler, e \in Entry :
          /\ completed[e] # NoTime /\ Kind[e] \in CountedKinds
          /\ handler'[h].entry = e /\ handler'[h].now = clock
          /\ \A g \in Handler \ {h} : handler'[g] = handler[g]
          /\ clock' = clock /\ completed' = completed
    BY <1>3 DEF Takes, counting
  <2>2. Timely(h)'
    BY <1>0, <2>1, TimeTypes
  <2>3. ASSUME NEW g \in Handler \ {h} PROVE Timely(g)'
    BY <1>0, <2>1 DEF Busy
  <2>4. \A d \in Entry : completed'[d] <= clock'
    BY <1>0, <2>1
  <2>. QED
    BY <1>1, <2>2, <2>3, <2>4
<1>4. ASSUME NEW h \in Handler, GoesOn(h), UNCHANGED <<clock, completed>>
      PROVE  HandlersAreTimely'
  <2>1. Timely(h)'
    BY <1>0, <1>4 DEF GoesOn
  <2>2. ASSUME NEW g \in Handler \ {h} PROVE Timely(g)'
    BY <1>0, <1>4 DEF Busy, GoesOn
  <2>3. \A d \in Entry : completed'[d] <= clock'
    BY <1>0, <1>4
  <2>. QED
    BY <1>1, <2>1, <2>2, <2>3
<1>5. CASE Expires \/ Rests
  <2>1. UNCHANGED <<clock, completed, handler>>
    BY <1>5 DEF Expires, Rests, counting
  <2>. QED
    BY <1>0, <1>1, <2>1 DEF Busy
<1>6. CASE Ticks
  <2>1. /\ clock' = clock + 1 /\ UNCHANGED <<completed, handler>>
        /\ \A h \in Handler : Busy(h) => clock < handler[h].now + mode.life
    BY <1>6 DEF Ticks
  <2>2. \A d \in Entry : completed'[d] <= clock'
    BY <1>0, <2>1, TimeTypes
  <2>3. ASSUME NEW h \in Handler PROVE Timely(h)'
    <3>. SUFFICES ASSUME Busy(h)' PROVE Timely(h)'
      OBVIOUS
    <3>1. /\ completed[handler[h].entry] # NoTime
          /\ Kind[handler[h].entry] \in CountedKinds
          /\ completed[handler[h].entry] <= handler[h].now
          /\ handler[h].now <= clock /\ clock < handler[h].now + mode.life
      BY <1>0, <2>1 DEF Busy
    <3>2. handler[h].now <= clock + 1 /\ clock + 1 <= handler[h].now + mode.life
      BY <3>1, TimeTypes
    <3>. QED
      BY <1>0, <2>1, <3>1, <3>2
  <2>. QED
    BY <1>1, <2>2, <2>3
<1>. QED
  BY <1>2, <1>3, <1>4, <1>5, <1>6, HandlerSteps DEF Claims, Adds, Leaves, counting

\* Marks stand as long as they must, and let one handler add.
LEMMA NextMarks ==
  TypeOK /\ HandlersAreTimely /\ MarksStand /\ [Next]_vars => MarksStand'
<1>. SUFFICES ASSUME TypeOK, HandlersAreTimely, MarksStand, [Next]_vars PROVE MarksStand'
  OBVIOUS
<1>. DEFINE Stands(e) ==
              /\ counted[e] > 0 => completed[e] # NoTime /\ Kind[e] \in CountedKinds
              /\ mark[e] # NoTime => /\ completed[e] # NoTime
                                     /\ mark[e] >= completed[e] + MarkLife
              /\ MarkMustStand(e) =>
                   /\ counted[e] <= 1
                   /\ \A h \in Adders(e) : counted[e] = 0 /\ Adders(e) = {h}
                   /\ counted[e] = 1 \/ Adders(e) # {} => mark[e] # NoTime
<1>0. /\ \A e \in Entry : /\ Stands(e) /\ counted[e] \in Nat
                          /\ mark[e] \in Nat \cup {NoTime}
      /\ MarkLife \in Nat
      /\ mark \in [Entry -> Nat \cup {NoTime}] /\ counted \in [Entry -> Nat]
      /\ completed \in [Entry -> Time \cup {NoTime}]
  BY LifeAssumption DEF TypeOK, MarksStand
<1>1. ASSUME \A e \in Entry : Stands(e)' PROVE MarksStand'
  BY <1>1 DEF MarksStand
<1>2. ASSUME NEW e \in Entry, Adders(e)' \subseteq Adders(e), counted'[e] = counted[e],
             mark'[e] = mark[e] \/ (mark[e] <= clock /\ mark'[e] = NoTime),
             completed'[e] = completed[e], clock' \in {clock, clock + 1}
      PROVE  Stands(e)'
  <2>1. Stands(e) /\ counted[e] \in Nat /\ mark[e] \in Nat \cup {NoTime}
        /\ clock \in Nat /\ completed[e] \in Nat \cup {NoTime} /\ NoTime = -1
    BY <1>0, TimeTypes
  <2>2. ASSUME MarkMustStand(e)'
        PROVE  MarkMustStand(e) /\ mark'[e] = mark[e]
    BY <1>0, <1>2, <2>1, <2>2 DEF MarkMustStand
  <2>. QED
    BY <1>2, <2>1, <2>2 DEF MarkMustStand
<1>3. CASE Writes
  <2>1. PICK d \in Entry : /\ completed[d] = NoTime
                           /\ completed' = [completed EXCEPT ![d] = clock]
                           /\ UNCHANGED <<clock, mark, counted, handler>>
    BY <1>3 DEF Writes
  <2>2. Stands(d)'
    <3>1. counted[d] = 0 /\ mark[d] = NoTime
      BY <1>0, <2>1
    <3>2. Adders(d) = {}
      BY <2>1 DEF Adders, HandlersAreTimely, Busy
    <3>3. Adders(d)' = {}
      BY <2>1, <3>2 DEF Adders
    <3>. QED
      BY <2>1, <3>1, <3>3
  <2>3. ASSUME NEW e \in Entry, e # d PROVE Stands(e)'
    <3>1. Adders(e)' = Adders(e) /\ completed'[e] = completed[e]
      BY <1>0, <2>1, <2>3 DEF Adders
    <3>. QED
      BY <1>2, <2>1, <3>1
  <2>. QED
    BY <1>1, <2>2, <2>3
<1>4. ASSUME NEW h \in Handler, NEW e \in Entry,
             handler'[h].pc # "add", \A g \in Handler \ {h} : handler'[g] = handler[g]
      PROVE  Adders(e)' \subseteq Adders(e)
  BY <1>4 DEF Adders
<1>5. CASE Takes \/ Leaves
  <2>1. PICK h \in Handler : /\ handler'[h].pc # "add" /\ UNCHANGED counting
                             /\ \A g \in Handler \ {h} : handler'[g] = handler[g]
    BY <1>5 DEF Takes, Leaves, GoesOn
  <2>. QED
    BY <1>1, <1>2, <1>4, <2>1 DEF counting
<1>6. CASE Claims
  <2>1. PICK h \in Handler :
          /\ handler[h].pc = "claim" /\ GoesOn(h) /\ handler'[h].pc = "add"
          /\ mark[handler[h].entry] = NoTime
          /\ mark' = [mark EXCEPT ![handler[h].entry] = handler[h].now + MarkLife]
          /\ UNCHANGED <<clock, completed, counted>>
    BY <1>6 DEF Claims
  <2>0. PICK d \in Entry : d = handler[h].entry
    BY TimeTypes
  <2>2. /\ completed[d] # NoTime /\ completed[d] <= handler[h].now
        /\ handler[h].now \in Nat /\ completed[d] \in Nat
    BY <2>0, <2>1, TimeTypes DEF HandlersAreTimely, Busy
  <2>3. mark'[d] = handler[h].now + MarkLife /\ mark'[d] # NoTime
    BY <1>0, <2>0, <2>1, <2>2 DEF NoTime
  <2>4. ASSUME NEW e \in Entry, e # d PROVE Stands(e)'
    <3>1. Adders(e)' \subseteq Adders(e)
      BY <2>0, <2>1, <2>4 DEF Adders, GoesOn
    <3>2. mark'[e] = mark[e]
      BY <1>0, <2>0, <2>1, <2>4
    <3>. QED
      BY <1>2, <2>1, <3>1, <3>2
  <2>5. Stands(d)'
    <3>1. counted'[d] > 0 => completed'[d] # NoTime /\ Kind[d] \in CountedKinds
      BY <1>0, <2>1, <2>2
    <3>2. mark'[d] # NoTime => completed'[d] # NoTime /\ mark'[d] >= completed'[d] + MarkLife
      BY <1>0, <2>1, <2>2, <2>3
    <3>3. ASSUME MarkMustStand(d)'
          PROVE  /\ counted'[d] = 0 /\ Adders(d)' = {h}
      <4>1. MarkMustStand(d)
        BY <2>1, <3>3 DEF MarkMustStand
      <4>2. counted[d] = 0 /\ Adders(d) = {}
        BY <1>0, <2>0, <2>1, <2>2, <4>1
      <4>3. Adders(d)' = {h}
        BY <2>0, <2>1, <4>2 DEF Adders, GoesOn
      <4>. QED
        BY <2>1, <4>2, <4>3
    <3>4. ASSUME MarkMustStand(d)'
          PROVE  /\ counted'[d] <= 1
                 /\ \A g \in Adders(d)' : counted'[d] = 0 /\ Adders(d)' = {g}
                 /\ mark'[d] # NoTime
      BY <2>3, <3>3, <3>4
    <3>. QED
      BY <3>1, <3>2, <3>4
  <2>. QED
    BY <1>1, <2>4, <2>5
<1>7. CASE Adds
  <2>1. PICK h \in Handler :
          /\ handler[h].pc = "add" /\ GoesOn(h) /\ handler'[h].pc = "sum"
          /\ counted' = [counted EXCEPT ![handler[h].entry] = @ + 1]
          /\ UNCHANGED <<clock, completed, mark>>
    BY <1>7 DEF Adds
  <2>0. PICK d \in Entry : d = handler[h].entry
    BY TimeTypes
  <2>2. /\ completed[d] # NoTime /\ Kind[d] \in CountedKinds
        /\ h \in Adders(d)
    BY <2>0, <2>1, TimeTypes DEF HandlersAreTimely, Busy, Adders
  <2>3. \A e \in Entry : Adders(e)' \subseteq Adders(e)
    BY <1>4, <2>1 DEF GoesOn
  <2>4. ASSUME NEW e \in Entry, e # d PROVE Stands(e)'
    <3>1. counted'[e] = counted[e]
      BY <1>0, <2>0, <2>1, <2>4
    <3>. QED
      BY <1>2, <2>1, <2>3, <3>1
  <2>5. Stands(d)'
    <3>1. ASSUME MarkMustStand(d)'
          PROVE  counted'[d] = 1 /\ Adders(d)' = {} /\ mark'[d] # NoTime
      <4>1. MarkMustStand(d)
        BY <2>1, <3>1 DEF MarkMustStand
      <4>2. counted[d] = 0 /\ Adders(d) = {h} /\ mark[d] # NoTime
        BY <1>0, <2>2, <4>1
      <4>3. h \notin Adders(d)'
        BY <2>1 DEF Adders
      <4>4. counted'[d] = 1
        BY <1>0, <2>0, <2>1, <2>2, <4>2
      <4>. QED
        BY <2>1, <2>3, <2>2, <4>2, <4>3, <4>4
    <3>. QED
      BY <1>0, <2>1, <2>2, <3>1
  <2>. QED
    BY <1>1, <2>4, <2>5
<1>8. CASE Expires
  <2>1. PICK d \in Entry : /\ mark[d] <= clock /\ mark' = [mark EXCEPT ![d] = NoTime]
                           /\ UNCHANGED <<clock, completed, counted, handler>>
    BY <1>8 DEF Expires
  <2>2. ASSUME NEW e \in Entry PROVE Stands(e)'
    <3>1. Adders(e)' = Adders(e)
      BY <2>1 DEF Adders
    <3>2. mark'[e] = mark[e] \/ (mark[e] <= clock /\ mark'[e] = NoTime)
      BY <1>0, <2>1
    <3>. QED
      BY <1>2, <2>1, <3>1, <3>2
  <2>. QED
    BY <1>1, <2>2
<1>9. CASE Ticks \/ Rests
  <2>1. clock' \in {clock, clock + 1} /\ UNCHANGED <<completed, mark, counted, handler>>
    BY <1>9 DEF Ticks, Rests, counting
  <2>2. \A e \in Entry : Adders(e)' = Adders(e)
    BY <2>1 DEF Adders
  <2>. QED
    BY <1>1, <1>2, <2>1, <2>2
<1>. QED
  BY <1>3, <1>5, <1>6, <1>7, <1>8, <1>9, HandlerSteps

\* Operators decide on what the status lets them.
LEMMA NextReview == TypeOK /\ OperatorsReview /\ [Next]_vars => OperatorsReview'
<1>. SUFFICES ASSUME TypeOK, OperatorsReview, [Next]_vars PROVE OperatorsReview'
  OBVIOUS
<1>1. CASE Reviews
  BY <1>1 DEF Reviews, OperatorsReview
<1>2. CASE Decides \/ WritesDown \/ Retires
  BY <1>2 DEF Decides, WritesDown, Retires, Proceeds, OperatorsReview
<1>3. CASE Stays
  BY <1>3 DEF Stays, OperatorsReview
<1>. QED
  BY <1>1, <1>2, <1>3, OperatorSteps

\* What is written down, or about to be, took place.
LEMMA NextAudits == TypeOK /\ AuditsAreBacked /\ [Next]_vars => AuditsAreBacked'
<1>. SUFFICES ASSUME TypeOK, AuditsAreBacked, [Next]_vars, NEW x \in Transition
              PROVE  /\ IsFiniteSet(Auditing(x)')
                     /\ audit'[x] + Cardinality(Auditing(x)') <= log'[x]
  BY DEF AuditsAreBacked
<1>0. /\ IsFiniteSet(Auditing(x)) /\ Cardinality(Auditing(x)) \in Nat
      /\ audit[x] + Cardinality(Auditing(x)) <= log[x]
      /\ audit[x] \in Nat /\ log[x] \in Nat
      /\ audit \in [Transition -> Nat] /\ log \in [Transition -> Nat]
  BY FS_CardinalityType DEF AuditsAreBacked, TypeOK
<1>1. CASE Reviews
  <2>1. UNCHANGED <<audit, log>> /\ Auditing(x)' = Auditing(x)
    BY <1>1 DEF Reviews, Auditing
  <2>. QED
    BY <1>0, <2>1
<1>2. CASE Decides
  <2>1. PICK o \in Operator :
          /\ operator[o].pc = "set" /\ Proceeds(o) /\ operator'[o].pc = "audit"
          /\ log' = [log EXCEPT ![Act(o)] = @ + 1] /\ audit' = audit
    BY <1>2 DEF Decides
  <2>2. o \notin Auditing(x)
    BY <2>1 DEF Auditing
  <2>3. CASE x = Act(o)
    <3>1. Auditing(x)' = Auditing(x) \cup {o}
      BY <2>1, <2>3 DEF Auditing, Act, Proceeds
    <3>2. /\ IsFiniteSet(Auditing(x) \cup {o})
          /\ Cardinality(Auditing(x) \cup {o}) = Cardinality(Auditing(x)) + 1
      BY <1>0, <2>2, FS_AddElement
    <3>3. log'[x] = log[x] + 1
      BY <1>0, <2>1, <2>3
    <3>. QED
      BY <1>0, <2>1, <3>1, <3>2, <3>3
  <2>4. CASE x # Act(o)
    <3>1. Auditing(x)' = Auditing(x)
      BY <2>1, <2>4 DEF Auditing, Act, Proceeds
    <3>2. log'[x] = log[x]
      BY <1>0, <2>1, <2>4
    <3>. QED
      BY <1>0, <2>1, <3>1, <3>2
  <2>. QED
    BY <2>3, <2>4
<1>3. CASE WritesDown
  <2>1. PICK o \in Operator :
          /\ operator[o].pc = "audit" /\ Proceeds(o) /\ operator'[o].pc = "alert"
          /\ audit' = [audit EXCEPT ![Act(o)] = @ + 1] /\ log' = log
    BY <1>3 DEF WritesDown
  <2>2. Auditing(x)' = Auditing(x) \ {o}
    BY <2>1 DEF Auditing, Proceeds
  <2>3. CASE x = Act(o)
    <3>1. o \in Auditing(x)
      BY <2>1, <2>3 DEF Auditing, Act
    <3>2. /\ IsFiniteSet(Auditing(x) \ {o})
          /\ Cardinality(Auditing(x) \ {o}) = Cardinality(Auditing(x)) - 1
      BY <1>0, <3>1, FS_RemoveElement
    <3>3. audit'[x] = audit[x] + 1
      BY <1>0, <2>1, <2>3
    <3>. QED
      BY <1>0, <2>1, <2>2, <3>2, <3>3
  <2>4. CASE x # Act(o)
    <3>1. o \notin Auditing(x)
      BY <2>1, <2>4 DEF Auditing, Act
    <3>2. Auditing(x)' = Auditing(x) /\ audit'[x] = audit[x]
      BY <1>0, <2>1, <2>2, <2>4, <3>1
    <3>. QED
      BY <1>0, <2>1, <3>2
  <2>. QED
    BY <2>3, <2>4
<1>4. CASE Retires
  <2>1. PICK o \in Operator : /\ Proceeds(o) /\ operator'[o].pc = "idle"
                              /\ UNCHANGED <<audit, log>>
    BY <1>4 DEF Retires
  <2>2. Auditing(x)' = Auditing(x) \ {o}
    BY <2>1 DEF Auditing, Proceeds
  <2>3. /\ IsFiniteSet(Auditing(x) \ {o})
        /\ \/ Cardinality(Auditing(x) \ {o}) = Cardinality(Auditing(x))
           \/ Cardinality(Auditing(x) \ {o}) = Cardinality(Auditing(x)) - 1
    BY <1>0, FS_RemoveElement
  <2>. QED
    BY <1>0, <2>1, <2>2, <2>3
<1>5. CASE Stays
  <2>1. Auditing(x)' = Auditing(x) /\ audit' = audit /\ log'[x] >= log[x] /\ log'[x] \in Nat
    BY <1>5 DEF Stays, Auditing
  <2>. QED
    BY <1>0, <2>1
<1>. QED
  BY <1>1, <1>2, <1>3, <1>4, <1>5, OperatorSteps

\* It holds at first.
LEMMA InitWatched == Init => Watched
<1>. SUFFICES ASSUME Init PROVE Watched
  OBVIOUS
<1>1. /\ clock = 0 /\ mode \in Modes /\ completed = [e \in Entry |-> NoTime]
      /\ mark = [e \in Entry |-> NoTime] /\ counted = [e \in Entry |-> 0]
      /\ audit = [x \in Transition |-> 0] /\ log = [x \in Transition |-> 0]
      /\ \A h \in Handler : handler[h].pc = "idle"
      /\ \A o \in Operator : operator[o].pc = "idle" /\ operator[o].to = "ACTIVE"
      /\ acts = 0 /\ amends = 0
  BY DEF Init, Nothing
<1>2. TypeOK
  <2>1. handler \in [Handler -> HandlerFrame]
    BY Parameters DEF Init, HandlerFrame
  <2>2. operator \in [Operator -> OperatorFrame]
    BY DEF Init, OperatorFrame, AgentStatus
  <2>3. /\ agent \in AgentState /\ policy \in AgentPolicy
        /\ handled \subseteq Entry /\ events \in Nat /\ alerts \in [AlertKind -> Nat]
    BY Parameters DEF Init, AgentState, AgentStatus, AgentPolicy
  <2>4. acts \in 0 .. mode.acts /\ amends \in 0 .. mode.amends
    BY <1>1, Parameters
  <2>. QED
    BY <1>1, <2>1, <2>2, <2>3, <2>4, Parameters DEF TypeOK
<1>3. HandlersAreTimely
  BY <1>1 DEF HandlersAreTimely, Busy, NoTime
<1>4. MarksStand
  BY <1>1 DEF MarksStand, MarkMustStand, Adders
<1>5. OperatorsReview
  BY <1>1 DEF OperatorsReview
<1>6. AuditsAreBacked
  <2>1. ASSUME NEW x \in Transition PROVE Auditing(x) = {} /\ audit[x] = 0 /\ log[x] = 0
    BY <1>1 DEF Auditing
  <2>. QED
    BY <2>1, FS_EmptySet DEF AuditsAreBacked
<1>. QED
  BY <1>2, <1>3, <1>4, <1>5, <1>6 DEF Watched

\* And every step keeps it.
LEMMA NextWatched == Watched /\ [Next]_vars => Watched'
BY NextTypeOK, NextTimely, NextMarks, NextReview, NextAudits DEF Watched

\* The inductive invariant holds.
THEOREM WatchedHolds == Spec => []Watched
BY InitWatched, NextWatched, PTL DEF Spec

-----------------------------------------------------------------------------
(* What follows for audits, windows and pauses *)

\* AuditIsTrue: an audit record tells of a transition of its own, which took place.
\* Among the writes of an operator that are still to come is the record itself, so
\* counting those too makes the bound one that every step keeps.
THEOREM AuditTrue == Spec => []AuditIsTrue
<1>1. Watched => AuditIsTrue
  <2>. SUFFICES ASSUME Watched, NEW x \in Transition PROVE audit[x] <= log[x]
    BY DEF AuditIsTrue
  <2>1. /\ IsFiniteSet(Auditing(x)) /\ audit[x] + Cardinality(Auditing(x)) <= log[x]
        /\ audit[x] \in Nat /\ log[x] \in Nat
    BY DEF Watched, AuditsAreBacked, TypeOK
  <2>2. Cardinality(Auditing(x)) \in Nat
    BY <2>1, FS_CardinalityType
  <2>. QED
    BY <2>1, <2>2
<1>. QED
  BY <1>1, WatchedHolds, PTL

\* Whatever a running handler sums was added once at most, and only if it counts.
LEMMA OnceInWindow ==
  ASSUME MarksOutliveWindows, Watched, NEW h \in Handler, Busy(h),
         NEW e \in InWindow(handler[h].now)
  PROVE  /\ counted[e] \in {0, 1}
         /\ counted[e] = 1 => Kind[e] \in CountedKinds
<1>1. /\ clock \in Nat /\ mode.life \in Nat /\ mode \in Modes
      /\ handler[h].now \in Nat /\ Interval \in Nat /\ MarkLife \in Nat
  BY TimeTypes, Parameters DEF Watched, TypeOK
<1>2. clock <= handler[h].now + mode.life /\ Interval + mode.life <= MarkLife
  BY <1>1 DEF Watched, HandlersAreTimely, MarksOutliveWindows
<1>3. e \in Entry /\ completed[e] \in Time /\ completed[e] > handler[h].now - Interval
  BY DEF InWindow, WindowBuckets
<1>4. completed[e] # NoTime /\ completed[e] \in Nat
  BY <1>3, Parameters
<1>5. MarkMustStand(e)
  BY <1>1, <1>2, <1>3, <1>4 DEF MarkMustStand
<1>6. counted[e] \in Nat /\ counted[e] <= 1 /\ (counted[e] > 0 => Kind[e] \in CountedKinds)
  BY <1>3, <1>5 DEF Watched, TypeOK, MarksStand
<1>. QED
  BY <1>6

\* CountedOnceInWindow, if marks outlive the window and the handlers that read it: an
\* entry that was added twice lost its mark in between, and so has left every window
\* that is or will be read.
THEOREM CountedOnce ==
  ASSUME MarksOutliveWindows
  PROVE  Spec => []CountedOnceInWindow
<1>1. ASSUME Watched PROVE CountedOnceInWindow
  <2>. SUFFICES ASSUME NEW e \in Entry, counted[e] > 1
                PROVE  /\ completed[e] <= clock - Interval
                       /\ \A h \in Handler : Busy(h) => e \notin InWindow(handler[h].now)
    BY DEF CountedOnceInWindow
  <2>1. /\ clock \in Nat /\ mode.life \in Nat /\ mode \in Modes /\ counted[e] \in Nat
        /\ Interval \in Nat /\ MarkLife \in Nat
    BY <1>1, TimeTypes, Parameters DEF Watched, TypeOK
  <2>2. Interval + mode.life <= MarkLife
    BY <2>1 DEF MarksOutliveWindows
  <2>3. completed[e] # NoTime /\ ~MarkMustStand(e)
    BY <1>1, <2>1 DEF Watched, MarksStand
  <2>4. completed[e] \in Nat
    BY <1>1, <2>3, TimeTypes DEF Watched
  <2>5. completed[e] <= clock - Interval
    BY <2>1, <2>2, <2>3, <2>4 DEF MarkMustStand
  <2>6. ASSUME NEW h \in Handler, Busy(h) PROVE e \notin InWindow(handler[h].now)
    BY <1>1, <2>1, <2>6, OnceInWindow
  <2>. QED
    BY <2>5, <2>6
<1>. QED
  BY <1>1, WatchedHolds, PTL

\* So what a handler sums is no more than what the entries of its window cost.
LEMMA SumsAreListed ==
  ASSUME MarksOutliveWindows, Watched, NEW h \in Handler, Busy(h)
  PROVE  RollingSpend(handler[h].now) <= Listed(handler[h].now)
<1>. DEFINE S == InWindow(handler[h].now)
            T == {e \in S : Kind[e] \in CountedKinds}
            f == [e \in Entry |-> counted[e] * Amount[e]]
<1>1. S \in SUBSET Entry /\ T \in SUBSET Entry
  BY DEF InWindow
<1>2. ASSUME NEW e \in S PROVE f[e] = IF counted[e] = 1 THEN Amount[e] ELSE 0
  <2>1. counted[e] \in {0, 1} /\ Amount[e] \in Nat /\ e \in Entry
    BY <1>1, OnceInWindow, Parameters
  <2>2. CASE counted[e] = 0
    BY <2>1, <2>2
  <2>3. CASE counted[e] = 1
    BY <2>1, <2>3
  <2>. QED
    BY <2>1, <2>2, <2>3
<1>3. ASSUME NEW e \in S
      PROVE  /\ f[e] \in Int /\ Amount[e] \in Int
             /\ e \in T => f[e] <= Amount[e]
             /\ e \notin T => f[e] <= 0
  <2>1. Amount[e] \in Nat /\ (counted[e] = 1 => e \in T)
    BY <1>1, OnceInWindow, Parameters
  <2>2. f[e] = Amount[e] \/ f[e] = 0
    BY <1>2
  <2>3. e \notin T => f[e] = 0
    BY <1>2, <2>1
  <2>. HIDE DEF S, T, f
  <2>. QED
    BY <2>1, <2>2, <2>3
<1>4. SumFunctionOnSet(f, S) <= SumFunctionOnSet(Amount, T)
  <2>1. IsFiniteSet(Entry) /\ T \subseteq S
    BY Parameters
  <2>. HIDE DEF S, T, f
  <2>2. /\ \A x \in S : f[x] \in Int
        /\ \A x \in T : Amount[x] \in Int
        /\ \A x \in S \cap T : f[x] <= Amount[x]
        /\ \A x \in S \ T : f[x] <= 0
        /\ \A x \in T \ S : 0 <= Amount[x]
    BY <1>3, <2>1
  <2>. QED
    BY <1>1, <2>1, <2>2, SumDominates
<1>. QED
  BY <1>4 DEF RollingSpend, Listed

\* What is listed for a window never becomes less.
LEMMA ListedGrows ==
  ASSUME TypeOK, [Next]_vars, NEW now \in Time
  PROVE  Listed(now)' \in Int /\ Listed(now) <= Listed(now)'
<1>. DEFINE S == {e \in InWindow(now) : Kind[e] \in CountedKinds}
            T == {e \in InWindow(now)' : Kind[e] \in CountedKinds}
<1>1. S \in SUBSET Entry /\ T \in SUBSET Entry
  BY DEF InWindow
<1>2. S \subseteq T
  <2>1. \/ completed' = completed
        \/ \E e \in Entry : /\ completed[e] = NoTime
                            /\ completed' = [completed EXCEPT ![e] = clock]
    BY HandlerSteps DEF Writes, Takes, Claims, Adds, Leaves, Expires, Ticks, Rests, counting
  <2>2. CASE completed' = completed
    BY <2>2 DEF InWindow
  <2>3. ASSUME NEW e \in Entry, completed[e] = NoTime,
               completed' = [completed EXCEPT ![e] = clock]
        PROVE  S \subseteq T
    <3>1. ASSUME NEW d \in Entry, completed[d] \in WindowBuckets(now)
          PROVE  completed'[d] \in WindowBuckets(now)
      <4>1. completed[d] # NoTime
        BY <3>1, Parameters DEF WindowBuckets
      <4>. QED
        BY <2>3, <3>1, <4>1 DEF TypeOK
    <3>. QED
      BY <3>1 DEF InWindow
  <2>. QED
    BY <2>1, <2>2, <2>3
<1>3. /\ SumFunctionOnSet(Amount, T) \in Int
      /\ SumFunctionOnSet(Amount, S) <= SumFunctionOnSet(Amount, T)
  <2>1. /\ IsFiniteSet(Entry) /\ \A e \in Entry : Amount[e] \in Nat
        /\ IsFiniteSet(T)
    BY <1>1, Parameters, FS_Subset
  <2>. HIDE DEF S, T
  <2>2. /\ \A x \in S : Amount[x] \in Int
        /\ \A x \in T : Amount[x] \in Int
        /\ \A x \in S \cap T : Amount[x] <= Amount[x]
        /\ \A x \in S \ T : Amount[x] <= 0
        /\ \A x \in T \ S : 0 <= Amount[x]
    BY <1>1, <1>2, <2>1
  <2>. QED
    BY <1>1, <2>1, <2>2, SumDominates, SumType
<1>. QED
  BY <1>3 DEF Listed

\* Both are natural numbers.
LEMMA SumTypes ==
  ASSUME TypeOK, NEW now \in Time, NEW limit \in Limits
  PROVE  RollingSpend(now) \in Int /\ Listed(now) \in Int /\ Threshold(limit) \in Int
<1>1. RollingSpend(now) \in Int
  BY WindowTypes
<1>2. Listed(now) \in Int
  <2>. DEFINE S == {e \in InWindow(now) : Kind[e] \in CountedKinds}
  <2>1. IsFiniteSet(S) /\ \A e \in S : Amount[e] \in Int
    BY WindowTypes, FS_Subset, Parameters
  <2>2. SumFunctionOnSet(Amount, S) \in Int
    <3>. HIDE DEF S
    <3>. QED
      BY <2>1, SumType
  <2>. QED
    BY <2>2 DEF Listed
<1>3. Threshold(limit) \in Int
  <2>1. limit \in Int /\ Percent \in Int
    BY Parameters
  <2>2. limit * Percent \in Int
    BY <2>1
  <2>. QED
    BY <2>2 DEF Threshold
<1>. QED
  BY <1>1, <1>2, <1>3

\* A handler that is about to pause the agent summed the window when no entry of it
\* was counted twice, and the entries are still there.
LEMMA NextTrips ==
  ASSUME MarksOutliveWindows, Watched, TripsAreDue, [Next]_vars
  PROVE  TripsAreDue'
<1>0. TypeOK
  BY DEF Watched
<1>1. SUFFICES ASSUME NEW h \in Handler, (handler[h].pc = "trip")'
               PROVE  (Listed(handler[h].now) > Threshold(handler[h].limit))'
  BY DEF TripsAreDue
<1>2. /\ handler'[h].now = handler[h].now /\ handler'[h].limit = handler[h].limit
      /\ \/ handler'[h] = handler[h]
         \/ Busy(h) /\ RollingSpend(handler[h].now) > Threshold(handler[h].limit)
  BY <1>0, <1>1, HandlerSteps
     DEF Writes, Takes, Claims, Adds, Leaves, Expires, Ticks, Rests, GoesOn
<1>3. PICK now \in Time, limit \in Limits :
        /\ now = handler[h].now /\ limit = handler[h].limit
        /\ now = handler'[h].now /\ limit = handler'[h].limit
  BY <1>0, <1>2 DEF TypeOK, HandlerFrame
<1>4. Listed(now) > Threshold(limit)
  <2>1. CASE handler'[h] = handler[h]
    BY <1>1, <1>3, <2>1 DEF TripsAreDue
  <2>2. CASE Busy(h) /\ RollingSpend(handler[h].now) > Threshold(handler[h].limit)
    <3>1. RollingSpend(now) <= Listed(now) /\ RollingSpend(now) > Threshold(limit)
      BY <1>3, <2>2, SumsAreListed
    <3>. QED
      BY <1>0, <3>1, SumTypes
  <2>. QED
    BY <1>2, <2>1, <2>2
<1>5. Listed(now)' > Threshold(limit)
  BY <1>0, <1>4, ListedGrows, SumTypes
<1>6. (Listed(handler[h].now) = Listed(now))'
  BY <1>3 DEF Listed, InWindow, WindowBuckets
<1>7. (Threshold(handler[h].limit) = Threshold(limit))'
  BY <1>3 DEF Threshold
<1>. QED
  BY <1>5, <1>6, <1>7

\* TripsAreDue, on the same condition: whoever is about to pause the agent read a sum
\* that the entries of its window justify, and still justify.
THEOREM TripsDue ==
  ASSUME MarksOutliveWindows
  PROVE  Spec => []TripsAreDue
<1>1. Init => TripsAreDue
  BY DEF Init, TripsAreDue
<1>2. Watched /\ TripsAreDue /\ [Next]_vars => TripsAreDue'
  BY NextTrips
<1>. QED
  BY <1>1, <1>2, WatchedHolds, PTL DEF Spec

\* Who writes the status, and over which: the detector over ACTIVE, an operator over
\* the status it saw, a post over any.
LEMMA StatusSteps ==
  ASSUME Next
  PROVE  \/ UNCHANGED <<agent, log>>
         \/ \E h \in Handler : /\ handler[h].pc = "trip" /\ agent.status = "ACTIVE"
                               /\ agent'.status = "PAUSED_RUNAWAY"
         \/ \E o \in Operator : /\ operator[o].pc = "set"
                                /\ agent.status = operator[o].seen
                                /\ agent'.status = operator[o].to
         \/ agent'.status = "ACTIVE"
<1>. DEFINE Same == UNCHANGED <<agent, log>>
<1>1. ASSUME NEW e \in Entry, Emit(e) \/ ExpireMark(e) PROVE Same
  BY <1>1 DEF Emit, ExpireMark
<1>2. ASSUME NEW h \in Handler,
             \/ Claim(h) \/ Add(h) \/ Sum(h) \/ RecordEvent(h) \/ AlertRunaway(h) \/ Crash(h)
             \/ \E e \in Entry : Deliver(h, e)
      PROVE  Same
  BY <1>2 DEF Claim, Add, Sum, RecordEvent, AlertRunaway, Crash, Deliver
<1>3. ASSUME NEW h \in Handler, Trip(h)
      PROVE  \/ Same
             \/ /\ handler[h].pc = "trip" /\ agent.status = "ACTIVE"
                /\ agent'.status = "PAUSED_RUNAWAY"
  BY <1>3 DEF Trip, SetStatus
<1>4. ASSUME NEW o \in Operator, Decide(o)
      PROVE  \/ Same
             \/ /\ operator[o].pc = "set" /\ agent.status = operator[o].seen
                /\ agent'.status = operator[o].to
  BY <1>4 DEF Decide, SetStatus
<1>5. ASSUME NEW o \in Operator,
             \/ Audit(o) \/ AlertReview(o) \/ Abandon(o)
             \/ \E to \in {"ACTIVE", "PAUSED_ADMIN"} : Review(o, to)
      PROVE  Same
  BY <1>5 DEF Audit, AlertReview, Abandon, Review
<1>6. ASSUME NEW limit \in Limits, SetLimit(limit) PROVE Same
  BY <1>6 DEF SetLimit
<1>7. ASSUME NEW limit \in Limits, NEW enabled \in BOOLEAN, PostAgent(limit, enabled)
      PROVE  agent'.status = "ACTIVE"
  BY <1>7 DEF PostAgent
<1>8. ASSUME Tick PROVE Same
  BY <1>8 DEF Tick
<1>. QED
  BY <1>1, <1>2, <1>3, <1>4, <1>5, <1>6, <1>7, <1>8 DEF Next, Observe

\* DuplicatesPauseNobody, on the same condition: nobody else writes PAUSED_RUNAWAY, and
\* the entries of the window exceed the threshold when the detector does, however
\* often they were delivered.
THEOREM DuplicatesPause ==
  ASSUME MarksOutliveWindows
  PROVE  Spec => DuplicatesPauseNobody
<1>. DEFINE Due == \E h \in Handler :
                     /\ handler[h].pc = "trip"
                     /\ Listed(handler[h].now) > Threshold(handler[h].limit)
<1>1. ASSUME TripsAreDue, Watched, [Next]_vars, PausedByDetector PROVE Due
  <2>1. /\ Next /\ log' # log /\ agent'.status = "PAUSED_RUNAWAY"
        /\ \A o \in Operator : operator[o].to # "PAUSED_RUNAWAY"
    BY <1>1 DEF PausedByDetector, vars, Watched, OperatorsReview
  <2>2. PICK h \in Handler : handler[h].pc = "trip"
    BY <2>1, StatusSteps
  <2>. QED
    BY <1>1, <2>2 DEF TripsAreDue
<1>2. TripsAreDue /\ Watched /\ [Next]_vars => [PausedByDetector => Due]_vars
  BY <1>1
<1>. QED
  BY <1>2, TripsDue, WatchedHolds, PTL DEF Spec, DuplicatesPauseNobody

\* FirstPauseStands: the detector pauses an active agent only, and so does an operator,
\* who writes over the status on which the decision was made.
THEOREM FirstPause == Spec => FirstPauseStands
<1>. DEFINE Stands == agent.status # "ACTIVE" /\ agent'.status # agent.status
                        => agent'.status = "ACTIVE"
<1>1. ASSUME Watched, [Next]_vars PROVE Stands
  <2>1. CASE UNCHANGED vars
    BY <2>1 DEF vars
  <2>2. CASE Next
    <3>. SUFFICES ASSUME agent.status # "ACTIVE", agent'.status # agent.status,
                         NEW o \in Operator, operator[o].pc = "set",
                         agent.status = operator[o].seen, agent'.status = operator[o].to
                  PROVE  agent'.status = "ACTIVE"
      BY <2>2, StatusSteps
    <3>1. operator[o].to \in AgentStatus
      BY <1>1 DEF Watched, TypeOK, OperatorFrame
    <3>. QED
      BY <1>1, <3>1 DEF Watched, OperatorsReview, AgentStatus
  <2>. QED
    BY <1>1, <2>1, <2>2
<1>2. Watched /\ [Next]_vars => [Stands]_vars
  BY <1>1
<1>. QED
  BY <1>2, WatchedHolds, PTL DEF Spec, FirstPauseStands
================================================================================
