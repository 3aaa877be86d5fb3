-------------------------------- MODULE Runaway --------------------------------
(***************************************************************************)
(* The runaway detector and the human review of one agent.                 *)
(*                                                                         *)
(* Ledger entries reach the detector through a stream that delivers each   *)
(* at least once, to handlers that run side by side and may die between    *)
(* any two writes.  A handler claims the entry by writing a mark, adds its *)
(* cost to the bucket of the minute it completed in, sums the buckets of   *)
(* the rolling window and pauses the agent when the sum exceeds its share  *)
(* of the monthly limit.  Operators pause and resume the agent on a status *)
(* they read, and may post it again or amend its limit.                    *)
(*                                                                         *)
(* Time is counted in minutes.  Marks carry a time to live, after which    *)
(* the store deletes them when it likes; buckets are kept, which only      *)
(* makes more sums possible.                                               *)
(***************************************************************************)
EXTENDS Integers, FiniteSets, Functions

CONSTANTS
  Entry,         \* the ledger entries of the agent
  Kind, Amount,  \* Kind[e] and Amount[e]: LedgerKind and actual_total_cost
  Handler,       \* concurrent stream handlers
  Operator,
  Limits,        \* the monthly limits an operator may set; Initial the first
  Initial,
  Percent,       \* RunawayPolicy.monthly_budget_percent
  Interval,      \* RunawayPolicy.interval_minutes
  MarkLife,      \* minutes a mark is kept at least: 120
  MaxTime,       \* bound on the clock
  Modes          \* the environments a behaviour may find itself in

LedgerKinds == {"RELEASE", "USAGE", "PENDING_ASSUMED", "OVERAGE"}
CountedKinds == {"USAGE", "PENDING_ASSUMED", "OVERAGE"}

ASSUME EntryAssumption == /\ IsFiniteSet(Entry) /\ Entry # {}
                          /\ Kind \in [Entry -> LedgerKinds]
                          /\ Amount \in [Entry -> Nat]
ASSUME PolicyAssumption == /\ Limits \subseteq Nat /\ Initial \in Limits
                           /\ Percent \in Nat /\ Interval \in Nat
ASSUME LifeAssumption == MarkLife \in Nat
ASSUME BoundAssumption == MaxTime \in Nat

\* An environment: the store; whether handlers and operators may die half-way, and
\* the stream may fall behind the clock; the minutes after which a handler is
\* killed (1); the entries that are written and the handlers that run; bounds on
\* the clock, on pauses and resumes started, on posts and amendments.
Mode == [backend : {"dynamo", "memory"}, crashes : BOOLEAN, lagging : BOOLEAN,
         life : Nat, entries : SUBSET Entry, handlers : SUBSET Handler,
         time : 0 .. MaxTime, acts : Nat, amends : Nat]
ASSUME ModeAssumption == Modes \subseteq Mode

VARIABLES
  mode,       \* the environment of this behaviour
  clock,      \* minutes
  completed,  \* completed[e]: the minute e was written, or NoTime
  handled,    \* the entries some handler was done with, once at least
  mark,       \* mark[e]: the time its mark may be deleted from, or NoTime
  counted,    \* counted[e]: how often e was added to the bucket of its minute
  agent,      \* AgentState: status and review_required
  policy,     \* AgentPolicy: the monthly limit, and whether detection is on
  events,     \* runaway events recorded
  alerts,     \* alerts[k]: alerts of kind k recorded
  audit,      \* audit[x]: audit records that tell of the transition x
  log,        \* log[x]: transitions x that really took place
  handler,    \* handler[h]: where h is, and what it has read
  operator,   \* operator[o]: likewise
  acts, amends

vars == <<mode, clock, completed, handled, mark, counted, agent, policy, events,
          alerts, audit, log, handler, operator, acts, amends>>
ledger == <<completed, handled>>
rolling == <<mark, counted>>
records == <<events, alerts, audit>>
bounds == <<acts, amends>>

NoTime == -1
Time == 0 .. MaxTime
AgentStatus == {"ACTIVE", "PAUSED_RUNAWAY", "PAUSED_ADMIN"}
PausedStatuses == AgentStatus \ {"ACTIVE"}
AgentState == [status : AgentStatus, review : BOOLEAN]
AgentPolicy == [limit : Limits, enabled : BOOLEAN]
AlertKind == {"RUNAWAY_DETECTED", "AGENT_PAUSED", "AGENT_RESUMED"}
By == {"detector", "review", "post"}
Transition == [from : AgentStatus, to : AgentStatus, by : By]
HandlerFrame == [pc : {"idle", "claim", "add", "sum", "trip", "event", "alert"},
                 entry : Entry, now : Time, limit : Limits, sum : Nat]
OperatorFrame == [pc : {"idle", "set", "audit", "alert"}, seen : AgentStatus,
                  to : AgentStatus]

Threshold(limit) == (limit * Percent) \div 100

\* window_buckets: the minutes whose buckets are summed at now.
WindowBuckets(now) == {m \in Time : m > now - Interval /\ m <= now}

InWindow(now) == {e \in Entry : completed[e] \in WindowBuckets(now)}

\* The sum of the buckets, each of which holds Amount[e] counted[e] times.
RollingSpend(now) ==
  SumFunctionOnSet([e \in Entry |-> counted[e] * Amount[e]], InWindow(now))

-----------------------------------------------------------------------------
(* The ledger and its stream *)

Emit(e) ==
  /\ e \in mode.entries /\ completed[e] = NoTime
  /\ completed' = [completed EXCEPT ![e] = clock]
  /\ UNCHANGED <<clock, handled, rolling, agent, policy, records, log, handler,
                 operator, bounds>>

Go(h, where) == handler' = [handler EXCEPT ![h].pc = where]

\* A handler is through with its entry, and the record is acknowledged.
Done(h) == /\ Go(h, "idle")
           /\ handled' = handled \cup {handler[h].entry}

\* _handle_ledger_entry and the first lines of observe.  A record may come
\* again at any time.
Deliver(h, e) ==
  /\ h \in mode.handlers /\ handler[h].pc = "idle" /\ completed[e] # NoTime
  /\ IF policy.enabled /\ Kind[e] \in CountedKinds
     THEN /\ handler' = [handler EXCEPT ![h] =
                           [pc |-> "claim", entry |-> e, now |-> clock,
                            limit |-> policy.limit, sum |-> 0]]
          /\ UNCHANGED handled
     ELSE handled' = handled \cup {e} /\ UNCHANGED handler
  /\ UNCHANGED <<clock, completed, rolling, agent, policy, records, log,
                 operator, bounds>>

\* Fault: a mark that is there does not stop the handler.
ClaimAlways(h) ==
  LET f == handler[h]
  IN /\ f.pc = "claim"
     /\ mark' = [mark EXCEPT ![f.entry] = f.now + MarkLife]
     /\ Go(h, "add")
     /\ UNCHANGED <<clock, ledger, counted, agent, policy, records, log,
                    operator, bounds>>

\* claim_rolling_entry: the mark is put unless there is one.
Claim(h) ==
  LET f == handler[h]
  IN /\ f.pc = "claim"
     /\ IF mark[f.entry] = NoTime
        THEN /\ mark' = [mark EXCEPT ![f.entry] = f.now + MarkLife]
             /\ Go(h, "add")
             /\ UNCHANGED handled
        ELSE Done(h) /\ UNCHANGED mark
     /\ UNCHANGED <<clock, completed, counted, agent, policy, records, log,
                    operator, bounds>>

Add(h) ==
  /\ handler[h].pc = "add"
  /\ counted' = [counted EXCEPT ![handler[h].entry] = @ + 1]
  /\ Go(h, "sum")
  /\ UNCHANGED <<clock, ledger, mark, agent, policy, records, log, operator,
                 bounds>>

\* Fault: the window is summed without the entry just added.
SumOthers(h) ==
  LET f == handler[h]
      sum == RollingSpend(f.now) - Amount[f.entry]
  IN /\ f.pc = "sum"
     /\ handler' = [handler EXCEPT
                      ![h].pc = IF sum > Threshold(f.limit) THEN "trip" ELSE "idle",
                      ![h].sum = sum]
     /\ handled' = handled \cup {f.entry}
     /\ UNCHANGED <<clock, completed, rolling, agent, policy, records, log,
                    operator, bounds>>

\* sum_rolling_spend and is_runaway
Sum(h) ==
  LET f == handler[h]
      sum == RollingSpend(f.now)
  IN /\ f.pc = "sum"
     /\ IF sum > Threshold(f.limit)
        THEN /\ handler' = [handler EXCEPT ![h] =
                              [@ EXCEPT !.pc = "trip", !.sum = sum]]
             /\ UNCHANGED handled
        ELSE Done(h)
     /\ UNCHANGED <<clock, completed, rolling, agent, policy, records, log,
                    operator, bounds>>

-----------------------------------------------------------------------------
(* The agent's status *)

\* Fault: the status is written without looking at it.
SetStatusBlindly(expected, new, by) ==
  /\ agent' = [status |-> new, review |-> new \in PausedStatuses]
  /\ log' = [log EXCEPT ![[from |-> agent.status, to |-> new, by |-> by]] = @ + 1]

\* set_agent_status: a write conditional on the expected status.
SetStatus(expected, new, by) ==
  /\ agent.status = expected
  /\ agent' = [status |-> new, review |-> new \in PausedStatuses]
  /\ log' = [log EXCEPT ![[from |-> agent.status, to |-> new, by |-> by]] = @ + 1]

\* Alerts without a window share one key per kind.  DynamoDB writes the first
\* alone; the in-memory store appends.
RecordAlert(kind) ==
  alerts' = IF mode.backend = "dynamo" /\ alerts[kind] > 0 THEN alerts
            ELSE [alerts EXCEPT ![kind] = @ + 1]

Trip(h) ==
  /\ handler[h].pc = "trip"
  /\ \/ /\ SetStatus("ACTIVE", "PAUSED_RUNAWAY", "detector")
        /\ Go(h, "event")
        /\ UNCHANGED handled
     \/ /\ agent.status # "ACTIVE"
        /\ Done(h)
        /\ UNCHANGED <<agent, log>>
  /\ UNCHANGED <<clock, completed, rolling, policy, records, operator, bounds>>

RecordEvent(h) ==
  /\ handler[h].pc = "event"
  /\ events' = events + 1
  /\ Go(h, "alert")
  /\ UNCHANGED <<clock, ledger, rolling, agent, policy, alerts, audit, log,
                 operator, bounds>>

AlertRunaway(h) ==
  /\ handler[h].pc = "alert"
  /\ RecordAlert("RUNAWAY_DETECTED")
  /\ Done(h)
  /\ UNCHANGED <<clock, completed, rolling, agent, policy, events, audit, log,
                 operator, bounds>>

\* A handler dies or one of its calls fails: the record stays in the stream.
Crash(h) ==
  /\ mode.crashes /\ handler[h].pc # "idle"
  /\ Go(h, "idle")
  /\ UNCHANGED <<clock, ledger, rolling, agent, policy, records, log, operator,
                 bounds>>

-----------------------------------------------------------------------------
(* Human review *)

At(o, where) == operator' = [operator EXCEPT ![o].pc = where]

\* pause and resume read the status and refuse what it rules out.
Review(o, to) ==
  /\ operator[o].pc = "idle" /\ acts < mode.acts
  /\ agent.status = "ACTIVE" <=> to = "PAUSED_ADMIN"
  /\ operator' = [operator EXCEPT ![o] =
                    [pc |-> "set", seen |-> agent.status, to |-> to]]
  /\ acts' = acts + 1
  /\ UNCHANGED <<clock, ledger, rolling, agent, policy, records, log, handler,
                 amends>>

Decide(o) ==
  LET f == operator[o]
  IN /\ f.pc = "set"
     /\ \/ /\ SetStatus(f.seen, f.to, "review")
           /\ At(o, "audit")
        \/ /\ agent.status # f.seen         \* "it may have changed"
           /\ At(o, "idle")
           /\ UNCHANGED <<agent, log>>
     /\ UNCHANGED <<clock, ledger, rolling, policy, records, handler, bounds>>

Audit(o) ==
  LET f == operator[o]
  IN /\ f.pc = "audit"
     /\ audit' = [audit EXCEPT
                    ![[from |-> f.seen, to |-> f.to, by |-> "review"]] = @ + 1]
     /\ At(o, "alert")
     /\ UNCHANGED <<clock, ledger, rolling, agent, policy, events, alerts, log,
                    handler, bounds>>

AlertReview(o) ==
  /\ operator[o].pc = "alert"
  /\ RecordAlert(IF operator[o].to = "ACTIVE" THEN "AGENT_RESUMED"
                 ELSE "AGENT_PAUSED")
  /\ At(o, "idle")
  /\ UNCHANGED <<clock, ledger, rolling, agent, policy, events, audit, log,
                 handler, bounds>>

Abandon(o) ==
  /\ mode.crashes /\ operator[o].pc # "idle"
  /\ At(o, "idle")
  /\ UNCHANGED <<clock, ledger, rolling, agent, policy, records, log, handler,
                 bounds>>

\* create_agent: the policy is put, then the state, ACTIVE in any case.  The
\* two writes are one step here: no other action depends on both.
PostAgent(limit, enabled) ==
  /\ amends < mode.amends
  /\ amends' = amends + 1
  /\ policy' = [limit |-> limit, enabled |-> enabled]
  /\ agent' = [status |-> "ACTIVE", review |-> FALSE]
  /\ log' = [log EXCEPT ![[from |-> agent.status, to |-> "ACTIVE",
                           by |-> "post"]] = @ + 1]
  /\ UNCHANGED <<clock, ledger, rolling, records, handler, operator, acts>>

SetLimit(limit) ==
  /\ amends < mode.amends
  /\ amends' = amends + 1
  /\ policy' = [policy EXCEPT !.limit = limit]
  /\ UNCHANGED <<clock, ledger, rolling, agent, records, log, handler, operator,
                 acts>>

-----------------------------------------------------------------------------
(* Time *)

Busy(h) == handler[h].pc # "idle"

\* No handler outlives its life.  A stream that does not lag delivers an
\* entry within the minute it was written in.
Tick ==
  /\ clock < mode.time
  /\ \A h \in Handler : Busy(h) => clock < handler[h].now + mode.life
  /\ mode.lagging \/ \A e \in Entry : completed[e] # NoTime => e \in handled
  /\ clock' = clock + 1
  /\ UNCHANGED <<ledger, rolling, agent, policy, records, log, handler, operator,
                 bounds>>

ExpireMark(e) ==
  /\ mark[e] # NoTime /\ mark[e] <= clock
  /\ mark' = [mark EXCEPT ![e] = NoTime]
  /\ UNCHANGED <<clock, ledger, counted, agent, policy, records, log, handler,
                 operator, bounds>>

-----------------------------------------------------------------------------

Nothing == [x \in Transition |-> 0]

Init ==
  /\ mode \in Modes
  /\ clock = 0
  /\ completed = [e \in Entry |-> NoTime]
  /\ handled = {}
  /\ mark = [e \in Entry |-> NoTime]
  /\ counted = [e \in Entry |-> 0]
  /\ agent = [status |-> "ACTIVE", review |-> FALSE]
  /\ policy = [limit |-> Initial, enabled |-> TRUE]
  /\ events = 0
  /\ alerts = [k \in AlertKind |-> 0]
  /\ audit = Nothing /\ log = Nothing
  /\ handler = [h \in Handler |-> [pc |-> "idle", entry |-> CHOOSE e \in Entry : TRUE,
                                   now |-> 0, limit |-> Initial, sum |-> 0]]
  /\ operator = [o \in Operator |-> [pc |-> "idle", seen |-> "ACTIVE",
                                     to |-> "ACTIVE"]]
  /\ acts = 0 /\ amends = 0

Observe(h) == \/ Claim(h) \/ Add(h) \/ Sum(h) \/ Trip(h) \/ RecordEvent(h)
              \/ AlertRunaway(h)

Next ==
  /\ \/ \E e \in Entry : Emit(e) \/ ExpireMark(e)
     \/ \E h \in Handler : Observe(h) \/ Crash(h) \/ \E e \in Entry : Deliver(h, e)
     \/ \E o \in Operator : \/ Decide(o) \/ Audit(o) \/ AlertReview(o) \/ Abandon(o)
                            \/ \E to \in {"ACTIVE", "PAUSED_ADMIN"} : Review(o, to)
     \/ \E limit \in Limits : SetLimit(limit)
                                \/ \E enabled \in BOOLEAN : PostAgent(limit, enabled)
     \/ Tick
  /\ UNCHANGED mode

Spec == Init /\ [][Next]_vars

\* A handler that runs goes on, and an entry that no handler was through with is
\* delivered again in the end.
Fairness ==
  /\ \A h \in Handler : WF_vars(UNCHANGED mode /\ Observe(h))
  /\ \A e \in Entry :
       SF_vars(/\ e \notin handled /\ UNCHANGED mode
               /\ \E h \in Handler : Deliver(h, e))

FairSpec == Spec /\ Fairness

-----------------------------------------------------------------------------
(* Properties *)

TypeOK ==
  /\ mode \in Modes
  /\ clock \in Time
  /\ completed \in [Entry -> Time \cup {NoTime}]
  /\ handled \subseteq Entry
  /\ mark \in [Entry -> Nat \cup {NoTime}]
  /\ counted \in [Entry -> Nat]
  /\ agent \in AgentState /\ policy \in AgentPolicy
  /\ events \in Nat /\ alerts \in [AlertKind -> Nat]
  /\ audit \in [Transition -> Nat] /\ log \in [Transition -> Nat]
  /\ handler \in [Handler -> HandlerFrame]
  /\ operator \in [Operator -> OperatorFrame]
  /\ acts \in 0 .. mode.acts /\ amends \in 0 .. mode.amends

\* As far as a running handler's window or the present one reaches, no entry was
\* added twice: redelivery, concurrent delivery and the deletion of marks cannot
\* inflate a sum.
CountedOnceInWindow ==
  \A e \in Entry : counted[e] > 1 => /\ completed[e] <= clock - Interval
                                     /\ \A h \in Handler :
                                          Busy(h) => e \notin InWindow(handler[h].now)

\* What was really spent in the window: an overage entry repeats a part of the
\* usage entry of the same request.
Spent(now) ==
  SumFunctionOnSet(Amount, {e \in InWindow(now) : Kind[e] \in {"USAGE", "PENDING_ASSUMED"}})
Listed(now) ==
  SumFunctionOnSet(Amount, {e \in InWindow(now) : Kind[e] \in CountedKinds})

PausedByDetector == log' # log /\ agent'.status = "PAUSED_RUNAWAY"

\* ARCHITECTURE.md: a duplicate cannot manufacture a runaway.  Whoever is paused
\* by the detector has ledger entries in the window that exceed the threshold,
\* each counted once.
DuplicatesPauseNobody ==
  [][PausedByDetector =>
       \E h \in Handler : /\ handler[h].pc = "trip"
                          /\ Listed(handler[h].now) > Threshold(handler[h].limit)]_vars

\* ARCHITECTURE.md: who is paused spent more than the threshold in the window.
PausedAgentsOverspent ==
  [][PausedByDetector =>
       \E h \in Handler : /\ handler[h].pc = "trip"
                          /\ Spent(handler[h].now) > Threshold(handler[h].limit)]_vars

\* The detector and an operator pause at once, and the first stands: a paused
\* agent leaves its status for ACTIVE only.
FirstPauseStands ==
  [][agent.status # "ACTIVE" /\ agent'.status # agent.status
       => agent'.status = "ACTIVE"]_vars

\* Each audit record tells of a transition of its own that took place: the state
\* an operator acted on was still the state of the agent.
AuditIsTrue == \A x \in Transition : audit[x] <= log[x]

\* API.md: a paused agent requires a resume by a human.
OnlyReviewResumes ==
  \A x \in Transition : x.from = "PAUSED_RUNAWAY" /\ log[x] > 0 => x.by = "review"

\* API.md: the audit trail holds every pause and resume, once nobody is writing.
EveryPauseIsAudited ==
  (\A o \in Operator : operator[o].pc = "idle")
    => \A x \in Transition : x.from # x.to => audit[x] = log[x]

\* API.md: every automatic trip is among the runaway events.
Trips == log[[from |-> "ACTIVE", to |-> "PAUSED_RUNAWAY", by |-> "detector"]]
EveryTripIsRecorded == [](Trips > 0 => <>(events = Trips))

\* Whether the spend of the window ending now calls for a pause.
Overspending ==
  \E limit \in Limits : policy.limit = limit /\ Listed(clock) > Threshold(limit)

\* A handler that does not die, and takes less than the minute it started in; a
\* stream that keeps up.
Calm == ~mode.crashes /\ ~mode.lagging /\ mode.life = 0

\* ARCHITECTURE.md: an agent that spends more than the threshold is paused, as long
\* as the stream and its handlers do their work in time.
RunawayIsPaused == Calm /\ Overspending ~> agent.status # "ACTIVE"

\* The same of the detector as it runs.
RunawayIsAlwaysPaused == Overspending ~> agent.status # "ACTIVE"
-----------------------------------------------------------------------------
(* What the properties rest on, kept by every step *)

\* A running handler has an entry that was written before it started, of a kind
\* that counts, and does not outlive its life.
HandlersAreTimely ==
  /\ \A e \in Entry : completed[e] <= clock
  /\ \A h \in Handler : Busy(h) =>
       /\ completed[handler[h].entry] # NoTime
       /\ Kind[handler[h].entry] \in CountedKinds
       /\ completed[handler[h].entry] <= handler[h].now
       /\ handler[h].now <= clock /\ clock <= handler[h].now + mode.life

\* As long as the mark of an entry must stand, whoever claimed it is the only one
\* to add it, once.
Adders(e) == {h \in Handler : handler[h].pc = "add" /\ handler[h].entry = e}
MarkMustStand(e) == completed[e] # NoTime /\ clock < completed[e] + MarkLife
MarksStand ==
  \A e \in Entry :
    /\ counted[e] > 0 => completed[e] # NoTime /\ Kind[e] \in CountedKinds
    /\ mark[e] # NoTime => completed[e] # NoTime /\ mark[e] >= completed[e] + MarkLife
    /\ MarkMustStand(e) =>
         /\ counted[e] <= 1
         /\ \A h \in Adders(e) : counted[e] = 0 /\ Adders(e) = {h}
         /\ counted[e] = 1 \/ Adders(e) # {} => mark[e] # NoTime

\* An operator resumes what was paused, or pauses what was active.
OperatorsReview ==
  \A o \in Operator :
    /\ operator[o].to # "PAUSED_RUNAWAY"
    /\ operator[o].pc = "set" =>
         (operator[o].seen = "ACTIVE" <=> operator[o].to = "PAUSED_ADMIN")

\* The transitions that operators are about to write down took place too.
Auditing(x) == {o \in Operator : /\ operator[o].pc = "audit"
                                 /\ x = [from |-> operator[o].seen,
                                         to |-> operator[o].to, by |-> "review"]}
AuditsAreBacked ==
  \A x \in Transition : /\ IsFiniteSet(Auditing(x))
                        /\ audit[x] + Cardinality(Auditing(x)) <= log[x]

\* The inductive invariant.
Watched == /\ TypeOK
           /\ HandlersAreTimely
           /\ MarksStand
           /\ OperatorsReview
           /\ AuditsAreBacked

\* Marks outlive the window and the handler that reads it: 120 minutes, for a
\* window of 60 and handlers that live minutes.
MarksOutliveWindows == \A m \in Modes : Interval + m.life <= MarkLife

\* Whoever is about to pause the agent has entries that exceed the threshold.
TripsAreDue ==
  \A h \in Handler : handler[h].pc = "trip" =>
    Listed(handler[h].now) > Threshold(handler[h].limit)
=============================================================================
