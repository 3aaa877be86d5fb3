--------------------------- MODULE SettlementEffects ---------------------------
(***************************************************************************)
(* What follows a settlement: the threshold warning and the closure of a   *)
(* session, written by follow-up transactions of their own.                *)
(*                                                                         *)
(* Three writers race: the gateway, on a state it read after settling or   *)
(* on the pre-image of a denial; the stream processor, on an image of the  *)
(* item at some earlier change; and the clients of the session routes.     *)
(* Reservation and settlement are the ones of BudgetEngine, reduced to the *)
(* money they move, for calls that all fall under the items of Chain, the  *)
(* last of which is the session's.  remaining is limit - committed -       *)
(* reserved, as BudgetEngine establishes.                                  *)
(***************************************************************************)
EXTENDS Integers, Sequences, FiniteSets, Functions

CONSTANTS
  Call,
  Chain,          \* the budget items of every call, outermost first
  Limit,          \* Limit[k]: the limit item k was seeded at
  Costs, Usages,  \* what a call may hold, and what a provider may bill
  WarningPercent, \* BudgetPolicy.warning_percent
  MinViable,      \* AgentPolicy.session_min_viable
  Modes,          \* deployments: the store, whether follow-up transactions may lose
                  \* a conflict, whether a stream processor runs
  MaxPosts        \* bound on how often the session is posted again

Item == {Chain[i] : i \in DOMAIN Chain}
SessionItem == Chain[Len(Chain)]
NoCall == "none"                     \* the trigger of a stream alert
BackstopPercent == 80

ASSUME ChainAssumption == Chain \in Seq(STRING) /\ Chain # <<>>
ASSUME LimitAssumption == Limit \in [Item -> Nat \ {0}]
ASSUME AmountAssumption == Costs \subseteq Nat \ {0} /\ Usages \subseteq Nat
ASSUME PolicyAssumption == /\ WarningPercent \in 1 .. 99
                           /\ MinViable \in Nat
ASSUME ModeAssumption ==
  Modes \subseteq [backend : {"dynamo", "memory"}, conflicts : BOOLEAN,
                   streaming : BOOLEAN]
ASSUME CallAssumption == NoCall \notin Call
ASSUME BoundAssumption == MaxPosts \in Nat

VARIABLES
  mode,      \* the deployment of this behaviour
  budget,    \* budget[k]: committed, reserved and the warning flag
  session,   \* the session's status and the reason it closed for
  alerts,    \* every alert written
  stream,    \* stream[k]: images of item k not yet consumed, oldest first
  frame,     \* frame[c]: where call c is, and what it has read
  posts      \* how often the session was posted again

vars == <<mode, budget, session, alerts, stream, frame, posts>>

Status == {"OPEN", "CLOSED_BUDGET", "CLOSED_USER"}
Reason == {"none", "budget_exhausted", "remaining_below_viable",
           "user_requested"}
Counters == [committed : Nat, reserved : Nat, warned : BOOLEAN]
Alert == [kind : {"WARN_80", "SESSION_CLOSED"}, item : Item,
          trigger : Call \cup {NoCall}, reason : Reason]
SessionRecord == [status : Status, reason : Reason]
NewSession == [status |-> "OPEN", reason |-> "none"]
NoCounters == [committed |-> 0, reserved |-> 0, warned |-> FALSE]
Pc == {"idle", "held", "read", "warn", "close", "denied", "done", "stopped"}
Frame == [pc : Pc, cost : Nat, at : 1 .. Len(Chain), seen : Counters]

Remaining(k, counters) == Limit[k] - counters.committed - counters.reserved

\* threshold_floor: the remaining balance at which utilization reaches percent
ThresholdFloor(k, percent) == Limit[k] - (Limit[k] * percent) \div 100

\* utilization_percent, of committed spend alone
Utilization(k, counters) == (counters.committed * 100) \div Limit[k]

\* A change of the items is one image per changed item in the stream.
Emit(new) ==
  stream' = [k \in Item |-> IF mode.streaming /\ new[k] # budget[k]
                            THEN Append(stream[k], new[k]) ELSE stream[k]]

Write(new) == budget' = new /\ Emit(new)

-----------------------------------------------------------------------------
(* Reservation and settlement *)

GoTo(c, where) == frame' = [frame EXCEPT ![c].pc = where]

Short(cost) == {i \in DOMAIN Chain :
                  Remaining(Chain[i], budget[Chain[i]]) < cost}

\* Of the items that refuse, the outermost is the blocking one.
Outermost(short) == CHOOSE i \in short : \A j \in short : i <= j

FitsFresh(cost) == \A k \in Item : cost <= Limit[k]

\* Each item grants the cost.
Grant(c, cost) ==
  /\ Short(cost) = {}
  /\ Write([k \in Item |-> [budget[k] EXCEPT !.reserved = @ + cost]])
  /\ frame' = [frame EXCEPT ![c] = [@ EXCEPT !.pc = "held", !.cost = cost]]

\* close_session_on_denial goes on only when the session blocks a request that
\* would have fitted a fresh one; the pre-image comes with the denial.
Deny(c, cost) ==
  /\ Short(cost) # {}
  /\ LET blocking == Outermost(Short(cost))
     IN frame' = [frame EXCEPT ![c] =
                    [@ EXCEPT !.pc = IF /\ FitsFresh(cost)
                                        /\ Chain[blocking] = SessionItem
                                     THEN "denied" ELSE "done",
                              !.seen = budget[SessionItem]]]
  /\ UNCHANGED <<budget, stream>>

\* A closed session is refused whatever the balance, and closes nothing.
Reserve(c) ==
  /\ frame[c].pc = "idle"
  /\ \/ /\ session.status = "OPEN"
        /\ \E cost \in Costs : Grant(c, cost) \/ Deny(c, cost)
     \/ /\ session.status # "OPEN"
        /\ GoTo(c, "done")
        /\ UNCHANGED <<budget, stream>>
  /\ UNCHANGED <<session, alerts, posts>>

\* The hold becomes committed spend on every item; only this outcome is
\* followed by effects.
Reconcile(c) ==
  /\ frame[c].pc = "held"
  /\ \E actual \in Usages :
       Write([k \in Item |->
                [budget[k] EXCEPT !.reserved = @ - frame[c].cost,
                                  !.committed = @ + actual]])
  /\ GoTo(c, "read")
  /\ UNCHANGED <<session, alerts, posts>>

Release(c) ==
  /\ frame[c].pc = "held"
  /\ Write([k \in Item |-> [budget[k] EXCEPT !.reserved = @ - frame[c].cost]])
  /\ GoTo(c, "done")
  /\ UNCHANGED <<session, alerts, posts>>

-----------------------------------------------------------------------------
(* The follow-up transactions *)

AlertsOf(kind, k) == {a \in alerts : a.kind = kind /\ a.item = k}

\* An alert's key is its scope, window and kind.  DynamoDB writes it only when
\* the key is free; the in-memory store appends.
AlertFree(kind, k) == mode.backend = "dynamo" => AlertsOf(kind, k) = {}

\* _try_transaction: a cancellation, whatever its cause, is an answer of False.
Loses(condition) == mode.conflicts \/ ~condition

\* threshold_flip_action's condition, on the stored item
CanFlip(k, percent) ==
  /\ ~budget[k].warned
  /\ Remaining(k, budget[k]) <= ThresholdFloor(k, percent)

\* Fault: the alert goes out and the flag stays down.
AlertUnflagged(k, percent, trigger) ==
  /\ alerts' = IF CanFlip(k, percent) /\ AlertFree("WARN_80", k)
               THEN alerts \cup {[kind |-> "WARN_80", item |-> k,
                                  trigger |-> trigger, reason |-> "none"]}
               ELSE alerts
  /\ UNCHANGED <<budget, stream>>

\* try_flip_threshold: flag and alert in one transaction.
FlipThreshold(k, percent, trigger) ==
  \/ /\ CanFlip(k, percent) /\ AlertFree("WARN_80", k)
     /\ Write([budget EXCEPT ![k].warned = TRUE])
     /\ alerts' = alerts \cup {[kind |-> "WARN_80", item |-> k,
                                trigger |-> trigger, reason |-> "none"]}
  \/ /\ Loses(CanFlip(k, percent) /\ AlertFree("WARN_80", k))
     /\ UNCHANGED <<budget, stream, alerts>>

\* Fault: a closed session may be closed again.
CanCloseAgain == TRUE

\* session_close_action's condition
CanClose == session.status = "OPEN"

\* Fault: the session closes and nobody is told.
CloseSilently(c, reason) ==
  /\ session' = IF CanClose THEN [status |-> "CLOSED_BUDGET", reason |-> reason]
                ELSE session
  /\ UNCHANGED alerts

\* try_close_session by budget: status and alert in one transaction.
CloseByBudget(c, reason) ==
  \/ /\ CanClose /\ AlertFree("SESSION_CLOSED", SessionItem)
     /\ session' = [status |-> "CLOSED_BUDGET", reason |-> reason]
     /\ alerts' = alerts \cup {[kind |-> "SESSION_CLOSED", item |-> SessionItem,
                                trigger |-> c, reason |-> reason]}
  \/ /\ Loses(CanClose /\ AlertFree("SESSION_CLOSED", SessionItem))
     /\ UNCHANGED <<session, alerts>>

ReasonFor(remaining) == IF remaining <= 0 THEN "budget_exhausted"
                        ELSE "remaining_below_viable"

-----------------------------------------------------------------------------
(* The gateway, item by item after a reconciliation *)

ReadState(c) ==
  /\ frame[c].pc = "read"
  /\ frame' = [frame EXCEPT ![c] =
                 [@ EXCEPT !.pc = "warn", !.seen = budget[Chain[frame[c].at]]]]
  /\ UNCHANGED <<budget, session, alerts, stream, posts>>

\* Fault: money that is only held counts as spent.
WarnsOnHeld(k, seen) ==
  ~seen.warned /\ Remaining(k, seen) <= ThresholdFloor(k, WarningPercent)

ShouldWarn(k, seen) ==
  ~seen.warned /\ Utilization(k, seen) >= WarningPercent

MaybeWarn(c) ==
  /\ frame[c].pc = "warn"
  /\ LET k == Chain[frame[c].at]
     IN IF ShouldWarn(k, frame[c].seen)
        THEN FlipThreshold(k, WarningPercent, c)
        ELSE UNCHANGED <<budget, stream, alerts>>
  /\ GoTo(c, "close")
  /\ UNCHANGED <<session, posts>>

\* apply() goes on to the next item of the reservation.
NextItem(c) ==
  LET f == frame[c]
  IN frame' = [frame EXCEPT ![c] =
       IF f.at < Len(Chain) THEN [f EXCEPT !.pc = "read", !.at = f.at + 1]
       ELSE [f EXCEPT !.pc = "done"]]

\* Closure path A, on the state read before the warning.
ShouldClose(remaining) == ~(remaining > 0 /\ remaining >= MinViable)

MaybeClose(c) ==
  /\ frame[c].pc = "close"
  /\ LET k == Chain[frame[c].at]
         remaining == Remaining(k, frame[c].seen)
     IN IF k = SessionItem /\ ShouldClose(remaining)
        THEN CloseByBudget(c, ReasonFor(remaining))
        ELSE UNCHANGED <<session, alerts>>
  /\ NextItem(c)
  /\ UNCHANGED <<budget, stream, posts>>

\* Closure path B, on the pre-image of the denial.
CloseOnDenial(c) ==
  /\ frame[c].pc = "denied"
  /\ LET remaining == Remaining(SessionItem, frame[c].seen)
     IN IF MinViable > 0 /\ remaining >= MinViable
        THEN UNCHANGED <<session, alerts>>
        ELSE CloseByBudget(c, ReasonFor(remaining))
  /\ GoTo(c, "done")
  /\ UNCHANGED <<budget, stream, posts>>

\* The process dies, or the outcome is ambiguous and the hold stays.
Stop(c) ==
  /\ frame[c].pc \notin {"idle", "done", "stopped"}
  /\ GoTo(c, "stopped")
  /\ UNCHANGED <<budget, session, alerts, stream, posts>>

-----------------------------------------------------------------------------
(* The stream processor and the session routes *)

\* Fault: the floor itself has not crossed.
BackstopPastFloor(k, image) ==
  ~image.warned /\ Remaining(k, image) < ThresholdFloor(k, BackstopPercent)

\* _handle_budget_state decides on the image, at a fixed percentage.
BackstopWarns(k, image) ==
  ~image.warned /\ Remaining(k, image) <= ThresholdFloor(k, BackstopPercent)

\* What is still to be delivered of an item once its oldest image was handled:
\* unless the batch is acknowledged, that image comes again.
Undelivered(k, acknowledged) ==
  IF acknowledged THEN Tail(stream[k]) ELSE stream[k]

\* The oldest image of an item is handled.
Consume(k, acknowledged) ==
  /\ stream[k] # <<>>
  /\ LET image == Head(stream[k])
         rest == Undelivered(k, acknowledged)
         flips == /\ BackstopWarns(k, image)
                  /\ CanFlip(k, BackstopPercent)
                  /\ AlertFree("WARN_80", k)
     IN \/ /\ flips
           /\ budget' = [budget EXCEPT ![k].warned = TRUE]
           /\ alerts' = alerts \cup {[kind |-> "WARN_80", item |-> k,
                                      trigger |-> NoCall, reason |-> "none"]}
           /\ stream' = [stream EXCEPT ![k] = Append(rest, budget'[k])]
        \/ /\ Loses(flips)
           /\ stream' = [stream EXCEPT ![k] = rest]
           /\ UNCHANGED <<budget, alerts>>
  /\ UNCHANGED <<session, frame, posts>>

\* POST /sessions writes the record OPEN, whether or not it exists.
PostSession ==
  /\ posts < MaxPosts
  /\ posts' = posts + 1
  /\ session' = NewSession
  /\ UNCHANGED <<budget, alerts, stream, frame>>

\* POST /sessions/{id}/close: the same conditional transition, without alert.
CloseSession ==
  /\ CanClose
  /\ session' = [status |-> "CLOSED_USER", reason |-> "user_requested"]
  /\ UNCHANGED <<budget, alerts, stream, frame, posts>>

-----------------------------------------------------------------------------

Init ==
  /\ mode \in Modes
  /\ budget = [k \in Item |-> NoCounters]
  /\ session = NewSession
  /\ alerts = {}
  /\ stream = [k \in Item |-> <<>>]
  /\ frame = [c \in Call |-> [pc |-> "idle", cost |-> 0, at |-> 1,
                              seen |-> NoCounters]]
  /\ posts = 0

Effects(c) == ReadState(c) \/ MaybeWarn(c) \/ MaybeClose(c) \/ CloseOnDenial(c)

Next ==
  /\ \/ \E c \in Call : Reserve(c) \/ Reconcile(c) \/ Release(c)
                          \/ Effects(c) \/ Stop(c)
     \/ \E k \in Item, acknowledged \in BOOLEAN : Consume(k, acknowledged)
     \/ PostSession \/ CloseSession
  /\ UNCHANGED mode

Spec == Init /\ [][Next]_vars

\* A delivered image is handled and acknowledged in the end; a running gateway
\* keeps running.  Nothing is assumed of crashes, clients or conflicts.
Fairness == /\ \A k \in Item : WF_vars(UNCHANGED mode /\ Consume(k, TRUE))
            /\ \A c \in Call : WF_vars(UNCHANGED mode /\ Effects(c))

FairSpec == Spec /\ Fairness

-----------------------------------------------------------------------------
(* Properties *)

TypeOK ==
  /\ mode \in Modes
  /\ budget \in [Item -> Counters]
  /\ session \in SessionRecord
  /\ alerts \subseteq Alert
  /\ stream \in [Item -> Seq(Counters)]
  /\ frame \in [Call -> Frame]
  /\ posts \in 0 .. MaxPosts

\* The committed spend at which item k has reached percent, rounded up.
CrossingAt(k, percent) == -((-Limit[k] * percent) \div 100)
Crossed(k, percent) == budget[k].committed >= CrossingAt(k, percent)

\* An item's warning flag is up exactly when its one warning was written,
\* whichever of the gateway's calls and the stream got there first.
WarnedExactlyOnce ==
  \A k \in Item :
    Cardinality(AlertsOf("WARN_80", k)) = IF budget[k].warned THEN 1 ELSE 0

\* A warning of the gateway is about money that is spent, not about holds that
\* may be released, even when the state it read is stale by the time it flips.
InlineWarningIsSpent ==
  \A a \in alerts : a.kind = "WARN_80" /\ a.trigger \in Call
                      => Crossed(a.item, WarningPercent)

\* A session closed by its budget has an alert that gives the same reason.
ClosureIsReported ==
  session.status = "CLOSED_BUDGET" =>
    \E a \in AlertsOf("SESSION_CLOSED", SessionItem) : a.reason = session.reason

\* A budget closes no session that never held money: one oversized request
\* leaves it open.
OversizedLeavesOpen ==
  session.status = "CLOSED_BUDGET" => \E c \in Call : frame[c].cost > 0

\* Closers race and the first wins: status and reason of a closed session stay
\* what they are until the session is posted again.
FirstCloserWins ==
  [][session.status # "OPEN" /\ posts' = posts => session' = session]_vars

\* handler.py: a crossing the gateway did not live to report is still reported,
\* where the stream runs and loses no flip to a conflict.
Reporting == mode.streaming /\ ~mode.conflicts
CrossingIsWarned ==
  \A k \in Item : Reporting /\ Crossed(k, BackstopPercent) ~> budget[k].warned

\* handler.py: wherever the stream runs, a crossing is reported.
EveryCrossingIsWarned ==
  \A k \in Item : mode.streaming /\ Crossed(k, BackstopPercent) ~> budget[k].warned

\* DATA_MODEL.md: a session whose gateway died after spending its cap is closed
\* through the stream.
SpentSessionCloses ==
  Crossed(SessionItem, 100) ~> session.status # "OPEN"

\* effects.py _maybe_warn: the warning fires on committed spend, not on
\* committed plus reserved.
WarningIsSpent ==
  \A a \in alerts : a.kind = "WARN_80" => Crossed(a.item, BackstopPercent)

\* DATA_MODEL.md, path A: the close is conditional on remaining_nano <= 0.
ExhaustedMeansSpent ==
  [][session.status = "OPEN" /\ session'.reason = "budget_exhausted"
       => Remaining(SessionItem, budget[SessionItem]) <= 0]_vars

\* effects.py close_session_on_denial: the denial already says that the session
\* is closed; a denied call that may close it leaves it closed.
DenialCloses ==
  [][\A c \in Call :
       /\ frame[c].pc = "denied" /\ frame'[c].pc = "done"
       /\ MinViable > 0 => Remaining(SessionItem, frame[c].seen) < MinViable
       => session'.status # "OPEN"]_vars
-----------------------------------------------------------------------------
(* What the properties rest on, kept by every step *)

\* Every item still has reserved what the running calls hold; a call that was
\* stopped may have left more.
Holders == {c \in Call : frame[c].pc = "held"}
HoldsAreReserved ==
  /\ IsFiniteSet(Holders)
  /\ \A k \in Item :
       SumFunctionOnSet([c \in Call |-> frame[c].cost], Holders) <= budget[k].reserved

\* What a call saw spent stays spent.
ReadsAreCovered ==
  \A c \in Call : frame[c].pc = "warn" =>
    frame[c].seen.committed <= budget[Chain[frame[c].at]].committed

\* Flag and alert of an item come together, once.
WarningsAreFlagged ==
  \A k \in Item : IF budget[k].warned THEN \E a \in alerts : AlertsOf("WARN_80", k) = {a}
                   ELSE AlertsOf("WARN_80", k) = {}

\* Who is about to close the session for its budget, or did, came after a call
\* that held money: counters only ever move after one.
SomeoneHeld == \E c \in Call : frame[c].cost > 0
ClosersCameLater ==
  /\ (\E k \in Item : budget[k] # [NoCounters EXCEPT !.warned = budget[k].warned])
       => SomeoneHeld
  /\ \A c \in Call :
       /\ frame[c].pc \in {"held", "read", "warn", "close"} => frame[c].cost > 0
       /\ frame[c].pc = "denied" => SomeoneHeld

\* The inductive invariant.
Followed == /\ TypeOK
            /\ HoldsAreReserved
            /\ ReadsAreCovered
            /\ WarningsAreFlagged
            /\ InlineWarningIsSpent
            /\ ClosureIsReported
            /\ ClosersCameLater
            /\ OversizedLeavesOpen
=============================================================================
