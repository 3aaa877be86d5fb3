---------------------------- MODULE Repositories ----------------------------
(***************************************************************************)
(* One repository protocol, two implementations: DynamoDB serves, the one  *)
(* in memory carries the tests.  Every call is made on both, and both      *)
(* answers are kept.  The calls are the engine's four transactions on the  *)
(* scopes of one agent, the conditional transitions, and the reads of the  *)
(* console.                                                                *)
(*                                                                         *)
(* A DynamoDB scan reads at most Page items, and at most its Limit, in an  *)
(* order of its own, before it filters; no caller asks for the next page.  *)
(***************************************************************************)
EXTENDS Integers, FiniteSets

CONSTANTS
  Res,        \* reservations
  Scope,      \* scopes each of them holds against
  Limit,      \* Limit[s]: the scope's budget
  Costs,      \* costs a request may hold
  Actuals,    \* costs a provider may report
  Page,       \* items a scan reads before it stops
  ListLimit,  \* the limit the console asks its lists with
  Token,      \* login sessions of one user
  MaxTime     \* bound: ledger instants

ASSUME RepositoriesAssumption ==
  /\ IsFiniteSet(Scope) /\ Limit \in [Scope -> Nat]
  /\ Costs \subseteq Nat \ {0} /\ Actuals \subseteq Nat
  /\ {Page, ListLimit, MaxTime} \subseteq Nat

VARIABLES
  dyn,     \* what the DynamoDB tables hold
  mem,     \* what the in-memory repository holds
  answer,  \* the last call and what each of the two answered
  now      \* the clock

vars == <<dyn, mem, answer, now>>

Open == {"RESERVED", "RECONCILE_PENDING"}

Absent == [exists |-> FALSE, remaining |-> 0, reserved |-> 0, committed |-> 0,
           pending |-> 0, overage |-> 0, open |-> 0, warned |-> FALSE]

Empty ==
  [row |-> [s \in Scope |-> Absent],
   res |-> [r \in Res |-> [state |-> "none", cost |-> 0]],
   ledger |-> {},
   agent |-> "ACTIVE", review |-> FALSE,
   alerts |-> {},
   token |-> [t \in Token |-> "none"]]

Max0(n) == IF n < 0 THEN 0 ELSE n
Least(a, b) == IF a < b THEN a ELSE b

----------------------------------------------------------------------------
(* The slots of a plan: what fails, what changes. *)

\* The conditions of an authorisation that evaluate false, by slot.
ReserveFails(store, r, cost) ==
  {s \in Scope : store.row[s].exists /\ store.row[s].remaining < cost}
    \cup (IF store.agent = "ACTIVE" THEN {} ELSE {"status"})
    \cup (IF store.res[r].state = "none" THEN {} ELSE {"claim"})

\* DynamoDB: SET x = if_not_exists(x, limit) - cost, and ADD the counters.
DynHold(row, limit, cost) ==
  [row EXCEPT !.exists = TRUE,
              !.remaining = (IF row.exists THEN @ ELSE limit) - cost,
              !.reserved = @ + cost, !.open = @ + 1]

\* In memory: create the item at its limit, then take from it.
MemSeed(limit) == [Absent EXCEPT !.exists = TRUE, !.remaining = limit]
MemHold(row, limit, cost) ==
  LET item == IF row.exists THEN row ELSE MemSeed(limit)
  IN [item EXCEPT !.remaining = @ - cost, !.reserved = @ + cost, !.open = @ + 1]

\* The only guard of a settlement: the hold it reverses exists.
HoldMissing(store, held) ==
  {s \in Scope : ~store.row[s].exists \/ store.row[s].reserved < held}

\* As DynSettle if the hold went back whole (a mutant).
DynRefund(row, held, actual) ==
  [row EXCEPT !.remaining = @ + held, !.committed = @ + actual,
              !.reserved = @ - held, !.overage = @ + Max0(actual - held),
              !.open = @ - 1]

DynSettle(row, held, actual) ==
  [row EXCEPT !.remaining = @ + (held - actual), !.committed = @ + actual,
              !.reserved = @ - held, !.overage = @ + Max0(actual - held),
              !.open = @ - 1]

MemSettle(row, held, actual) ==
  [row EXCEPT !.remaining = @ + (held - actual), !.committed = @ + actual,
              !.reserved = @ - held, !.overage = @ + Max0(actual - held),
              !.pending = Max0(@ - held), !.open = Max0(@ - 1)]

MarkHeld(row, held) == [row EXCEPT !.pending = @ + held]

\* The reservation's state is checked against the state the plan was made for.
Moved(store, r, expected) ==
  IF store.res[r].state = expected THEN {} ELSE {"reservation"}

----------------------------------------------------------------------------
(* The engine's transactions, all or nothing on each store. *)

\* A ledger entry, and its key: the instant, the reservation and a sequence.
Entry(r, seq, kind) == [res |-> r, seq |-> seq, kind |-> kind, at |-> now]

\* What a settlement records: an excess has an entry of its own.
Entries(r, kind, excess) ==
  {Entry(r, 0, kind)} \cup IF excess > 0 THEN {Entry(r, 1, "OVERAGE")} ELSE {}

\* An entry is put at a key that must be free.
KeyTaken(store, r) ==
  IF \E e \in store.ledger : e.res = r /\ e.seq = 0 /\ e.at = now THEN {"ledger"} ELSE {}

\* What a plan does to a store whose failing slots are `fails'.
Outcome(store, fails, changed) == IF fails = {} THEN changed ELSE store

Answered(op, d, m) == answer' = [op |-> op, refused |-> FALSE, dyn |-> d, mem |-> m]

Reserve(r, cost) ==
  /\ \A s \in Scope : cost <= Limit[s]
  /\ LET df == ReserveFails(dyn, r, cost)
         mf == ReserveFails(mem, r, cost)
         held == [state |-> "RESERVED", cost |-> cost]
     IN /\ dyn' = Outcome(dyn, df,
               [dyn EXCEPT !.row = [s \in Scope |-> DynHold(@[s], Limit[s], cost)],
                           !.res[r] = held])
        /\ mem' = Outcome(mem, mf,
               [mem EXCEPT !.row = [s \in Scope |-> MemHold(@[s], Limit[s], cost)],
                           !.res[r] = held])
        /\ Answered("reserve", df, mf)
  /\ UNCHANGED now

\* A settlement of r: `expected' is the state its plan is conditional on.
Settle(op, r, expected, actual, new, kind) ==
  LET cost == dyn.res[r].cost
      df == Moved(dyn, r, expected) \cup HoldMissing(dyn, cost) \cup KeyTaken(dyn, r)
      mf == Moved(mem, r, expected) \cup HoldMissing(mem, cost) \cup KeyTaken(mem, r)
  IN /\ dyn' = Outcome(dyn, df,
            [dyn EXCEPT !.row = [s \in Scope |-> DynSettle(@[s], cost, actual)],
                        !.res[r].state = new,
                        !.ledger = @ \cup Entries(r, kind, actual - cost)])
     /\ mem' = Outcome(mem, mf,
            [mem EXCEPT !.row = [s \in Scope |-> MemSettle(@[s], cost, actual)],
                        !.res[r].state = new,
                        !.ledger = @ \cup Entries(r, kind, actual - cost)])
     /\ Answered(op, df, mf)
     /\ UNCHANGED now

\* reconcile: legal from RESERVED and from RECONCILE_PENDING, and conditional on
\* RESERVED.
Reconcile(r, actual) ==
  /\ dyn.res[r].state \in Open
  /\ Settle("reconcile", r, "RESERVED", actual, "RECONCILED", "USAGE")

\* release: conditional on the state it was legal from.
Release(r) ==
  /\ dyn.res[r].state \in Open
  /\ Settle("release", r, dyn.res[r].state, 0, "RELEASED", "RELEASE")

MarkPending(r) ==
  /\ dyn.res[r].state = "RESERVED"
  /\ LET cost == dyn.res[r].cost
         df == Moved(dyn, r, "RESERVED") \cup HoldMissing(dyn, cost) \cup KeyTaken(dyn, r)
         mf == Moved(mem, r, "RESERVED") \cup HoldMissing(mem, cost) \cup KeyTaken(mem, r)
         Pend(store) ==
           [store EXCEPT !.row = [s \in Scope |-> MarkHeld(@[s], cost)],
                         !.res[r].state = "RECONCILE_PENDING",
                         !.ledger = @ \cup Entries(r, "PENDING_ASSUMED", 0)]
     IN /\ dyn' = Outcome(dyn, df, Pend(dyn))
        /\ mem' = Outcome(mem, mf, Pend(mem))
        /\ Answered("mark_pending", df, mf)
  /\ UNCHANGED now

----------------------------------------------------------------------------
(* Conditional transitions. *)

\* As CanFlip without the second look at the balance (a mutant).
FlipUnlessSet(store, s, floor) == store.row[s].exists /\ ~store.row[s].warned

CanFlip(store, s, floor) ==
  /\ store.row[s].exists /\ ~store.row[s].warned
  /\ store.row[s].remaining <= floor

MemCanFlip(s, floor) ==
  /\ mem.row[s].exists /\ ~mem.row[s].warned
  /\ mem.row[s].remaining <= floor

Warning(s) == [kind |-> "warning", scope |-> s]

\* DynamoDB flips and writes the alert, whose key must be free; in memory the
\* alert is appended.
TryFlip(s, floor) ==
  /\ LET d == CanFlip(dyn, s, floor) /\ Warning(s) \notin dyn.alerts
         m == MemCanFlip(s, floor)
         Flipped(store) == [store EXCEPT !.row[s].warned = TRUE,
                                         !.alerts = @ \cup {Warning(s)}]
     IN /\ dyn' = IF d THEN Flipped(dyn) ELSE dyn
        /\ mem' = IF m THEN Flipped(mem) ELSE mem
        /\ Answered("flip", d, m)
  /\ UNCHANGED now

\* set_agent_status with an expected status; the memory also asks for a change.
DynAccepts(expected, new) == dyn.agent = expected
MemAccepts(expected, new) == mem.agent = expected /\ mem.agent # new

Paused == {"PAUSED_RUNAWAY", "PAUSED_ADMIN"}
DynReview(new) == new \in Paused   \* the status starts with PAUSED
MemReview(new) == new \in Paused   \* one of these two

\* The detector and an operator pause an ACTIVE agent; an operator resumes one from
\* the status read last, which may be over.
Transitions == ({"ACTIVE"} \X Paused) \cup (Paused \X {"ACTIVE"})

SetAgentStatus(expected, new) ==
  /\ LET d == DynAccepts(expected, new)
         m == MemAccepts(expected, new)
     IN /\ dyn' = IF d THEN [dyn EXCEPT !.agent = new, !.review = DynReview(new)] ELSE dyn
        /\ mem' = IF m THEN [mem EXCEPT !.agent = new, !.review = MemReview(new)] ELSE mem
        /\ Answered("status", d, m)
  /\ UNCHANGED now

----------------------------------------------------------------------------
(* Reads. *)

\* The items of the core table.
CoreItems ==
  {<<"row", s>> : s \in {s \in Scope : dyn.row[s].exists}}
    \cup {<<"res", r>> : r \in {r \in Res : dyn.res[r].state # "none"}}
    \cup {<<"claim", r>> : r \in {r \in Res : dyn.res[r].state # "none"}}
    \cup {<<"alert", a>> : a \in dyn.alerts}
    \cup {<<"login", t>> : t \in {t \in Token : dyn.token[t] # "none"}}
    \cup {<<"session", "s">>, <<"state", "agent">>}

\* The items a scan reads: as many as it may, and any of them.
Read(limit) ==
  LET size == Least(Cardinality(CoreItems), Least(limit, Page))
  IN {found \in SUBSET CoreItems : Cardinality(found) = size}

\* What the in-memory store shows of a list: the newest up to its limit, here any, as
\* the model has no order among them.
Shown(list) ==
  {shown \in SUBSET list : Cardinality(shown) = Least(Cardinality(list), ListLimit)}

ListAlerts ==
  /\ \E found \in Read(ListLimit), shown \in Shown(mem.alerts) :
       Answered("alerts", {a \in dyn.alerts : <<"alert", a>> \in found}, shown)
  /\ UNCHANGED <<dyn, mem, now>>

ListSessions ==
  /\ \E found \in Read(ListLimit), shown \in Shown({"s"}) :
       Answered("sessions", {s \in {"s"} : <<"session", s>> \in found}, shown)
  /\ UNCHANGED <<dyn, mem, now>>

SignIn(t) ==
  /\ dyn.token[t] = "none"
  /\ dyn' = [dyn EXCEPT !.token[t] = "live"]
  /\ mem' = [mem EXCEPT !.token[t] = "live"]
  /\ Answered("sign in", TRUE, TRUE)
  /\ UNCHANGED now

\* revoke_user_sessions, for the user whose sessions these are: DynamoDB revokes
\* what one scan returns, the memory what there is.
Live(store) == {t \in Token : store.token[t] = "live"}
Revoked(store, tokens) ==
  [store EXCEPT !.token = [t \in Token |-> IF t \in tokens THEN "revoked" ELSE @[t]]]

RevokeUserSessions ==
  /\ \E found \in Read(Page) :
       LET tokens == {t \in Live(dyn) : <<"login", t>> \in found}
       IN /\ dyn' = Revoked(dyn, tokens)
          /\ mem' = Revoked(mem, Live(mem))
          /\ Answered("revoke", Cardinality(tokens), Cardinality(Live(mem)))
  /\ UNCHANGED now

\* DynamoDB refuses a query that is not an equality on its partition key, and one
\* that names an attribute it does not use.
QueryRefused(op, named, used) == op # "=" \/ named # used

\* query_ledger names the sort key always, and uses it with a `since' alone.
LedgerUses(since) == {"GSI1PK"} \cup (IF since = -1 THEN {} ELSE {"GSI1SK"})

From(store, since) == {e \in store.ledger : e.at >= since}

QueryLedger(since) ==
  /\ answer' = [op |-> "ledger",
                refused |-> QueryRefused("=", {"GSI1PK", "GSI1SK"}, LedgerUses(since)),
                dyn |-> From(dyn, since), mem |-> From(mem, since)]
  /\ UNCHANGED <<dyn, mem, now>>

\* get_audit_events looks for a prefix of the partition key.
ReadAudit ==
  /\ answer' = [op |-> "audit",
                refused |-> QueryRefused("begins_with", {"PK"}, {"PK"}),
                dyn |-> {}, mem |-> {}]
  /\ UNCHANGED <<dyn, mem, now>>

Tick ==
  /\ now < MaxTime
  /\ now' = now + 1
  /\ UNCHANGED <<dyn, mem, answer>>

----------------------------------------------------------------------------
Init ==
  /\ dyn = Empty
  /\ mem = Empty
  /\ answer = [op |-> "none", refused |-> FALSE, dyn |-> {}, mem |-> {}]
  /\ now = 0

Transact ==
  \E r \in Res :
    \/ \E cost \in Costs : Reserve(r, cost)
    \/ \E actual \in Actuals : Reconcile(r, actual)
    \/ Release(r)
    \/ MarkPending(r)

Next ==
  \/ Transact
  \/ \E s \in Scope, percent \in {50} : TryFlip(s, Limit[s] - (Limit[s] * percent) \div 100)
  \/ \E t \in Transitions : SetAgentStatus(t[1], t[2])
  \/ ListAlerts
  \/ ListSessions
  \/ \E t \in Token : SignIn(t)
  \/ RevokeUserSessions
  \/ \E since \in -1 .. MaxTime : QueryLedger(since)
  \/ ReadAudit
  \/ Tick

Spec == Init /\ [][Next]_vars

----------------------------------------------------------------------------
(* What the contract suite can rely on. *)

\* Every counter but the balance is a natural number, in both stores.
Row == [exists : BOOLEAN, remaining : Int, reserved : Nat, committed : Nat,
        pending : Nat, overage : Nat, open : Nat, warned : BOOLEAN]
State == Open \cup {"none", "RECONCILED", "RELEASED"}
LedgerEntry == [res : Res, seq : {0, 1}, at : Nat,
                kind : {"USAGE", "OVERAGE", "RELEASE", "PENDING_ASSUMED"}]
Store == [row : [Scope -> Row], res : [Res -> [state : State, cost : Nat]],
          ledger : SUBSET LedgerEntry,
          agent : {"ACTIVE"} \cup Paused, review : BOOLEAN,
          alerts : SUBSET {Warning(s) : s \in Scope},
          token : [Token -> {"none", "live", "revoked"}]]

TypeOK == dyn \in Store /\ mem \in Store /\ now \in Nat

\* The plans' promise that "a behaviour proven against the fast in-memory backend
\* is a behaviour the real one must also exhibit": after any calls the two hold
\* the same counters (but `pending'), reservations, entries, status and alerts.
Books(store) ==
  [store EXCEPT !.row = [s \in Scope |-> [@[s] EXCEPT !.pending = 0]]]

SameBooks == Books(dyn) = Books(mem)

\* And every call is answered alike: the same slots fail a plan, the same caller
\* wins a transition, the same items are listed.  A query DynamoDB refuses is
\* left to the two properties about it.
SameVerdict == ~answer.refused => answer.dyn = answer.mem

\* No scan leaves anything unread.
TableFits == Cardinality(CoreItems) <= Page /\ Cardinality(CoreItems) <= ListLimit

\* Items that were never held against are as if they were not there.
UnseededIsAbsent ==
  \A s \in Scope : /\ ~dyn.row[s].exists => dyn.row[s] = Absent
                   /\ ~mem.row[s].exists => mem.row[s] = Absent

\* Each scope counts the reservations that are open on it.
OpenRes == {r \in Res : dyn.res[r].state \in Open}
OpenIsCounted == \A s \in Scope : dyn.row[s].open = Cardinality(OpenRes)

\* The alert of a warning is written with its flag: the free key is no condition
\* of its own.
AlertsAreFlagged == \A s \in Scope : Warning(s) \in dyn.alerts => dyn.row[s].warned

\* What calls have put into the table so far is finite.
Known == {r \in Res : dyn.res[r].state # "none"}
SignedIn == {t \in Token : dyn.token[t] # "none"}
TableIsFinite == IsFiniteSet(Known) /\ IsFiniteSet(SignedIn)

\* The inductive invariant, of tables that fit.
Agreed == /\ TypeOK /\ SameBooks /\ SameVerdict
          /\ UnseededIsAbsent /\ OpenIsCounted /\ AlertsAreFlagged /\ TableIsFinite

\* In memory `pending' is a part of `reserved' always: a hold that settles stops
\* being counted.
MemPendingIsHeld == \A s \in Scope : mem.row[s].pending <= mem.row[s].reserved

\* In DynamoDB nothing takes `pending' down, so a hold released after it was
\* marked is still counted, against "a reporting subset of reserved".
PendingIsHeld == \A s \in Scope : dyn.row[s].pending <= dyn.row[s].reserved

\* Late evidence settles a pending reservation, as the transition table allows:
\* a reconcile it lets pass is not refused for the reservation's state.
EvidenceSettles == answer.op = "reconcile" => "reservation" \notin answer.dyn

\* revoke_user_sessions leaves the user no live session.
RevokesEvery == answer.op = "revoke" => Live(dyn) = {}

\* A list with room to spare for the items of its kind holds them all.
ListsAreWhole ==
  answer.op \in {"alerts", "sessions"} /\ Cardinality(answer.mem) < ListLimit
    => answer.dyn = answer.mem

\* The console can read a ledger, and the audit trail.
LedgerReadable == answer.op = "ledger" => ~answer.refused
AuditReadable == answer.op = "audit" => ~answer.refused

=============================================================================
