--------------------------- MODULE BudgetWindows ---------------------------
(***************************************************************************)
(* Budget windows: an instant and a billing zone resolve to the key of the *)
(* item a request spends from, and to the bounds the item is seeded with.  *)
(***************************************************************************)
EXTENDS Calendar

CONSTANTS
  Policies,   \* the budgets: [type, tz]
  Stretches,  \* the stretches of days looked at: {<<first, last>>, ...}
  Opened      \* the instant the session was opened

VARIABLES
  policy,  \* the budget whose windows these are
  at,      \* the clock, and the instant of the last request
  window,  \* the window that request resolved
  items    \* the windows that have an item, as it was seeded

vars == <<policy, at, window, items>>

----------------------------------------------------------------------------
(* Resolution *)

LocalDate(t, zone) == Day(t + Offset(zone, t))

LocalMidnight(d, zone) == 24 * d - WallOffset(zone, 24 * d)

\* A session's window ends after everything else; its id is the session's.
SessionEnd == 24 * YearStart(2035)

FirstDay(type, d) ==
  CASE type = "DAY" -> d
    [] type = "WEEK" -> FromIso(IsoYear(d), IsoWeek(d))
    [] type = "MONTH" -> MonthStart(YearOf(d), MonthOf(d))

\* Fault: months of thirty days.
RoundLength(type, d) ==
  CASE type = "DAY" -> 1 [] type = "WEEK" -> 7 [] type = "MONTH" -> 30

Length(type, d) ==
  CASE type = "DAY" -> 1 [] type = "WEEK" -> 7
    [] type = "MONTH" -> MonthRange(YearOf(d), MonthOf(d))

\* Fault: a week is numbered within the calendar year.
CalendarId(type, d) ==
  CASE type = "DAY" -> <<d>>
    [] type = "WEEK" -> <<YearOf(d), IsoWeek(d)>>
    [] type = "MONTH" -> <<YearOf(d), MonthOf(d)>>

\* The part of the key that tells the windows of a type apart.
Id(type, d) ==
  CASE type = "DAY" -> <<d>>
    [] type = "WEEK" -> <<IsoYear(d), IsoWeek(d)>>
    [] type = "MONTH" -> <<YearOf(d), MonthOf(d)>>

ForInstant(type, t, zone) ==
  IF type = "SESSION"
  THEN [type |-> type, id |-> <<>>, start |-> Opened, end |-> SessionEnd]
  ELSE LET d == LocalDate(t, zone)
           first == FirstDay(type, d)
       IN [type |-> type, id |-> Id(type, d),
           start |-> LocalMidnight(first, zone),
           end |-> LocalMidnight(first + Length(type, d), zone)]

\* One second past the end is in the hour that begins there.
NextWindow(w) == ForInstant(w.type, w.end, policy.tz)

SortKey(w) == <<w.type, w.id>>

----------------------------------------------------------------------------
(* Requests and the console *)

\* A request at t.  Its transaction seeds the item its key addresses, if there is
\* none, with the bounds of the window.
Arrive(t) ==
  /\ at' = t
  /\ window' = ForInstant(policy.type, t, policy.tz)
  /\ items' = IF \E i \in items : SortKey(i) = SortKey(window') THEN items
              ELSE items \cup {window'}
  /\ UNCHANGED policy

\* A request in the next hour.
Tick ==
  \E s \in Stretches : /\ 24 * s[1] <= at /\ at + 1 < 24 * (s[2] + 1)
                       /\ Arrive(at + 1)

\* The first request after days without any, at the start of the next stretch.
Skip == \E s \in Stretches : /\ 24 * s[1] > at
                             /\ \A r \in Stretches : 24 * r[1] > at => s[1] <= r[1]
                             /\ Arrive(24 * s[1])

\* The console asks for the window of the policy's type, and names no zone.
Shown == ForInstant(policy.type, at, Utc)

Init ==
  /\ policy \in Policies
  /\ \E s \in Stretches : /\ \A r \in Stretches : s[1] <= r[1]
                           /\ at = 24 * s[1]
  /\ window = ForInstant(policy.type, at, policy.tz)
  /\ items = {window}

Next == Tick \/ Skip

Spec == Init /\ [][Next]_vars

----------------------------------------------------------------------------
(* Properties *)

\* A window begins before it ends.
TypeOK ==
  /\ policy \in Policies
  /\ at \in Nat
  /\ \A w \in items \cup {window} :
       w.start \in Int /\ w.end \in Int /\ w.start < w.end

\* window.py next: from one hour to the next the window stays as it is, or the
\* instant is its exclusive end and the window is the one `next' names: no hour is
\* without a budget, none has two.
RollsOver ==
  [][at' = at + 1 =>
       \/ window' = window
       \/ /\ window' = NextWindow(window)
          /\ at' = window.end /\ window'.start = window.end]_vars

\* window.py, module docstring: the window is part of the key, so a key is one
\* period.  The window a request spends from contains the instant of the request,
\* on days of 23 and of 25 hours, at a midnight that does not exist or comes twice,
\* and at either end of a year; its item is seeded with its bounds, and no two items
\* cover one instant.
OneItemPerPeriod ==
  /\ window.start <= at /\ at < window.end
  /\ window \in items
  /\ \A v, w \in items : v = w \/ v.end <= w.start \/ w.end <= v.start

\* The inductive invariant: windows and items are what instants so far resolved to.
Resolved ==
  /\ TypeOK
  /\ Opened <= at /\ at < SessionEnd
  /\ window = ForInstant(policy.type, at, policy.tz) /\ window \in items
  /\ \A i \in items :
       \E t \in i.start .. at : /\ 0 <= t /\ Opened <= t
                             /\ i = ForInstant(policy.type, t, policy.tz)

\* window.py for_instant: period boundaries are the tenant's local midnight, so the
\* item the console shows is the one requests are charged to.
ConsoleShowsCharged == SortKey(Shown) = SortKey(window)
=============================================================================
