---------------------------- MODULE MCBudgetEngine ----------------------------
(***************************************************************************)
(* Small instances of the budget engine for TLC.                           *)
(*                                                                         *)
(* A team budget whose window does not roll within the bound, and the      *)
(* daily budgets of its agents "a" and "b"; an item is named scope/window. *)
(***************************************************************************)
EXTENDS BudgetEngine, TLC

CONSTANTS c1, c2, c3

MCScope == {"team", "a", "b"}
MCKey == {"team/0", "a/0", "a/1", "b/0"}
MCScopeOf ==
  [k \in MCKey |-> CASE k = "team/0" -> "team" [] k = "b/0" -> "b" [] OTHER -> "a"]

\* The items of a call made by agent x at time t.
ItemsOf(x, t) ==
  {"team/0"} \cup IF x = "b" THEN {"b/0"} ELSE IF t = 0 THEN {"a/0"} ELSE {"a/1"}

\* A request: its agent, session, idempotency key and content.
Req(x, s, i, p) == [agent |-> x, session |-> s, idem |-> i, print |-> p]

\* Vectors in money alone, and in money and tokens.
Usd(n) == [d \in {"usd"} |-> n]
Both(n, m) == [d \in {"usd", "tok"} |-> IF d = "usd" THEN n ELSE m]

\* Three calls of two agents under one team, no session, no idempotency key.
RaceRequest == (c1 :> Req("a", "-", "-", 1)) @@ (c2 :> Req("a", "-", "-", 1))
                 @@ (c3 :> Req("b", "-", "-", 1))
RaceKeysAt == [c \in {c1, c2, c3} |-> [t \in 0 .. 0 |->
                 ItemsOf(IF c = c3 THEN "b" ELSE "a", t)]]
RaceCosts == {Usd(2)}
RaceUsages == {Usd(1), Usd(3)}
RacePolicy == [s \in MCScope |-> IF s = "team" THEN Usd(5) ELSE Usd(4)]
NoExpiry == [s \in {} |-> 0]

\* Two calls of agent "a" in a session that expires when the day turns, while
\* operators move every policy to one the larger cost does not fit in.
DayScope == {"team", "a"}
DayKey == {"team/0", "a/0", "a/1"}
DayScopeOf == [k \in DayKey |-> MCScopeOf[k]]
DayRequest == [c \in {c1, c2} |-> Req("a", "s", "-", 1)]
DayKeysAt == [c \in {c1, c2} |-> [t \in 0 .. 1 |-> ItemsOf("a", t)]]
DayCosts == {Both(3, 1), Both(1, 2)}
DayUsages == {Both(3, 1)}
DayLimits == {Both(2, 2)}
DayPolicy == [s \in DayScope |-> Both(4, 3)]
DayExpiry == [s \in {"s"} |-> 1]

\* Three calls with one idempotency key, the last with another content, on a
\* budget that two of them cannot share.
RetryRequest == (c1 :> Req("a", "-", "i", 1)) @@ (c2 :> Req("a", "-", "i", 1))
                  @@ (c3 :> Req("a", "-", "i", 2))
RetryKeysAt == [c \in {c1, c2, c3} |-> [t \in 0 .. 0 |-> {"a/0"}]]
RetryCosts == {Usd(2)}
RetryUsages == {Usd(1), Usd(4)}
RetryPolicies == [s \in MCScope |-> Usd(3)]

\* Two independent calls that share every item, one of them keyed.
PairRequest == (c1 :> Req("a", "-", "-", 1)) @@ (c2 :> Req("a", "-", "i", 1))
PairKeysAt == [c \in {c1, c2} |-> [t \in 0 .. 0 |-> {"team/0", "a/0"}]]
===============================================================================
