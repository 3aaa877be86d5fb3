--------------------------- MODULE MCCalculations ---------------------------
(***************************************************************************)
(* What the gateway computes of a request before it reserves and after the *)
(* answer: its amounts and its budget windows, on small instances for TLC. *)
(*                                                                         *)
(* The two calculations share no state and no property relates them, so a  *)
(* behaviour moves one of them and leaves the other at its start (at one   *)
(* start of it, where there are several that make no difference).          *)
(***************************************************************************)
EXTENDS Pricing, Calendar

CONSTANTS Policies, Stretches, Opened
VARIABLES policy, at, window, items

\* Zones are full hours from UTC and change by one hour at most; the stretches of
\* days, from 2024 to 2034, come after the session is opened.
Zone == {z \in [std : -24 .. 24, dst : Int, spring : Int, fall : Int] :
           z.dst \in {z.std, z.std + 1}}
ASSUME WindowsAssumption ==
  /\ \A p \in Policies : p.type \in {"DAY", "WEEK", "MONTH", "SESSION"} /\ p.tz \in Zone
  /\ Stretches \subseteq Nat \X Nat /\ Opened \in Int
  /\ \A s \in Stretches : Opened <= 24 * s[1] /\ s[1] < YearStart(2035)
                         /\ s[2] < YearStart(2035)

Windows == INSTANCE BudgetWindows
period == <<policy, at, window, items>>

MCInit == Init /\ Windows!Init
MCNext ==
  \/ Next /\ Windows!Init /\ policy = [type |-> "SESSION", tz |-> Utc] /\ UNCHANGED period
  \/ Windows!Next /\ Init /\ entry.provider = "gemini" /\ UNCHANGED vars
MCSpec == MCInit /\ [][MCNext]_<<vars, period>>

\* The properties of BudgetWindows, under names a configuration can use.
WindowsResolved == Windows!Resolved
OneItemPerPeriod == Windows!OneItemPerPeriod
RollsOver == Windows!RollsOver
ConsoleShowsCharged == Windows!ConsoleShowsCharged

-----------------------------------------------------------------------------
(* Catalogues: rates per 10 tokens, stated in halves of a nano-USD,          *)
(* multipliers in percent                                                    *)

Plain(provider, input, cached, output) ==
  [provider |-> provider, input |-> input, cached |-> cached, write |-> 0,
   output |-> output, min |-> 0, threshold |-> {}, inMult |-> 100, outMult |-> 100,
   hardCap |-> TRUE]

OpenAI == Plain("openai", 50, 20, 200)
Anthropic == [Plain("anthropic", 70, 20, 300) EXCEPT !.write = 90]
Floor == [Plain("bedrock", 16, 0, 40) EXCEPT !.min = 24]
Tiered == [Plain("gemini", 26, 20, 220) EXCEPT !.threshold = {2}, !.inMult = 200,
                                               !.outMult = 150, !.hardCap = FALSE]
TooFine == [OpenAI EXCEPT !.cached = 21]
Negative == [OpenAI EXCEPT !.input = -2]
NoMultiplier == [Tiered EXCEPT !.outMult = 0]

\* Rates of input and output with a fraction of a nano-USD to the token, rates of
\* cached input without.
Catalogue == {OpenAI, Anthropic, Floor, Tiered, TooFine, Negative, NoMultiplier}
ASSUME CatalogueAssumption == \A e \in Catalogue : Refuses(e) \/ Ordinary(e)

\* A fifth of a nano-USD to the token, half of that for a cached one.
Fractions == {Plain("openai", 4, 2, 40)}

\* Both, an entry without a hard cap and one of Bedrock's, on which the documents'
\* claims fail.
ClaimEntries == Fractions \cup {Tiered, Floor}

-----------------------------------------------------------------------------
(* Billing zones that make midnight hard, and the days on which they do      *)

Date(y, m, d) == MonthStart(y, m) + d - 1
Hour(y, m, d, h) == 24 * Date(y, m, d) + h

\* Havana changes at midnight, Sydney in the night that is still the day before in
\* UTC.
Zones == {
  Utc,
  [std |-> 9, dst |-> 9, spring |-> 0, fall |-> 0],            \* Tokyo
  [std |-> -5, dst |-> -4, spring |-> Hour(2026, 3, 8, 7),
   fall |-> Hour(2026, 11, 1, 6)],                             \* New York
  [std |-> -5, dst |-> -4, spring |-> Hour(2026, 3, 8, 5),
   fall |-> Hour(2026, 11, 1, 5)],                             \* Havana
  [std |-> 10, dst |-> 11, spring |-> Hour(2026, 10, 3, 16),
   fall |-> Hour(2027, 4, 3, 16)] }                            \* Sydney

MCPolicies == [type : {"DAY", "WEEK", "MONTH", "SESSION"}, tz : Zones]

\* Changes of the clock, the end of a year with 53 ISO weeks, a leap day.
MCStretches == {
  <<Date(2026, 3, 7), Date(2026, 3, 9)>>,
  <<Date(2026, 10, 3), Date(2026, 10, 5)>>,
  <<Date(2026, 10, 31), Date(2026, 11, 2)>>,
  <<Date(2026, 12, 30), Date(2027, 1, 4)>>,
  <<Date(2028, 2, 28), Date(2028, 3, 1)>> }

MCOpened == Hour(2026, 3, 1, 0)
=============================================================================
