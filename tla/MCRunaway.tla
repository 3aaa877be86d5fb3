------------------------------- MODULE MCRunaway -------------------------------
(***************************************************************************)
(* Small instances of the runaway detector for TLC.  The threshold is 2 of *)
(* a monthly limit of 10 at 20 percent, and 1 of a limit of 5.             *)
(***************************************************************************)
EXTENDS Runaway, TLC

CONSTANTS e1, e2, e3, h1, h2, o1, o2

\* Three kinds that count: a usage entry and the overage entry of the same work, which
\* exceed the threshold together, and an assumed settlement that does alone.
MCKind == e1 :> "USAGE" @@ e2 :> "OVERAGE" @@ e3 :> "PENDING_ASSUMED"
MCAmount == e1 :> 2 @@ e2 :> 1 @@ e3 :> 3

\* Nothing goes wrong, and two handlers share the work.
Quiet == [backend |-> "dynamo", crashes |-> FALSE, lagging |-> FALSE, life |-> 0,
          entries |-> {e1, e2, e3}, handlers |-> {h1, h2}, time |-> 2, acts |-> 0,
          amends |-> 0]

\* Handlers die and straddle minutes, marks expire.
Faulty == [Quiet EXCEPT !.crashes = TRUE, !.life = 1, !.entries = {e1, e2},
                        !.time = 3]

\* The stream lags: an entry may be minutes old when it comes first.
Late == [Faulty EXCEPT !.crashes = FALSE, !.lagging = TRUE]

\* The detector against operators and the route that posts the agent again.
Reviewed == [Faulty EXCEPT !.backend = "memory", !.entries = {e3}, !.handlers = {h1},
                           !.time = 0, !.acts = 2, !.amends = 1]

AllModes == {Quiet, Faulty, Late, Reviewed}

\* An agent that is posted again and reviewed, and a handler that may die.
ClaimModes == {[Faulty EXCEPT !.entries = {e3}, !.handlers = {h1}, !.acts = 1,
                              !.amends = 1],
               [Faulty EXCEPT !.handlers = {h1}, !.time = 4]}

\* The two entries of one overrun, delivered to one handler.
OverrunModes == {[Quiet EXCEPT !.entries = {e1, e2}, !.handlers = {h1}, !.time = 0]}

\* Entries that are delivered when their minute has left the window.
LateModes == {[Late EXCEPT !.handlers = {h1}, !.life = 0]}
================================================================================
