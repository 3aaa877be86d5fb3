------------------------------- MODULE MCRouting -------------------------------
(***************************************************************************)
(* Small instances of the routing module for TLC: a dear preferred model   *)
(* m1, a cheaper one m2 whose tokenizer counts more, m3 of another         *)
(* provider and without tools, and m4, which has no price.                 *)
(***************************************************************************)
EXTENDS Routing, TLC

CONSTANTS c1, c2, c3, m1, m2, m3, m4, p1, p2, k1, none, team, agent, tools, Team, Room

On(p, m) == [provider |-> p, model |-> m]
MCChain == <<On(p1, m1), On(p1, m4), On(p2, m3), On(p1, m2)>>

Rates == (m1 :> 3) @@ (m2 :> 2) @@ (m3 :> 1) @@ (m4 :> 1)
Outputs == [m \in Model |-> 2]
Windows == (m1 :> 9) @@ (m2 :> 4) @@ (m3 :> 9) @@ (m4 :> 9)
Features == [m \in Model |-> IF m = m3 THEN {} ELSE {tools}]

\* c3 takes all of m1's allocation and does not fit the window of m2; c2 fits
\* that window by m1's count and not by m2's own.
Counts == [c \in Call |->
             [m \in Model |-> IF c = c3 THEN 5
                              ELSE IF m # m2 THEN 2 ELSE IF c = c2 THEN 5 ELSE 3]]
Asks == [c \in Call |-> IF c = c2 THEN {tools} ELSE {}]
Keys == [c \in Call |-> IF c = c2 THEN none ELSE k1]
Limits == (team :> Team) @@ (agent :> 40) @@ (m1 :> 21) @@ (m2 :> Room)
================================================================================
