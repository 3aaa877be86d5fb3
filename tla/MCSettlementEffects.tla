-------------------------- MODULE MCSettlementEffects --------------------------
(***************************************************************************)
(* Small instances of the settlement effects for TLC: two or three calls   *)
(* of one agent in a session under a team budget.                          *)
(***************************************************************************)
EXTENDS SettlementEffects, TLC

CONSTANTS c1, c2

TwoItems == <<"team", "session">>
TwoLimits == ("team" :> 10) @@ ("session" :> 5)

Mode(backend, conflicts, streaming) ==
  [backend |-> backend, conflicts |-> conflicts, streaming |-> streaming]
Deployed == Mode("dynamo", FALSE, TRUE)
Conflicting == Mode("dynamo", TRUE, FALSE)
Local == Mode("memory", FALSE, FALSE)
AllModes == {Deployed, Conflicting, Local}
Streamed == {Deployed, Mode("dynamo", TRUE, TRUE)}

OneItem == <<"session">>
OneLimit == "session" :> 5
===============================================================================
