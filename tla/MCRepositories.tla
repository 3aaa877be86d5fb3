--------------------------- MODULE MCRepositories ---------------------------
(* Small instances of the two repositories for TLC. *)
EXTENDS Repositories

MCLimit == [s \in Scope |-> IF s = "agent" THEN 3 ELSE 4]
=============================================================================
