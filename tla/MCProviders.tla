------------------------------ MODULE MCProviders ------------------------------
(***************************************************************************)
(* Small instances of the provider registry for TLC: a provider with a     *)
(* key, one with the task's role, and the test provider.                   *)
(***************************************************************************)
EXTENDS Providers, TLC

CONSTANTS g1, g2, openai, bedrock, test, s1, s2, r1, r2, r3

KeyInSettings == openai :> s1
NoKeyInSettings == openai :> NoSecret
Symmetry == Permutations(Request)
================================================================================
