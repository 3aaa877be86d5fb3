------------------------------- MODULE HardCap --------------------------------
(***************************************************************************)
(* What the budget engine promises, in the arithmetic it cannot use.       *)
(*                                                                         *)
(* domain/state.py explains that the intended condition, committed plus    *)
(* reserved plus request at most the limit, is one the store's condition   *)
(* language has no arithmetic for.  This module is that condition, on      *)
(* several accounts at once; the engine implements it with a precomputed   *)
(* remaining counter.                                                      *)
(***************************************************************************)
EXTENDS Naturals

CONSTANTS
  Account,       \* budget-window items
  Limits,        \* what an account may be opened at, natural numbers
  Amounts        \* what may be held or spent in one step, natural numbers

VARIABLES opened, limit, spent, held, excess

cap == <<opened, limit, spent, held, excess>>

Init ==
  /\ opened = {}
  /\ limit = [k \in Account |-> 0]
  /\ spent = [k \in Account |-> 0]
  /\ held = [k \in Account |-> 0]
  /\ excess = [k \in Account |-> 0]

\* Hold a on every account of K, or on none: it must fit in all of them.  An
\* account opens with the first hold on it, and its limit stays what it is.
Hold(K, a) ==
  /\ \E l \in [K -> Limits] :
       limit' = [k \in Account |-> IF k \in K \ opened THEN l[k] ELSE limit[k]]
  /\ opened' = opened \cup K
  /\ \A k \in K : spent[k] + held[k] + a <= limit'[k]
  /\ held' = [k \in Account |-> IF k \in K THEN held[k] + a ELSE held[k]]
  /\ UNCHANGED <<spent, excess>>

\* Settle a hold of h for a, whatever a is; what a has beyond h is excess.
Settle(K, h, a) ==
  /\ K \subseteq opened
  /\ \A k \in K : h <= held[k]
  /\ held' = [k \in Account |-> IF k \in K THEN held[k] - h ELSE held[k]]
  /\ spent' = [k \in Account |-> IF k \in K THEN spent[k] + a ELSE spent[k]]
  /\ excess' = [k \in Account |->
                  IF k \in K /\ a > h THEN excess[k] + (a - h) ELSE excess[k]]
  /\ UNCHANGED <<opened, limit>>

Next ==
  \E K \in SUBSET Account, a \in Amounts :
    Hold(K, a) \/ \E h \in Amounts : Settle(K, h, a)

Spec == Init /\ [][Next]_cap
=============================================================================
