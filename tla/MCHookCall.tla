----------------------------- MODULE MCHookCall -----------------------------
(* Calls of one function: interchangeable. *)
EXTENDS HookCall, TLC
CONSTANTS c1, c2, c3
Calls == Permutations(Call)
=============================================================================
