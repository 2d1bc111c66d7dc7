-------------------------- MODULE MCSymbolHandlers --------------------------
(* One symbol with a locked handler that has two forms, one that is not      *)
(* locked, and one whose hook function cannot be built; a second symbol in   *)
(* the same module.                                                          *)
EXTENDS SymbolHandlers, TLC
CONSTANTS l1, l2, u, b, w, r, q, m
MCId == l1 :> 1 @@ l2 :> 1 @@ u :> 2 @@ b :> 3 @@ w :> 4
MCSymbolOf == l1 :> r @@ l2 :> r @@ u :> r @@ b :> r @@ w :> q
MCModuleOf == r :> m @@ q :> m
MCConfigs == {{l1, u}, {l2, w}, {b}}
=============================================================================
