----------------------------- MODULE MCPatcher -----------------------------
(* Two handlers of one function and a pattern, all in one module.           *)
EXTENDS Patcher, TLC
CONSTANTS h1, h2, p, sf, sp, m
MCSymbolOf == h1 :> sf @@ h2 :> sf @@ p :> sp
MCOneModule == sf :> m @@ sp :> m
MCConfigs == {{}, {h1}, {h1, h2}, {h2}, {h1, p}, {p}}
=============================================================================
