--------------------------- MODULE MCOtlpForwarder ---------------------------
(* Two connections: one sends an empty frame between good ones, the other    *)
(* may end with one the receiver never accepts.                              *)
EXTENDS OtlpForwarder, TLC

CONSTANTS c1, c2
MCFrames == c1 :> << "good", "empty", "good" >> @@ c2 :> << "good", "bad" >>
=============================================================================
