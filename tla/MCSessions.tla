----------------------------- MODULE MCSessions -----------------------------
(* Two users who log in twice each. *)
EXTENDS Sessions, TLC

CONSTANTS a, b, a1, a2, b1, b2

MCTokens == {a1, a2, b1, b2}
MCOwner  == (a1 :> a) @@ (a2 :> a) @@ (b1 :> b) @@ (b2 :> b)
=============================================================================
