-------------------------------- MODULE Maps --------------------------------
(* std::collections::HashMap, as a function on the set of its keys. *)
EXTENDS Functions

(* remove, for every key of S *)
Without(f, S) == Restrict(f, DOMAIN f \ S)

(* insert *)
Put(f, k, v) == [x \in DOMAIN f \cup {k} |-> IF x = k THEN v ELSE f[x]]
=============================================================================
