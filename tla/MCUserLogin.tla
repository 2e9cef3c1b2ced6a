---------------------------- MODULE MCUserLogin ----------------------------
(* Constants of UserLogin for TLC: c1 owns a1 and knows the privilege code,*)
(* c2 owns a2.                                                             *)
EXTENDS UserLogin, TLC

CONSTANTS c1, c2, a1, a2

MCOwns == c1 :> {a1} @@ c2 :> {a2}

Symmetry == Permutations(Jobs)

=============================================================================
