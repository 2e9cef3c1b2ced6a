-------------------------- MODULE MCExternalLogin --------------------------
(* Constants of ExternalLogin for TLC: both users have the ASN a1; the     *)
(* texts say a1, a2 and nothing.                                           *)
EXTENDS ExternalLogin, TLC

CONSTANTS a1, a2, t1, t2, junk

MCReads == t1 :> a1 @@ t2 :> a2 @@ junk :> None
MCAccount == [f \in Flows |-> a1]

Symmetry == Permutations(Flows) \cup Permutations(Keys)

=============================================================================
