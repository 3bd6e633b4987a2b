--------------------------- MODULE MCMemberships ---------------------------
(***************************************************************************)
(* Small instances of Memberships.                                         *)
(***************************************************************************)
EXTENDS Memberships, TLC

Simetria == Permutations(Pedidos) \cup Permutations(Pessoas \ Fundadores)
=============================================================================
