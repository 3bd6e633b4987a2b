--------------------------- MODULE MCContratoCiclo ---------------------------
(***************************************************************************)
(* Small instances of ContratoCiclo.                                       *)
(***************************************************************************)
EXTENDS ContratoCiclo, TLC

Simetria == Permutations(Pedidos)
=============================================================================
