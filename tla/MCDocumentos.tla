---------------------------- MODULE MCDocumentos ----------------------------
(* Small instances of Documentos: two sizes.                                 *)
EXTENDS Documentos, TLC

CONSTANTS d1, d2, d3
Tamanhos == (d1 :> 1) @@ (d2 :> 2) @@ (d3 :> 2)
Simetria == Permutations(Pedidos) \cup Permutations({d2, d3})
=============================================================================
