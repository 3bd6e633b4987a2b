------------------------------ MODULE MCVersoes ------------------------------
(* Small instances of Versoes.                                               *)
EXTENDS Versoes, TLC

Simetria == Permutations(Pedidos) \cup Permutations(Corpos) \cup Permutations(Colaboradores)
=============================================================================
