----------------------------- MODULE MCAlertas -----------------------------
(* Instances of Alertas. *)
EXTENDS Alertas, TLC

Simetria == Permutations(Pedidos) \cup Permutations(Actos) \cup Permutations(Execucoes)
=============================================================================
