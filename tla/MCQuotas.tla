------------------------------ MODULE MCQuotas ------------------------------
(* Small instances of Quotas.                                                *)
EXTENDS Quotas, TLC

Simetria == Permutations(Pedidos) \cup Permutations(Mensagens)
              \cup Permutations(Contratos \ Semeados)
=============================================================================
