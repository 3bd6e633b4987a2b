---------------------------- MODULE MCRenovacao -----------------------------
(* Instances of Renovacao for TLC.  The corridas are interchangeable: the    *)
(* cron and the admin endpoint run the same code.                            *)
EXTENDS Renovacao, TLC

Simetria == Permutations(Corridas)
=============================================================================
