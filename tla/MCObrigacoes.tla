---------------------------- MODULE MCObrigacoes ----------------------------
(* Instances of Obrigacoes for TLC.  Requests are interchangeable.  Months 0 *)
(* and 1 are of a leap year, 11 to 13 run into a common one.                 *)
EXTENDS Obrigacoes, TLC

Simetria == Permutations(Pedidos)
DatasTodas == {Data(0, 15), Data(13, 28), Data(0, 31), Data(1, 29), Data(11, 29),
               Data(12, 30), Data(12, 31)}
=============================================================================
